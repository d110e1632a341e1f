------------------------- MODULE ConversionsProofs -------------------------
(***************************************************************************)
(* Proofs about Conversions: expand_env puts out every piece of its        *)
(* reference, and camel_to_snake every word of a clear name, for all texts *)
(* and all names.  The inductive invariant of either loop says that what   *)
(* it has put out are the pieces of the reference up to its position; the  *)
(* first section says what FlattenSeq does with one piece more.            *)
(*                                                                         *)
(* FlattenSeq is recursive, and a fact about it is proved by its least     *)
(* counterexample among the natural numbers.                               *)
(***************************************************************************)
EXTENDS Conversions, SequenceTheorems, WellFoundedInduction, TLAPS

-----------------------------------------------------------------------------
\* Among natural numbers one is the least.
LEMMA LeastExists ==
    ASSUME NEW N \in SUBSET Nat, N # {}
    PROVE  \E c \in N : \A d \in N : c <= d
<1>1. PICK c \in N : \A d \in N : ~ (<<d, c>> \in OpToRel(<, Nat))
  BY NatLessThanWellFounded, WFMin
<1>2. ASSUME NEW d \in N PROVE c <= d
  <2>1. ~ (<<d, c>> \in OpToRel(<, Nat))
    BY <1>1
  <2>2. ~ (d < c)
    BY <2>1 DEF OpToRel
  <2> QED BY <2>2
<1> QED BY <1>2

\* What FlattenSeq recurs on: the pieces up to k, one behind the other.
Flattens(s, n, f) ==
    f = [k \in 1..n |-> IF k = 1 THEN s[k] ELSE f[k - 1] \o s[k]]

\* The recursion of FlattenSeq defines a function, for any number of pieces.
LEMMA FlattensExists ==
    ASSUME NEW s, NEW n \in Nat
    PROVE  \E f : Flattens(s, n, f)
<1> DEFINE undefined == {m \in Nat : ~ \E f : Flattens(s, m, f)}
<1>1. CASE undefined = {}
  BY <1>1
<1>2. CASE undefined # {}
  <2>1. PICK c \in undefined : \A d \in undefined : c <= d
    <3> HIDE DEF undefined
    <3>1. undefined \in SUBSET Nat
      BY DEF undefined
    <3> QED BY <1>2, <3>1, LeastExists
  <2>2. c # 0
    <3> DEFINE g == [k \in 1..0 |-> s[k]]
    <3>1. g = [k \in 1..0 |-> IF k = 1 THEN s[k] ELSE g[k - 1] \o s[k]]
      OBVIOUS
    <3>2. Flattens(s, 0, g)
      BY <3>1 DEF Flattens
    <3> QED BY <3>2
  <2>3. c - 1 \in Nat /\ c - 1 \notin undefined
    BY <2>1, <2>2
  <2>4. PICK g : Flattens(s, c - 1, g)
    BY <2>3
  <2> DEFINE last == IF c = 1 THEN s[c] ELSE g[c - 1] \o s[c]
             h == [k \in 1..c |-> IF k = c THEN last ELSE g[k]]
  <2>5. ASSUME NEW k \in 1..c
        PROVE  h[k] = IF k = 1 THEN s[k] ELSE h[k - 1] \o s[k]
    <3>1. CASE k = c
      <4>1. h[k] = last
        BY <3>1
      <4>2. c # 1 => h[c - 1] = g[c - 1]
        BY <2>2
      <4> QED BY <3>1, <4>1, <4>2
    <3>2. CASE k # c
      <4>1. k \in 1..(c - 1)
        BY <3>2
      <4>2. h[k] = g[k] /\ (k # 1 => h[k - 1] = g[k - 1])
        BY <3>2, <4>1
      <4>3. g[k] = IF k = 1 THEN s[k] ELSE g[k - 1] \o s[k]
        BY <2>4, <4>1 DEF Flattens
      <4> QED BY <4>2, <4>3
    <3> QED BY <3>1, <3>2
  <2>6. h = [k \in 1..c |-> IF k = 1 THEN s[k] ELSE h[k - 1] \o s[k]]
    <3>1. h = [k \in 1..c |-> h[k]]
      OBVIOUS
    <3> HIDE DEF h
    <3> QED BY <2>5, <3>1
  <2>7. Flattens(s, c, h)
    <3> HIDE DEF h
    <3> QED BY <2>6 DEF Flattens
  <2> QED BY <2>1, <2>7
<1> QED BY <1>1, <1>2

\* FlattenSeq is the last value of its recursion.
LEMMA FlattenIsLast ==
    ASSUME NEW s, Len(s) \in Nat, Len(s) # 0
    PROVE  \E f : Flattens(s, Len(s), f) /\ FlattenSeq(s) = f[Len(s)]
<1> DEFINE f == CHOOSE g : Flattens(s, Len(s), g)
<1>1. Flattens(s, Len(s), f)
  BY FlattensExists
<1>2. FlattenSeq(s) = f[Len(s)]
  BY DEF FlattenSeq, Flattens
<1> QED BY <1>1, <1>2

\* The recursion defines only one function.
LEMMA FlattensUnique ==
    ASSUME NEW s, NEW t, NEW f, NEW g, NEW m, NEW n, m \in Nat, n \in Nat, m <= n,
           Flattens(s, n, f), Flattens(t, m, g), \A k \in 1..m : s[k] = t[k]
    PROVE  \A k \in 1..m : f[k] = g[k]
<1> DEFINE differ == {k \in 1..m : f[k] # g[k]}
<1>1. CASE differ = {}
  BY <1>1
<1>2. CASE differ # {}
  <2>1. PICK c \in differ : \A d \in differ : c <= d
    <3>1. differ \in SUBSET Nat
      OBVIOUS
    <3> HIDE DEF differ
    <3> QED BY <1>2, <3>1, LeastExists
  <2>2. c \in 1..m /\ c \in 1..n /\ f[c] # g[c]
    OBVIOUS
  <2>3. /\ f[c] = IF c = 1 THEN s[c] ELSE f[c - 1] \o s[c]
        /\ g[c] = IF c = 1 THEN t[c] ELSE g[c - 1] \o t[c]
    BY <2>2 DEF Flattens
  <2>4. c # 1
    BY <2>2, <2>3
  <2>5. c - 1 \in 1..m /\ ~ (c <= c - 1)
    BY <2>2, <2>4
  <2>6. f[c - 1] = g[c - 1]
    BY <2>1, <2>5
  <2> QED BY <2>2, <2>3, <2>6
<1> QED BY <1>1, <1>2

\* One piece is what it gives.
LEMMA FlattenOne ==
    ASSUME NEW u, Len(u) = 1
    PROVE  FlattenSeq(u) = u[1]
<1>1. PICK n : n \in Nat /\ n = Len(u) /\ n # 0
  OBVIOUS
<1>2. PICK f : Flattens(u, n, f) /\ FlattenSeq(u) = f[n]
  BY <1>1, FlattenIsLast
<1>3. f[n] = u[n]
  BY <1>1, <1>2 DEF Flattens
<1>4. n = 1
  BY <1>1
<1> QED BY <1>2, <1>3, <1>4

\* One piece more is put behind what the others give.
LEMMA FlattenOneMore ==
    ASSUME NEW u, NEW t, NEW m, m \in Nat, m # 0, Len(t) = m, Len(u) = m + 1,
           \A k \in 1..m : u[k] = t[k]
    PROVE  FlattenSeq(u) = FlattenSeq(t) \o u[m + 1]
<1>1. PICK n : n \in Nat /\ n = m + 1 /\ n # 0 /\ m <= n
  OBVIOUS
<1>2. PICK f : Flattens(u, n, f) /\ FlattenSeq(u) = f[n]
  BY <1>1, FlattenIsLast
<1>3. PICK g : Flattens(t, m, g) /\ FlattenSeq(t) = g[m]
  BY FlattenIsLast
<1>4. f[n] = f[m] \o u[n]
  <2>1. n \in 1..n /\ n # 1 /\ n - 1 = m
    BY <1>1
  <2>2. f[n] = IF n = 1 THEN u[n] ELSE f[n - 1] \o u[n]
    BY <1>2, <2>1 DEF Flattens
  <2> QED BY <2>1, <2>2
<1>5. f[m] = g[m]
  <2>1. \A k \in 1..m : f[k] = g[k]
    BY <1>1, <1>2, <1>3, FlattensUnique
  <2>2. m \in 1..m
    OBVIOUS
  <2> QED BY <2>1, <2>2
<1> QED BY <1>1, <1>2, <1>3, <1>4, <1>5

-----------------------------------------------------------------------------
(***************************************************************************)
(* FlattenSeq piece by piece: what the two loops have put out after the    *)
(* first n pieces of their reference.                                      *)
(***************************************************************************)
Flat(s, n) == FlattenSeq(SubSeq(s, 1, n))

\* The pieces of a prefix are those of the sequence.
LEMMA Prefix ==
    ASSUME NEW T, NEW s \in Seq(T), NEW n \in 0..Len(s)
    PROVE  /\ SubSeq(s, 1, n) \in Seq(T) /\ Len(SubSeq(s, 1, n)) = n
           /\ \A k \in 1..n : SubSeq(s, 1, n)[k] = s[k]
<1>1. \A k \in 1..n : s[k] \in T
  BY LenProperties
<1>2. /\ SubSeq(s, 1, n) \in Seq(T)
      /\ Len(SubSeq(s, 1, n)) = IF 1 <= n THEN n - 1 + 1 ELSE 0
      /\ \A k \in 1..n - 1 + 1 : SubSeq(s, 1, n)[k] = s[1 + k - 1]
  <2>1. n \in Int
    BY LenProperties
  <2> QED BY <1>1, <2>1, SubSeqProperties
<1> QED BY <1>2, LenProperties

\* No piece gives nothing, all give FlattenSeq.
LEMMA FlatEnds ==
    ASSUME NEW T, NEW s \in Seq(T)
    PROVE  Flat(s, 0) = <<>> /\ Flat(s, Len(s)) = FlattenSeq(s)
<1>1. SubSeq(s, 1, 0) = <<>> /\ SubSeq(s, 1, Len(s)) = s
  BY SubSeqEmpty, SubSeqFull
<1>2. FlattenSeq(<<>>) = <<>>
  <2>1. Len(<<>>) = 0
    BY EmptySeq
  <2> QED BY <2>1 DEF FlattenSeq
<1> QED BY <1>1, <1>2 DEF Flat

\* One piece more is put behind the ones before.
LEMMA FlatNext ==
    ASSUME NEW S, NEW s \in Seq(Seq(S)), NEW n \in 1..Len(s)
    PROVE  Flat(s, n) = Flat(s, n - 1) \o s[n]
<1>1. Len(s) \in Nat /\ n \in Nat /\ n \in 0..Len(s) /\ n - 1 \in 0..Len(s) /\ s[n] \in Seq(S)
  BY LenProperties, ElementOfSeq
<1> DEFINE u == SubSeq(s, 1, n)
           t == SubSeq(s, 1, n - 1)
<1>2. Len(u) = n /\ \A k \in 1..n : u[k] = s[k]
  BY <1>1, Prefix
<1>3. Len(t) = n - 1 /\ \A k \in 1..n - 1 : t[k] = s[k]
  BY <1>1, Prefix
<1>4. CASE n = 1
  <2> HIDE DEF u, t
  <2>1. FlattenSeq(u) = u[1] /\ u[1] = s[1]
    BY <1>2, <1>4, FlattenOne
  <2>2. Flat(s, n) = s[1]
    BY <2>1 DEF Flat, u
  <2>3. Flat(s, 0) = <<>>
    BY FlatEnds
  <2>4. <<>> \o s[1] = s[1]
    BY <1>1, <1>4, ConcatEmptySeq
  <2>5. n - 1 = 0
    BY <1>4
  <2> QED BY <1>4, <2>2, <2>3, <2>4, <2>5
<1>5. CASE n # 1
  <2> HIDE DEF u, t
  <2>1. PICK m : m \in Nat /\ m = n - 1 /\ m # 0 /\ n = m + 1
    BY <1>1, <1>5
  <2>2. \A k \in 1..m : u[k] = t[k]
    <3> SUFFICES ASSUME NEW k \in 1..m PROVE u[k] = t[k]
      OBVIOUS
    <3>1. k \in 1..n /\ k \in 1..n - 1
      BY <1>1, <2>1
    <3> QED BY <1>2, <1>3, <3>1
  <2>3. FlattenSeq(u) = FlattenSeq(t) \o u[m + 1]
    <3>1. m \in Nat /\ m # 0 /\ Len(t) = m /\ Len(u) = m + 1
      BY <1>2, <1>3, <2>1
    <3> QED BY <2>2, <3>1, FlattenOneMore
  <2>4. u[m + 1] = s[n]
    BY <1>1, <1>2, <2>1
  <2> QED BY <2>1, <2>3, <2>4 DEF Flat, u, t
<1> QED BY <1>4, <1>5

\* Flattening sequences gives a sequence.
LEMMA FlatTyped ==
    ASSUME NEW S, NEW s \in Seq(Seq(S)), NEW n \in 0..Len(s)
    PROVE  Flat(s, n) \in Seq(S)
<1> DEFINE bad == {m \in 0..Len(s) : Flat(s, m) \notin Seq(S)}
<1>1. Len(s) \in Nat
  BY LenProperties
<1>2. CASE bad = {}
  BY <1>2
<1>3. CASE bad # {}
  <2>1. PICK c \in bad : \A d \in bad : c <= d
    <3>1. bad \in SUBSET Nat
      BY <1>1
    <3> HIDE DEF bad
    <3> QED BY <1>3, <3>1, LeastExists
  <2>2. c # 0
    <3>1. Flat(s, 0) \in Seq(S)
      <4>1. Flat(s, 0) = <<>>
        BY FlatEnds
      <4> QED BY <4>1, EmptySeq
    <3> QED BY <3>1
  <2>3. c \in 1..Len(s) /\ c - 1 \in 0..Len(s) /\ ~ (c <= c - 1)
    BY <1>1, <2>2
  <2>4. Flat(s, c - 1) \in Seq(S) /\ s[c] \in Seq(S)
    BY <2>1, <2>3, ElementOfSeq
  <2>5. Flat(s, c) \in Seq(S)
    <3>1. Flat(s, c - 1) \o s[c] \in Seq(S)
      BY <2>4, ConcatProperties
    <3> QED BY <2>3, <3>1, FlatNext
  <2> QED BY <2>5
<1> QED BY <1>2, <1>3

\* Two texts, one behind the other.
LEMMA Behind ==
    ASSUME NEW S, NEW f \in Seq(S), NEW e \in Seq(S)
    PROVE  /\ f \o e \in Seq(S) /\ Len(f) \in Nat /\ Len(e) \in Nat
           /\ Len(f \o e) = Len(f) + Len(e)
           /\ \A k \in 1..Len(f) : (f \o e)[k] = f[k]
           /\ \A k \in 1..Len(e) : (f \o e)[Len(f) + k] = e[k]
<1>1. Len(f) \in Nat /\ Len(e) \in Nat
  BY LenProperties
<1>2. /\ f \o e \in Seq(S) /\ Len(f \o e) = Len(f) + Len(e)
      /\ \A k \in 1..Len(f) + Len(e) :
           (f \o e)[k] = IF k <= Len(f) THEN f[k] ELSE e[k - Len(f)]
  BY ConcatProperties
<1>3. ASSUME NEW k \in 1..Len(f)
      PROVE  (f \o e)[k] = f[k]
  <2>1. k \in 1..Len(f) + Len(e) /\ k <= Len(f)
    BY <1>1
  <2> QED BY <1>2, <2>1
<1>4. ASSUME NEW k \in 1..Len(e)
      PROVE  (f \o e)[Len(f) + k] = e[k]
  <2>1. PICK j : j = Len(f) + k
    OBVIOUS
  <2>2. j \in 1..Len(f) + Len(e) /\ ~ (j <= Len(f)) /\ j - Len(f) = k
    BY <1>1, <2>1
  <2>3. (f \o e)[j] = e[k]
    BY <1>2, <2>2
  <2> QED BY <2>1, <2>3
<1> QED BY <1>1, <1>2, <1>3, <1>4

\* Each piece stands behind the ones before it, and stays there.
LEMMA FlatIndex ==
    ASSUME NEW S, NEW s \in Seq(Seq(S)), NEW w \in 1..Len(s)
    PROVE  /\ Len(Flat(s, w - 1)) \in Nat /\ Len(s[w]) \in Nat
           /\ Len(Flat(s, w)) = Len(Flat(s, w - 1)) + Len(s[w])
           /\ Len(Flat(s, w)) <= Len(FlattenSeq(s))
           /\ \A k \in 1..Len(s[w]) : FlattenSeq(s)[Len(Flat(s, w - 1)) + k] = s[w][k]
<1> DEFINE before == Len(Flat(s, w - 1))
           kept(n) == /\ before + Len(s[w]) <= Len(Flat(s, n))
                      /\ \A k \in 1..Len(s[w]) : Flat(s, n)[before + k] = s[w][k]
           lost == {n \in w..Len(s) : ~ kept(n)}
<1>1. Len(s) \in Nat /\ w \in Nat /\ w \in 0..Len(s) /\ w - 1 \in 0..Len(s)
  <2>1. Len(s) \in Nat
    BY LenProperties
  <2> QED BY <2>1
<1>2. \A n \in 0..Len(s) : Flat(s, n) \in Seq(S) /\ Len(Flat(s, n)) \in Nat
  BY FlatTyped, LenProperties
<1>3. s[w] \in Seq(S) /\ Len(s[w]) \in Nat /\ before \in Nat
  BY <1>1, <1>2, ElementOfSeq, LenProperties
<1>4. Len(Flat(s, w)) = before + Len(s[w]) /\ kept(w)
  <2>1. PICK f \in Seq(S) : f = Flat(s, w - 1)
    BY <1>1, <1>2
  <2>2. Flat(s, w) = f \o s[w] /\ before = Len(f)
    BY <2>1, FlatNext
  <2> HIDE DEF before
  <2>3. /\ Len(f \o s[w]) = Len(f) + Len(s[w])
        /\ \A k \in 1..Len(s[w]) : (f \o s[w])[Len(f) + k] = s[w][k]
    BY <1>3, Behind
  <2>4. Len(Flat(s, w)) = before + Len(s[w])
    BY <2>2, <2>3
  <2>5. \A k \in 1..Len(s[w]) : Flat(s, w)[before + k] = s[w][k]
    BY <2>2, <2>3
  <2>6. before + Len(s[w]) <= Len(Flat(s, w))
    BY <1>3, <2>4
  <2> QED BY <2>4, <2>5, <2>6
<1> HIDE DEF before
<1>6. ASSUME NEW c \in w + 1..Len(s), kept(c - 1)
      PROVE  kept(c)
  <2>1. c \in 1..Len(s) /\ c - 1 \in 0..Len(s)
    BY <1>1
  <2>2. PICK f : f = Flat(s, c - 1)
    OBVIOUS
  <2>3. f \in Seq(S) /\ Len(f) \in Nat /\ before + Len(s[w]) <= Len(f) /\ s[c] \in Seq(S)
    BY <1>2, <1>6, <2>1, <2>2, ElementOfSeq
  <2>4. Flat(s, c) = f \o s[c]
    BY <2>1, <2>2, FlatNext
  <2>5. /\ Len(s[c]) \in Nat /\ Len(f \o s[c]) = Len(f) + Len(s[c])
        /\ \A k \in 1..Len(f) : (f \o s[c])[k] = f[k]
    BY <2>3, Behind
  <2>6. ASSUME NEW k \in 1..Len(s[w])
        PROVE  Flat(s, c)[before + k] = s[w][k]
    <3>1. before + k \in 1..Len(f)
      BY <1>3, <2>3
    <3>2. Flat(s, c)[before + k] = f[before + k]
      BY <2>4, <2>5, <3>1
    <3> QED BY <1>6, <2>2, <3>2
  <2>7. before + Len(s[w]) <= Len(Flat(s, c))
    BY <1>3, <2>3, <2>4, <2>5
  <2> QED BY <2>6, <2>7
<1>7. lost = {}
  <2> SUFFICES ASSUME lost # {} PROVE FALSE
    OBVIOUS
  <2> HIDE DEF kept
  <2>1. lost \in SUBSET Nat
    BY <1>1
  <2>2. PICK c \in lost : \A d \in lost : c <= d
    <3> HIDE DEF lost
    <3> QED BY <2>1, LeastExists
  <2>3. c # w
    BY <1>4
  <2>4. c \in w + 1..Len(s) /\ c - 1 \in w..Len(s) /\ ~ (c <= c - 1)
    BY <1>1, <2>3
  <2>5. kept(c - 1)
    BY <2>2, <2>4
  <2> QED BY <1>6, <2>4, <2>5
<1>8. kept(Len(s))
  <2>1. Len(s) \in w..Len(s)
    BY <1>1
  <2> HIDE DEF kept
  <2> QED BY <1>7, <2>1
<1>9. Flat(s, Len(s)) = FlattenSeq(s)
  BY FlatEnds
<1> QED BY <1>3, <1>4, <1>8, <1>9 DEF before

-----------------------------------------------------------------------------
(***************************************************************************)
(* expand_env                                                              *)
(***************************************************************************)

\* A closing brace behind an opening one is the first.
LEMMA ClosingIsFirst ==
    ASSUME NEW s \in Seq(STRING), NEW k \in 1..Len(s), ClosingAfter(s, k) # 0
    PROVE  /\ ClosingAfter(s, k) \in k + 2..Len(s) /\ s[ClosingAfter(s, k)] = Close
           /\ s[k] = Dollar /\ s[k + 1] = Open
           /\ \A l \in k + 2..Len(s) : s[l] = Close => ClosingAfter(s, k) <= l
<1> DEFINE closing == {j \in k + 2..Len(s) : s[j] = Close}
           none == k + 1 > Len(s) \/ s[k] # Dollar \/ s[k + 1] # Open \/ closing = {}
<1>0. Len(s) \in Nat /\ k \in Nat
  <2>1. Len(s) \in Nat
    BY LenProperties
  <2> QED BY <2>1
<1>1. /\ s[k] = Dollar /\ s[k + 1] = Open /\ closing # {}
      /\ ClosingAfter(s, k) = CHOOSE j \in closing : \A l \in closing : j <= l
  <2>1. ClosingAfter(s, k) =
            IF none THEN 0 ELSE CHOOSE j \in closing : \A l \in closing : j <= l
    BY DEF ClosingAfter
  <2>2. CASE none
    <3> HIDE DEF none
    <3>1. ClosingAfter(s, k) = 0
      BY <2>1, <2>2
    <3> QED BY <3>1
  <2>3. CASE ~ none
    BY <2>1, <2>3
  <2> QED BY <2>2, <2>3
<1>2. closing \in SUBSET Nat
  BY <1>0
<1>3. ClosingAfter(s, k) \in closing /\ \A l \in closing : ClosingAfter(s, k) <= l
  <2> HIDE DEF closing
  <2>1. \E j \in closing : \A l \in closing : j <= l
    BY <1>1, <1>2, LeastExists
  <2> QED BY <1>1, <2>1
<1> QED BY <1>1, <1>3

\* Where there is a closing brace, one is found.
LEMMA ClosingIsFound ==
    ASSUME NEW s \in Seq(STRING), NEW k \in 1..Len(s), NEW j \in k + 2..Len(s),
           s[k] = Dollar, s[k + 1] = Open, s[j] = Close
    PROVE  ClosingAfter(s, k) # 0
<1> DEFINE closing == {l \in k + 2..Len(s) : s[l] = Close}
<1>0. Len(s) \in Nat /\ k \in Nat
  <2>1. Len(s) \in Nat
    BY LenProperties
  <2> QED BY <2>1
<1>1. closing \in SUBSET Nat /\ closing # {} /\ ~ (k + 1 > Len(s))
  <2>1. j \in closing
    OBVIOUS
  <2>2. closing \in SUBSET Nat
    BY <1>0
  <2>3. ~ (k + 1 > Len(s))
    BY <1>0
  <2> QED BY <2>1, <2>2, <2>3
<1>2. ClosingAfter(s, k) = CHOOSE l \in closing : \A m \in closing : l <= m
  BY <1>1 DEF ClosingAfter
<1>3. ClosingAfter(s, k) \in closing
  <2> HIDE DEF closing
  <2> QED BY <1>1, <1>2, LeastExists
<1> QED BY <1>0, <1>3

\* What opens and closes a reference stands in no name.
LEMMA Characters ==
    /\ \A c \in Letters \cup Digits : c \notin {Dollar, Open, Close}
    /\ Dollar # Open /\ Dollar # Close
BY DEF Letters, Digits, Dollar, Open, Close

\* The characters of a shell identifier are no braces and no dollar.
LEMMA NamesArePlain ==
    ASSUME NEW k \in 1..Len(text), NEW c \in k + 2..Len(text), text \in Seq(STRING),
           IsShellIdent(SubSeq(text, k + 2, c - 1))
    PROVE  /\ k + 2 < c
           /\ \A j \in k + 2..c - 1 : text[j] \notin {Dollar, Open, Close}
<1> DEFINE name == SubSeq(text, k + 2, c - 1)
<1>1. Len(text) \in Nat /\ \A j \in k + 2..c - 1 : text[j] \in STRING
  BY LenProperties
<1>2. /\ name \in Seq(STRING)
      /\ Len(name) = IF k + 2 <= c - 1 THEN c - 1 - (k + 2) + 1 ELSE 0
      /\ \A j \in 1..c - 1 - (k + 2) + 1 : name[j] = text[k + 2 + j - 1]
  <2>1. k + 2 \in Int /\ c - 1 \in Int
    BY <1>1
  <2> HIDE DEF name
  <2> QED BY <1>1, <2>1, SubSeqProperties DEF name
<1>3. IsShellIdent(name)
  OBVIOUS
<1> HIDE DEF name
<1>4. k + 2 < c
  <2>1. name # <<>>
    BY <1>3 DEF IsShellIdent
  <2>2. Len(name) # 0
    BY <1>2, <2>1, EmptySeq
  <2> QED BY <1>1, <1>2, <2>2
<1>5. ASSUME NEW j \in k + 2..c - 1
      PROVE  text[j] \notin {Dollar, Open, Close}
  <2>1. j - (k + 1) \in 1..Len(name) /\ k + 2 + (j - (k + 1)) - 1 = j
    BY <1>1, <1>2, <1>4
  <2>2. name[j - (k + 1)] = text[j]
    BY <1>1, <1>2, <1>4, <2>1
  <2>3. j - (k + 1) \in DOMAIN name
    BY <1>2, <2>1, LenProperties
  <2>4. name[j - (k + 1)] \in Letters \cup Digits
    BY <1>3, <2>3 DEF IsShellIdent
  <2> QED BY <2>2, <2>4, Characters
<1> QED BY <1>4, <1>5

\* The loop finds every reference of the template at its dollar, with its end.
LEMMA ReferenceIsFound ==
    ASSUME text \in Seq(STRING), NEW r \in References
    PROVE  /\ Refers(r[1]) /\ ClosingAfter(text, r[1]) = r[2]
           /\ r[1] \in 1..Len(text) /\ r[2] \in 1..Len(text)
<1> DEFINE c == ClosingAfter(text, r[1])
<1>1. Len(text) \in Nat /\ DOMAIN text = 1..Len(text)
  BY LenProperties
<1>2. /\ r[1] \in 1..Len(text) /\ r[2] \in 1..Len(text) /\ r[1] + 2 < r[2]
      /\ text[r[1]] = Dollar /\ text[r[1] + 1] = Open /\ text[r[2]] = Close
      /\ IsShellIdent(SubSeq(text, r[1] + 2, r[2] - 1))
  BY <1>1 DEF References
<1>3. r[2] \in r[1] + 2..Len(text)
  BY <1>1, <1>2
<1>4. c # 0
  BY <1>2, <1>3, ClosingIsFound
<1>5. /\ c \in r[1] + 2..Len(text) /\ text[c] = Close
      /\ \A l \in r[1] + 2..Len(text) : text[l] = Close => c <= l
  BY <1>2, <1>4, ClosingIsFirst
<1>6. c <= r[2]
  BY <1>2, <1>3, <1>5
<1>7. \A j \in r[1] + 2..r[2] - 1 : text[j] \notin {Dollar, Open, Close}
  BY <1>2, <1>3, NamesArePlain
<1>8. c \notin r[1] + 2..r[2] - 1
  BY <1>5, <1>7
<1>9. c = r[2]
  <2> HIDE DEF c
  <2> QED BY <1>1, <1>2, <1>5, <1>6, <1>8
<1>10. Refers(r[1])
  <2>1. IsShellIdent(NameAt(r[1]))
    BY <1>2, <1>9 DEF NameAt
  <2> QED BY <1>4, <2>1 DEF Refers
<1> QED BY <1>2, <1>9, <1>10

\* What the loop takes for a reference is one.
LEMMA FoundIsReference ==
    ASSUME text \in Seq(STRING), NEW k \in 1..Len(text), Refers(k)
    PROVE  <<k, ClosingAfter(text, k)>> \in References
<1> DEFINE c == ClosingAfter(text, k)
<1>1. Len(text) \in Nat /\ DOMAIN text = 1..Len(text)
  BY LenProperties
<1>2. /\ c \in k + 2..Len(text) /\ text[c] = Close
      /\ text[k] = Dollar /\ text[k + 1] = Open
  BY ClosingIsFirst DEF Refers
<1>3. IsShellIdent(SubSeq(text, k + 2, c - 1))
  BY DEF Refers, NameAt
<1> HIDE DEF c
<1>4. k + 2 < c /\ c \in 1..Len(text)
  <2>1. k + 2 < c
    BY <1>2, <1>3, NamesArePlain
  <2> QED BY <1>1, <1>2, <2>1
<1>5. <<k, c>> \in References
  BY <1>1, <1>2, <1>3, <1>4 DEF References
<1> QED BY <1>5 DEF c

\* No reference begins inside another.
LEMMA NoneInside ==
    ASSUME text \in Seq(STRING), NEW k \in 1..Len(text), Refers(k), NEW r \in References,
           k < r[1]
    PROVE  ClosingAfter(text, k) < r[1]
<1> DEFINE c == ClosingAfter(text, k)
<1>1. Len(text) \in Nat /\ DOMAIN text = 1..Len(text)
  BY LenProperties
<1>2. c \in k + 2..Len(text) /\ text[c] = Close /\ text[k + 1] = Open
  BY ClosingIsFirst DEF Refers
<1>3. IsShellIdent(SubSeq(text, k + 2, c - 1))
  BY DEF Refers, NameAt
<1> HIDE DEF c
<1>4. \A j \in k + 2..c - 1 : text[j] \notin {Dollar, Open, Close}
  BY <1>2, <1>3, NamesArePlain
<1>5. r[1] \in 1..Len(text) /\ text[r[1]] = Dollar
  BY <1>1 DEF References
<1>6. r[1] # k + 1 /\ r[1] # c /\ r[1] \notin k + 2..c - 1
  BY <1>2, <1>4, <1>5, Characters
<1>7. c < r[1]
  BY <1>1, <1>2, <1>5, <1>6
<1> QED BY <1>7 DEF c

\* Every position of the template stands for a text.
LEMMA ExpansionsTyped ==
    ASSUME text \in Seq(STRING)
    PROVE  /\ Expansions \in Seq(Seq(STRING)) /\ Len(Expansions) = Len(text)
           /\ \A k \in 1..Len(text) : Expansions[k] = Expansion(k)
<1>1. Len(text) \in Nat /\ DOMAIN text = 1..Len(text)
  BY LenProperties
<1>2. \A name : ValueOf(name) \in Seq(STRING)
  BY InputAssumption, EmptySeq DEF ValueOf
<1>3. ASSUME NEW k \in 1..Len(text)
      PROVE  Expansion(k) \in Seq(STRING)
  <2>1. text[k] \in STRING
    BY ElementOfSeq
  <2>2. <<text[k]>> \in Seq(STRING)
    BY <2>1
  <2>3. <<>> \in Seq(STRING)
    BY EmptySeq
  <2> QED BY <1>2, <2>2, <2>3 DEF Expansion
<1>4. Expansions = [k \in 1..Len(text) |-> Expansion(k)]
  BY <1>1 DEF Expansions
<1>5. Expansions \in [1..Len(text) -> Seq(STRING)]
  BY <1>3, <1>4
<1> QED BY <1>1, <1>4, <1>5

\* A reference stands for its value, and what is inside of it for nothing.
LEMMA ReferenceExpands ==
    ASSUME text \in Seq(STRING), NEW k \in 1..Len(text), Refers(k)
    PROVE  /\ Expansion(k) = ValueOf(NameAt(k))
           /\ \A j \in k + 1..ClosingAfter(text, k) : Expansion(j) = <<>>
<1> DEFINE c == ClosingAfter(text, k)
<1>1. <<k, c>> \in References
  BY FoundIsReference
<1>2. Expansion(k) = ValueOf(NameAt(k))
  <2> DEFINE r == CHOOSE r \in References : r[1] = k
  <2>1. \E q \in References : q[1] = k
    BY <1>1
  <2>2. r \in References /\ r[1] = k
    BY <2>1
  <2>3. r[2] = c
    BY <2>2, ReferenceIsFound
  <2>4. Expansion(k) = ValueOf(SubSeq(text, r[1] + 2, r[2] - 1))
    BY <2>1 DEF Expansion
  <2> QED BY <2>2, <2>3, <2>4 DEF NameAt
<1>3. ASSUME NEW j \in k + 1..c
      PROVE  Expansion(j) = <<>>
  <2>1. c \in Nat /\ Len(text) \in Nat
    BY ClosingIsFirst, LenProperties DEF Refers
  <2>2. k < j /\ j <= c
    BY <2>1
  <2>3. ASSUME NEW r \in References, r[1] = j
        PROVE  FALSE
    <3>1. c < r[1]
      BY <2>2, <2>3, NoneInside
    <3> QED BY <2>1, <2>2, <2>3, <3>1
  <2>4. \E r \in References : r[1] < j /\ j <= r[2]
    <3>1. <<k, c>>[1] < j /\ j <= <<k, c>>[2]
      BY <2>2
    <3> HIDE DEF c
    <3> QED BY <1>1, <3>1
  <2> HIDE DEF c
  <2> QED BY <2>3, <2>4 DEF Expansion
<1> QED BY <1>2, <1>3

\* Where the loop copies, the position stands for itself.
LEMMA CopyExpands ==
    ASSUME text \in Seq(STRING), NEW k \in 1..Len(text), ~ Refers(k),
           \A r \in References : ~ (r[1] < k /\ k <= r[2])
    PROVE  Expansion(k) = <<text[k]>>
<1>1. \A r \in References : r[1] # k
  BY ReferenceIsFound
<1> QED BY <1>1 DEF Expansion

\* Pieces that give nothing add nothing.
LEMMA FlatSkips ==
    ASSUME NEW S, NEW s \in Seq(Seq(S)), NEW m \in 0..Len(s), NEW n \in m..Len(s),
           \A j \in m + 1..n : s[j] = <<>>
    PROVE  Flat(s, n) = Flat(s, m)
<1> DEFINE differ == {j \in m..n : Flat(s, j) # Flat(s, m)}
<1>1. Len(s) \in Nat /\ m \in Nat /\ n \in Nat
  <2>1. Len(s) \in Nat
    BY LenProperties
  <2> QED BY <2>1
<1>2. CASE differ = {}
  <2>1. n \in m..n
    BY <1>1
  <2> QED BY <1>2, <2>1
<1>3. CASE differ # {}
  <2>1. PICK c \in differ : \A d \in differ : c <= d
    <3>1. differ \in SUBSET Nat
      BY <1>1
    <3> HIDE DEF differ
    <3> QED BY <1>3, <3>1, LeastExists
  <2>2. c # m
    OBVIOUS
  <2>3. c \in m + 1..n /\ c - 1 \in m..n /\ c \in 1..Len(s) /\ c - 1 \in 0..Len(s) /\ ~ (c <= c - 1)
    BY <1>1, <2>2
  <2>4. Flat(s, c - 1) = Flat(s, m)
    BY <2>1, <2>3
  <2>5. Flat(s, c) = Flat(s, c - 1) \o <<>>
    BY <2>3, FlatNext
  <2>6. Flat(s, c - 1) \o <<>> = Flat(s, c - 1)
    BY <2>3, FlatTyped, ConcatEmptySeq
  <2> QED BY <2>4, <2>5, <2>6
<1> QED BY <1>2, <1>3

\* A template is expanded up to the loop's position, which is in no reference.
Expanding ==
    task = "expand" =>
        /\ text \in Seq(STRING) /\ i \in 1..Len(text) + 1
        /\ \A r \in References : ~ (r[1] < i /\ i <= r[2])
        /\ out = Flat(Expansions, i - 1)

\* Nothing is expanded at first.
LEMMA InitExpanding == Init => Expanding
<1> SUFFICES ASSUME Init, task = "expand"
             PROVE  Expanding
  BY DEF Expanding
<1>1. text \in Seq(STRING) /\ i = 1 /\ out = <<>>
  BY InputAssumption DEF Init
<1>2. Len(text) \in Nat
  BY <1>1, LenProperties
<1>3. \A r \in References : r[1] \in 1..Len(text)
  BY <1>1, ReferenceIsFound
<1>4. out = Flat(Expansions, 0)
  BY <1>1, ExpansionsTyped, FlatEnds
<1> QED BY <1>1, <1>2, <1>3, <1>4 DEF Expanding

\* What the template stands for does not depend on the loop.
LEMMA SameTemplate ==
    ASSUME UNCHANGED text
    PROVE  References' = References /\ Expansions' = Expansions
<1>1. References' = References
  BY DEF References
<1>2. \A k : Expansion(k)' = Expansion(k)
  BY <1>1 DEF Expansion
<1>3. Expansions' = [k \in DOMAIN text |-> Expansion(k)']
  BY DEF Expansions
<1> QED BY <1>1, <1>2, <1>3 DEF Expansions

\* A reference is passed whole, for its value.
LEMMA SubstituteExpands ==
    ASSUME Expanding, Substitute
    PROVE  Expanding'
<1> DEFINE c == ClosingAfter(text, i)
<1>1. /\ text \in Seq(STRING) /\ i \in 1..Len(text) + 1 /\ i <= Len(text) /\ Refers(i)
      /\ \A r \in References : ~ (r[1] < i /\ i <= r[2])
      /\ out = Flat(Expansions, i - 1)
  BY DEF Expanding, Substitute
<1>2. /\ out' = out \o ValueOf(NameAt(i)) /\ i' = c + 1 /\ UNCHANGED text
      /\ References' = References /\ Expansions' = Expansions
  BY SameTemplate DEF Substitute
<1>3. Len(text) \in Nat /\ i \in 1..Len(text)
  <2>1. Len(text) \in Nat
    BY <1>1, LenProperties
  <2> QED BY <1>1, <2>1
<1>4. c \in i + 2..Len(text)
  BY <1>1, <1>3, ClosingIsFirst DEF Refers
<1>5. i' \in 1..Len(text) + 1
  <2> HIDE DEF c
  <2> QED BY <1>2, <1>3, <1>4
<1>6. ASSUME NEW r \in References, r[1] < c + 1, c + 1 <= r[2]
      PROVE  FALSE
  <2>1. r[1] \in 1..Len(text) /\ r[2] \in 1..Len(text) /\ r[2] = ClosingAfter(text, r[1])
    BY <1>1, ReferenceIsFound
  <2>2. r[1] # i
    <3>1. r[1] = i => r[2] = c
      BY <2>1
    <3> HIDE DEF c
    <3> QED BY <1>3, <1>4, <1>6, <2>1, <3>1
  <2>3. ~ (r[1] < i)
    <3>1. i <= r[2]
      <4> HIDE DEF c
      <4> QED BY <1>3, <1>4, <1>6, <2>1
    <3> QED BY <1>1, <3>1
  <2>4. c < r[1]
    <3>1. i < r[1]
      BY <1>3, <2>1, <2>2, <2>3
    <3> QED BY <1>1, <1>3, <3>1, NoneInside
  <2> HIDE DEF c
  <2> QED BY <1>3, <1>4, <1>6, <2>1, <2>4
<1>7. Flat(Expansions, c) = out \o ValueOf(NameAt(i))
  <2>1. /\ Expansions \in Seq(Seq(STRING)) /\ Len(Expansions) = Len(text)
        /\ \A k \in 1..Len(text) : Expansions[k] = Expansion(k)
    BY <1>1, ExpansionsTyped
  <2>2. /\ Expansion(i) = ValueOf(NameAt(i))
        /\ \A j \in i + 1..c : Expansion(j) = <<>>
    BY <1>1, <1>3, ReferenceExpands
  <2>3. Flat(Expansions, i) = Flat(Expansions, i - 1) \o ValueOf(NameAt(i))
    <3>1. i \in 1..Len(Expansions) /\ Expansions[i] = ValueOf(NameAt(i))
      BY <1>3, <2>1, <2>2
    <3> QED BY <2>1, <3>1, FlatNext
  <2> HIDE DEF c
  <2>4. /\ i \in 0..Len(Expansions) /\ c \in i..Len(Expansions)
        /\ \A j \in i + 1..c : Expansions[j] = <<>>
    <3>1. i \in 0..Len(text) /\ c \in i..Len(text) /\ \A j \in i + 1..c : j \in 1..Len(text)
      BY <1>3, <1>4
    <3> QED BY <2>1, <2>2, <3>1
  <2>5. Flat(Expansions, c) = Flat(Expansions, i)
    BY <2>1, <2>4, FlatSkips
  <2> QED BY <1>1, <2>3, <2>5
<1> HIDE DEF c
<1>8. out' = Flat(Expansions', i' - 1)
  <2>1. i' - 1 = c
    BY <1>2, <1>3, <1>4
  <2> QED BY <1>2, <1>7, <2>1
<1>9. (\A r \in References : ~ (r[1] < i /\ i <= r[2]))'
  BY <1>2, <1>6
<1> QED BY <1>1, <1>2, <1>5, <1>8, <1>9 DEF Expanding

\* Any other character is copied.
LEMMA CopyExpanding ==
    ASSUME Expanding, Copy
    PROVE  Expanding'
<1>1. /\ text \in Seq(STRING) /\ i \in 1..Len(text) + 1 /\ i <= Len(text) /\ ~ Refers(i)
      /\ \A r \in References : ~ (r[1] < i /\ i <= r[2])
      /\ out = Flat(Expansions, i - 1)
  BY DEF Expanding, Copy
<1>2. /\ out' = Append(out, text[i]) /\ i' = i + 1 /\ UNCHANGED text
      /\ References' = References /\ Expansions' = Expansions
  BY SameTemplate DEF Copy
<1>3. Len(text) \in Nat /\ i \in 1..Len(text) /\ i' \in 1..Len(text) + 1
  <2>1. Len(text) \in Nat
    BY <1>1, LenProperties
  <2> QED BY <1>1, <1>2, <2>1
<1>4. ASSUME NEW r \in References, r[1] < i + 1, i + 1 <= r[2]
      PROVE  FALSE
  <2>1. r[1] \in 1..Len(text) /\ r[2] \in 1..Len(text) /\ r[1] # i
    BY <1>1, ReferenceIsFound
  <2>2. ~ (r[1] < i /\ i <= r[2])
    BY <1>1
  <2> QED BY <1>3, <1>4, <2>1, <2>2
<1>5. Flat(Expansions, i) = out \o <<text[i]>>
  <2>1. /\ Expansions \in Seq(Seq(STRING)) /\ Len(Expansions) = Len(text)
        /\ \A k \in 1..Len(text) : Expansions[k] = Expansion(k)
    BY <1>1, ExpansionsTyped
  <2>2. Expansions[i] = <<text[i]>>
    BY <1>1, <1>3, <2>1, CopyExpands
  <2>3. i \in 1..Len(Expansions)
    BY <1>3, <2>1
  <2> QED BY <1>1, <2>1, <2>2, <2>3, FlatNext
<1>6. Append(out, text[i]) = out \o <<text[i]>>
  <2>1. Expansions \in Seq(Seq(STRING)) /\ i - 1 \in 0..Len(Expansions)
    BY <1>1, <1>3, ExpansionsTyped
  <2>2. out \in Seq(STRING)
    BY <1>1, <2>1, FlatTyped
  <2>3. text[i] \in STRING
    BY <1>1, <1>3, ElementOfSeq
  <2> QED BY <2>2, <2>3, AppendIsConcat
<1>7. out' = Flat(Expansions', i' - 1)
  <2>1. i' - 1 = i
    BY <1>2, <1>3
  <2> QED BY <1>2, <1>5, <1>6, <2>1
<1>8. (\A r \in References : ~ (r[1] < i /\ i <= r[2]))'
  BY <1>2, <1>4
<1> QED BY <1>1, <1>2, <1>3, <1>7, <1>8 DEF Expanding

\* At every step a template is expanded up to the loop's position.
THEOREM ExpandsUpToPosition == Spec => []Expanding
<1>1. Expanding /\ [Next]_vars => Expanding'
  <2> SUFFICES ASSUME Expanding, [Next]_vars
               PROVE  Expanding'
    OBVIOUS
  <2>1. CASE Substitute
    BY <2>1, SubstituteExpands
  <2>2. CASE Copy
    BY <2>2, CopyExpanding
  <2>3. CASE Rune
    BY <2>3 DEF Rune, Expanding
  <2>4. CASE UNCHANGED vars
    <3>1. UNCHANGED <<task, text, i, out>>
      BY <2>4 DEF vars
    <3>2. References' = References /\ Expansions' = Expansions
      BY <3>1, SameTemplate
    <3> QED BY <3>1, <3>2 DEF Expanding, Flat
  <2> QED BY <2>1, <2>2, <2>3, <2>4 DEF Next
<1> QED BY <1>1, InitExpanding, PTL DEF Spec

\* expand_env replaces every reference of every template by its value, once, and
\* nothing else, in every environment.
THEOREM ExpandsOnce == Spec => []ExpandsAtOnce
<1>1. Expanding => ExpandsAtOnce
  <2> SUFFICES ASSUME Expanding, task = "expand", Done
               PROVE  out = FlattenSeq(Expansions)
    BY DEF ExpandsAtOnce
  <2>1. /\ text \in Seq(STRING) /\ i \in 1..Len(text) + 1 /\ i > Len(text)
        /\ out = Flat(Expansions, i - 1)
    BY DEF Expanding, Done
  <2>2. Len(text) \in Nat
    BY <2>1, LenProperties
  <2>3. i - 1 = Len(text)
    BY <2>1, <2>2
  <2>4. Expansions \in Seq(Seq(STRING)) /\ Len(Expansions) = Len(text)
    BY <2>1, ExpansionsTyped
  <2> QED BY <2>1, <2>3, <2>4, FlatEnds
<1> QED BY <1>1, ExpandsUpToPosition, PTL

-----------------------------------------------------------------------------
(***************************************************************************)
(* camel_to_snake                                                          *)
(***************************************************************************)

Small   == {"x", "y"}
Capital == {"X", "Y"}
Alphabet == Small \cup Capital \cup Digits \cup {"_"}

\* One character is a text.
LEMMA OneCharacter ==
    ASSUME NEW S, NEW c \in S
    PROVE  <<c>> \in Seq(S) /\ Len(<<c>>) = 1 /\ <<c>>[1] = c
OBVIOUS

\* Two characters are one behind the other.
LEMMA TwoCharacters ==
    ASSUME NEW S, NEW a \in S, NEW b \in S
    PROVE  <<a>> \o <<b>> = <<a, b>> /\ <<>> \o <<a, b>> = <<a, b>>
<1>1. <<a>> \o <<b>> = <<a, b>>
  <2>1. PICK f \in Seq(S) : f = <<a>> /\ Len(f) = 1 /\ f[1] = a
    BY OneCharacter
  <2>2. PICK e \in Seq(S) : e = <<b>> /\ Len(e) = 1 /\ e[1] = b
    BY OneCharacter
  <2>2a. PICK g \in Seq(S) : g = <<a, b>> /\ Len(g) = 2 /\ g[1] = a /\ g[2] = b
    <3>1. <<a, b>> \in Seq(S) /\ Len(<<a, b>>) = 2 /\ <<a, b>>[1] = a /\ <<a, b>>[2] = b
      OBVIOUS
    <3> QED BY <3>1
  <2>3. /\ f \o e \in Seq(S) /\ Len(f \o e) = Len(f) + Len(e)
        /\ \A k \in 1..Len(f) : (f \o e)[k] = f[k]
        /\ \A k \in 1..Len(e) : (f \o e)[Len(f) + k] = e[k]
    BY Behind
  <2>4. Len(f \o e) = 2 /\ (f \o e)[1] = a /\ (f \o e)[2] = b
    BY <2>1, <2>2, <2>3
  <2>5. PICK h \in Seq(S) : h = f \o e
    BY <2>3
  <2>6. Len(h) = Len(g) /\ \A k \in 1..Len(h) : h[k] = g[k]
    BY <2>2a, <2>4, <2>5
  <2>7. h = g
    BY <2>6, SeqEqual
  <2> QED BY <2>1, <2>2, <2>2a, <2>5, <2>7
<1>2. <<a, b>> \in Seq(S)
  OBVIOUS
<1>3. <<>> \o <<a, b>> = <<a, b>>
  BY <1>2, ConcatEmptySeq
<1> QED BY <1>1, <1>3

\* A prefix grows by one character, behind whatever stands before it.
LEMMA PrefixGrows ==
    ASSUME NEW S, NEW a \in Seq(S), NEW s \in Seq(S), NEW k \in 1..Len(s)
    PROVE  (a \o SubSeq(s, 1, k - 1)) \o <<s[k]>> = a \o SubSeq(s, 1, k)
<1>1. Len(s) \in Nat /\ s[k] \in S /\ 1 \in 1..Len(s)
  BY LenProperties, ElementOfSeq
<1>2. SubSeq(s, 1, k) = SubSeq(s, 1, k - 1) \o <<s[k]>>
  BY <1>1, SubSeqRecursiveSecond
<1>3. PICK b \in Seq(S) : b = SubSeq(s, 1, k - 1)
  <2>1. k - 1 \in 0..Len(s)
    BY <1>1
  <2> QED BY <2>1, Prefix
<1>4. PICK c \in Seq(S) : c = <<s[k]>>
  BY <1>1, OneCharacter
<1>5. (a \o b) \o c = a \o (b \o c)
  OBVIOUS
<1> QED BY <1>2, <1>3, <1>4, <1>5

\* A small letter and its capital are each other's, a digit is its own.
LEMMA Cases ==
    /\ \A c \in Small : /\ ToUpper(c) \in Capital /\ ToLower(ToUpper(c)) = c /\ ToLower(c) = c
                        /\ IsLower(c) /\ ~ IsUpper(c) /\ c \notin Digits
    /\ \A c \in Capital : IsUpper(c) /\ ~ IsLower(c) /\ c \notin Digits
    /\ \A c \in Digits : ToUpper(c) = c /\ ToLower(c) = c /\ ~ IsUpper(c) /\ ~ IsLower(c)
<1>1. DOMAIN Upper = {"x", "y"} /\ Upper["x"] = "X" /\ Upper["y"] = "Y"
  BY DEF Upper
<1> DEFINE lower(c) == CHOOSE l \in DOMAIN Upper : Upper[l] = c
<1>2. lower("X") = "x" /\ lower("Y") = "y"
  BY <1>1
<1>3. ToUpper("x") = "X" /\ ToUpper("y") = "Y" /\ ToUpper("0") = "0" /\ ToUpper("1") = "1"
  BY <1>1 DEF ToUpper
<1>4. /\ \A c : IsUpper(c) <=> c \in {"X", "Y"}
      /\ \A c : IsLower(c) <=> c \in {"x", "y"}
  BY DEF IsUpper, IsLower
<1>5. /\ ToLower("X") = "x" /\ ToLower("Y") = "y" /\ ToLower("x") = "x" /\ ToLower("y") = "y"
      /\ ToLower("0") = "0" /\ ToLower("1") = "1"
  BY <1>2, <1>4 DEF ToLower
<1> QED BY <1>3, <1>4, <1>5 DEF Small, Capital, Digits

\* A function over the first n positions is a text of n characters.
LEMMA FunctionIsText ==
    ASSUME NEW S, NEW n \in Nat, NEW f \in [1..n -> S]
    PROVE  f \in Seq(S) /\ Len(f) = n
OBVIOUS

\* What a word is made of.
LEMMA WordShape ==
    ASSUME NEW word \in Word
    PROVE  /\ word.acronym \in BOOLEAN /\ word.letters \in Seq(Alphabet)
           /\ Len(word.letters) \in Nat /\ Len(word.letters) >= 1
           /\ DOMAIN word.letters = 1..Len(word.letters)
           /\ word.letters[1] \in Small
           /\ \A k \in 1..Len(word.letters) : word.letters[k] \in Small \cup Digits
<1>1. /\ word.letters \in Seq({"x", "y", "0", "1"}) /\ word.acronym \in BOOLEAN
      /\ word.letters # <<>> /\ word.letters[1] \in {"x", "y"}
  BY DEF Word
<1>2. Len(word.letters) \in Nat \ {0}
  BY <1>1, EmptySeq
<1>3. /\ DOMAIN word.letters = 1..Len(word.letters)
      /\ \A k \in 1..Len(word.letters) : word.letters[k] \in {"x", "y", "0", "1"}
  BY <1>1, LenProperties, ElementOfSeq
<1>4. word.letters \in Seq(Alphabet)
  <2>1. {"x", "y", "0", "1"} \subseteq Alphabet
    BY DEF Alphabet, Small, Digits
  <2> QED BY <1>1, <2>1, SeqMonotonic
<1> QED BY <1>1, <1>2, <1>3, <1>4 DEF Small, Digits

\* The camel case of a word has its letters, in capitals where a word begins
\* behind another and throughout an acronym.
LEMMA CamelWordsShape ==
    ASSUME NEW phrase \in Seq(Word)
    PROVE  /\ CamelWords(phrase) \in Seq(Seq(Alphabet))
           /\ Len(CamelWords(phrase)) = Len(phrase) /\ Len(phrase) \in Nat
           /\ \A w \in 1..Len(phrase) :
                /\ Len(CamelWords(phrase)[w]) = Len(phrase[w].letters)
                /\ \A k \in 1..Len(phrase[w].letters) :
                     CamelWords(phrase)[w][k] =
                       IF (k = 1 /\ w # 1) \/ phrase[w].acronym
                       THEN ToUpper(phrase[w].letters[k]) ELSE phrase[w].letters[k]
<1>1. Len(phrase) \in Nat /\ DOMAIN phrase = 1..Len(phrase)
  BY LenProperties
<1> DEFINE piece(w) == IF w = 1 /\ ~phrase[w].acronym THEN phrase[w].letters
                       ELSE Capitalised(phrase[w])
<1>2. CamelWords(phrase) = [w \in 1..Len(phrase) |-> piece(w)]
  BY <1>1 DEF CamelWords
<1>3. ASSUME NEW w \in 1..Len(phrase)
      PROVE  /\ piece(w) \in Seq(Alphabet) /\ Len(piece(w)) = Len(phrase[w].letters)
             /\ \A k \in 1..Len(phrase[w].letters) :
                  piece(w)[k] = IF (k = 1 /\ w # 1) \/ phrase[w].acronym
                                THEN ToUpper(phrase[w].letters[k]) ELSE phrase[w].letters[k]
  <2>1. phrase[w] \in Word
    BY ElementOfSeq
  <2>2. PICK word \in Word : word = phrase[w]
    BY <2>1
  <2>3. /\ word.acronym \in BOOLEAN /\ word.letters \in Seq(Alphabet)
        /\ Len(word.letters) \in Nat
        /\ DOMAIN word.letters = 1..Len(word.letters)
        /\ \A k \in 1..Len(word.letters) : word.letters[k] \in Small \cup Digits
    BY WordShape
  <2>4. CASE w = 1 /\ ~word.acronym
    BY <2>2, <2>3, <2>4
  <2>5. CASE ~ (w = 1 /\ ~word.acronym)
    <3> DEFINE caps == [k \in 1..Len(word.letters) |->
                          IF k = 1 \/ word.acronym THEN ToUpper(word.letters[k]) ELSE word.letters[k]]
    <3>1. piece(w) = caps
      BY <2>2, <2>3, <2>5 DEF Capitalised
    <3>2. \A k \in 1..Len(word.letters) : caps[k] \in Alphabet
      <4>1. \A c \in Small \cup Digits : c \in Alphabet /\ ToUpper(c) \in Alphabet
        BY Cases DEF Alphabet
      <4> QED BY <2>3, <4>1
    <3>3. caps \in Seq(Alphabet) /\ Len(caps) = Len(word.letters)
      <4>1. caps \in [1..Len(word.letters) -> Alphabet]
        BY <3>2
      <4> HIDE DEF caps
      <4>2. PICK n \in Nat : n = Len(word.letters)
        BY <2>3
      <4>3. caps \in [1..n -> Alphabet]
        BY <4>1, <4>2
      <4> QED BY <4>2, <4>3, FunctionIsText
    <3>4. \A k \in 1..Len(word.letters) :
             caps[k] = IF (k = 1 /\ w # 1) \/ word.acronym
                       THEN ToUpper(word.letters[k]) ELSE word.letters[k]
      BY <2>5
    <3> HIDE DEF caps, piece
    <3> QED BY <2>2, <3>1, <3>3, <3>4
  <2> QED BY <2>2, <2>4, <2>5
<1> HIDE DEF piece
<1>4. CamelWords(phrase) \in [1..Len(phrase) -> Seq(Alphabet)]
  BY <1>2, <1>3
<1> QED BY <1>1, <1>2, <1>3, <1>4

\* The snake case of a word has its letters behind the underscore.
LEMMA SnakeWordsShape ==
    ASSUME input \in Seq(Word)
    PROVE  /\ SnakeWords \in Seq(Seq(Alphabet)) /\ Len(SnakeWords) = Len(input)
           /\ \A w \in 1..Len(input) :
                SnakeWords[w] = IF w = 1 THEN input[w].letters ELSE <<"_">> \o input[w].letters
<1>1. Len(input) \in Nat /\ DOMAIN input = 1..Len(input)
  BY LenProperties
<1> DEFINE piece(w) == IF w = 1 THEN input[w].letters ELSE <<"_">> \o input[w].letters
<1>2. SnakeWords = [w \in 1..Len(input) |-> piece(w)]
  BY <1>1 DEF SnakeWords
<1>3. ASSUME NEW w \in 1..Len(input)
      PROVE  piece(w) \in Seq(Alphabet)
  <2>1. input[w].letters \in Seq(Alphabet)
    BY ElementOfSeq, WordShape
  <2>2. <<"_">> \in Seq(Alphabet)
    <3>1. PICK c : c = "_"
      OBVIOUS
    <3>2. c \in Alphabet
      BY <3>1 DEF Alphabet
    <3>3. <<c>> \in Seq(Alphabet)
      BY <3>2, OneCharacter
    <3> QED BY <3>1, <3>3
  <2>3. <<"_">> \o input[w].letters \in Seq(Alphabet)
    BY <2>1, <2>2, ConcatProperties
  <2> QED BY <2>1, <2>3
<1>4. \A w \in 1..Len(input) : SnakeWords[w] = piece(w)
  BY <1>2
<1>5. SnakeWords \in [1..Len(input) -> Seq(Alphabet)]
  <2> HIDE DEF piece
  <2> QED BY <1>2, <1>3
<1>6. SnakeWords \in Seq(Seq(Alphabet)) /\ Len(SnakeWords) = Len(input)
  BY <1>1, <1>5
<1> QED BY <1>4, <1>6

Spelling(w) == input[w].letters

\* The k-th letter of the w-th word in camel case, and where it stands.
LetterAt(w, k) ==
    IF (k = 1 /\ w # 1) \/ input[w].acronym THEN ToUpper(Spelling(w)[k]) ELSE Spelling(w)[k]

Place(w, k) == Len(Flat(CamelWords(input), w - 1)) + k

\* The letters of a word stand one behind the other, the words too.
LEMMA PlaceOfLetter ==
    ASSUME input \in Seq(Word), text = Camel(input),
           NEW w \in 1..Len(input), NEW k \in 1..Len(Spelling(w))
    PROVE  /\ Place(w, k) \in 1..Len(text) /\ text[Place(w, k)] = LetterAt(w, k)
           /\ Place(w, k + 1) = Place(w, k) + 1
           /\ k = Len(Spelling(w)) => Place(w + 1, 1) = Place(w, k) + 1
           /\ k = Len(Spelling(w)) /\ w = Len(input) => Place(w, k) = Len(text)
<1>1. PICK C : C = CamelWords(input)
  OBVIOUS
<1>2. /\ C \in Seq(Seq(Alphabet)) /\ Len(C) = Len(input) /\ Len(input) \in Nat
      /\ Len(C[w]) = Len(Spelling(w)) /\ C[w][k] = LetterAt(w, k)
  BY <1>1, CamelWordsShape DEF Spelling, LetterAt
<1>3. /\ Len(Flat(C, w - 1)) \in Nat /\ Len(C[w]) \in Nat
      /\ Len(Flat(C, w)) = Len(Flat(C, w - 1)) + Len(C[w])
      /\ Len(Flat(C, w)) <= Len(FlattenSeq(C))
      /\ FlattenSeq(C)[Len(Flat(C, w - 1)) + k] = C[w][k]
  <2>1. w \in 1..Len(C) /\ k \in 1..Len(C[w])
    BY <1>2
  <2>2. /\ Len(Flat(C, w - 1)) \in Nat /\ Len(C[w]) \in Nat
        /\ Len(Flat(C, w)) = Len(Flat(C, w - 1)) + Len(C[w])
        /\ Len(Flat(C, w)) <= Len(FlattenSeq(C))
        /\ \A j \in 1..Len(C[w]) : FlattenSeq(C)[Len(Flat(C, w - 1)) + j] = C[w][j]
    BY <1>2, <2>1, FlatIndex
  <2> QED BY <2>1, <2>2
<1>4. text = FlattenSeq(C)
  BY <1>1 DEF Camel
<1>5. Flat(C, Len(C)) = FlattenSeq(C) /\ Len(FlattenSeq(C)) \in Nat
  <2>1. Flat(C, Len(C)) = FlattenSeq(C)
    BY <1>2, FlatEnds
  <2>2. Flat(C, Len(C)) \in Seq(Alphabet)
    <3>1. Len(C) \in 0..Len(C)
      BY <1>2
    <3> QED BY <1>2, <3>1, FlatTyped
  <2> QED BY <2>1, <2>2, LenProperties
<1>6. Place(w, k) = Len(Flat(C, w - 1)) + k /\ Place(w, k + 1) = Len(Flat(C, w - 1)) + (k + 1)
  BY <1>1 DEF Place
<1>7. Place(w + 1, 1) = Len(Flat(C, w)) + 1
  <2>1. w + 1 - 1 = w
    BY <1>2
  <2> QED BY <1>1, <2>1 DEF Place
<1>8. text[Place(w, k)] = LetterAt(w, k)
  BY <1>2, <1>3, <1>4, <1>6
<1>9. Place(w, k) \in 1..Len(text)
  <2>1. k \in 1..Len(C[w])
    BY <1>2
  <2>2. Len(text) \in Nat /\ Len(Flat(C, w - 1)) + Len(C[w]) <= Len(text)
    BY <1>3, <1>4, <1>5
  <2>3. PICK m \in Nat : m = Len(Flat(C, w - 1))
    BY <1>3
  <2>4. PICK n \in Nat : n = Len(text)
    BY <2>2
  <2>5. PICK l \in Nat : l = Len(C[w])
    BY <1>3
  <2>6. m + l <= n /\ k \in 1..l /\ Place(w, k) = m + k
    BY <1>6, <2>1, <2>2, <2>3, <2>4, <2>5
  <2>7. m + k \in 1..n
    BY ONLY <2>6, m \in Nat, n \in Nat, l \in Nat
  <2> QED BY <2>4, <2>6, <2>7
<1>10. Place(w, k + 1) = Place(w, k) + 1
  BY <1>2, <1>3, <1>6
<1>11. ASSUME k = Len(Spelling(w))
       PROVE  Place(w + 1, 1) = Place(w, k) + 1
  BY <1>2, <1>3, <1>6, <1>7, <1>11
<1>12. ASSUME k = Len(Spelling(w)), w = Len(input)
       PROVE  Place(w, k) = Len(text)
  BY <1>2, <1>3, <1>4, <1>5, <1>6, <1>12
<1> QED BY <1>8, <1>9, <1>10, <1>11, <1>12

\* What a letter of a word is in camel case.
LEMMA LetterKinds ==
    ASSUME input \in Seq(Word), NEW w \in 1..Len(input), NEW k \in 1..Len(Spelling(w))
    PROVE  /\ Spelling(w)[k] \in Small \cup Digits
           /\ (k = 1 /\ w # 1) \/ input[w].acronym =>
                /\ Spelling(w)[k] \in Small => LetterAt(w, k) \in Capital
                /\ Spelling(w)[k] \in Digits => LetterAt(w, k) \in Digits
           /\ ~ ((k = 1 /\ w # 1) \/ input[w].acronym) => LetterAt(w, k) = Spelling(w)[k]
           /\ ToLower(LetterAt(w, k)) = Spelling(w)[k]
<1>1. Spelling(w)[k] \in Small \cup Digits
  BY ElementOfSeq, WordShape DEF Spelling
<1> QED BY <1>1, Cases DEF LetterAt

\* A name is a text.
LEMMA CamelTyped ==
    ASSUME input \in Seq(Word), text = Camel(input)
    PROVE  text \in Seq(Alphabet)
<1>1. PICK C : C = CamelWords(input)
  OBVIOUS
<1>2. C \in Seq(Seq(Alphabet)) /\ Len(C) \in 0..Len(C)
  BY <1>1, CamelWordsShape
<1>3. Flat(C, Len(C)) \in Seq(Alphabet)
  BY <1>2, FlatTyped
<1> QED BY <1>1, <1>2, <1>3, FlatEnds DEF Camel

\* A word behind the first begins at a boundary.
LEMMA WordsBegin ==
    ASSUME input \in Seq(Word), text = Camel(input), Clear,
           NEW w \in 1..Len(input), w # 1
    PROVE  Boundary(text, Place(w, 1))
<1>1. Len(input) \in Nat /\ DOMAIN input = 1..Len(input)
  BY LenProperties
<1>2. PICK u : u = w - 1 /\ u \in 1..Len(input) - 1 /\ u \in 1..Len(input) /\ u + 1 = w
  BY <1>1
<1>3. /\ Len(Spelling(w)) \in Nat /\ Len(Spelling(w)) >= 1 /\ Spelling(w)[1] \in Small
      /\ Len(Spelling(u)) \in Nat /\ Len(Spelling(u)) >= 1
      /\ input[w].acronym \in BOOLEAN /\ input[u].acronym \in BOOLEAN
  <2>1. input[w] \in Word /\ input[u] \in Word
    BY <1>2, ElementOfSeq
  <2> QED BY <2>1, WordShape DEF Spelling
<1>4. PICK l : l = Len(Spelling(u)) /\ l \in 1..Len(Spelling(u))
  BY <1>3
<1>5. 1 \in 1..Len(Spelling(w))
  BY <1>3
<1> DEFINE p == Place(w, 1)
<1>6. p \in 1..Len(text) /\ text[p] = LetterAt(w, 1) /\ Place(w, 1 + 1) = p + 1
  BY <1>5, PlaceOfLetter
<1>7. Place(u, l) \in 1..Len(text) /\ text[Place(u, l)] = LetterAt(u, l) /\ p = Place(u, l) + 1
  BY <1>2, <1>4, PlaceOfLetter
<1> HIDE DEF p
<1>8. Len(text) \in Nat
  BY CamelTyped, LenProperties
<1>9. p > 1 /\ p - 1 = Place(u, l) /\ text[p - 1] = LetterAt(u, l)
  <2>1. p > 1 /\ p - 1 = Place(u, l)
    BY <1>7, <1>8
  <2> QED BY <1>7, <2>1
<1>10. LetterAt(w, 1) \in Capital /\ IsUpper(text[p])
  BY <1>3, <1>5, <1>6, LetterKinds, Cases
<1>11. CASE LetterAt(u, l) \in Small \cup Digits
  BY <1>9, <1>10, <1>11, Cases DEF Boundary, p
<1>12. CASE LetterAt(u, l) \notin Small \cup Digits
  <2>1. (l = 1 /\ u # 1) \/ input[u].acronym
    BY <1>2, <1>4, <1>12, LetterKinds
  <2>2. LetterAt(u, l) \in Capital
    BY <1>2, <1>4, <1>12, <2>1, LetterKinds
  <2>3. IsAcronym(input[u]) /\ (u > 1 \/ input[u].acronym)
    BY <1>2, <1>4, <2>1 DEF IsAcronym, Spelling
  <2>4. ~ IsAcronym(input[w]) /\ IsLower(Spelling(w)[2])
    BY <1>2, <2>3 DEF Clear, Spelling
  <2>5. ~ input[w].acronym /\ Len(Spelling(w)) # 1
    BY <2>4 DEF IsAcronym, Spelling
  <2>6. 2 \in 1..Len(Spelling(w)) /\ 1 + 1 = 2
    <3>1. PICK n \in Nat : n = Len(Spelling(w))
      BY <1>3
    <3>2. n # 1 /\ n >= 1
      BY <1>3, <2>5, <3>1
    <3>3. 2 \in 1..n /\ 1 + 1 = 2
      BY ONLY <3>2, n \in Nat
    <3> QED BY <3>1, <3>3
  <2>7. LetterAt(w, 2) = Spelling(w)[2]
    BY <2>5 DEF LetterAt
  <2>8. Place(w, 2) \in 1..Len(text) /\ text[Place(w, 2)] = LetterAt(w, 2)
    BY <2>6, PlaceOfLetter
  <2>9. Place(w, 2) = p + 1
    BY <1>6, <2>6
  <2>10. p < Len(text) /\ IsLower(text[p + 1])
    <3>1. p < Len(text)
      BY <1>6, <1>8, <2>8, <2>9
    <3> QED BY <2>4, <2>7, <2>8, <2>9, <3>1
  <2> QED BY <1>9, <1>10, <2>2, <2>10, Cases DEF Boundary, p
<1> QED BY <1>11, <1>12

\* No other letter is at one.
LEMMA WordsHold ==
    ASSUME input \in Seq(Word), text = Camel(input), Clear,
           NEW w \in 1..Len(input), NEW k \in 1..Len(Spelling(w)), w = 1 \/ k # 1
    PROVE  ~ Boundary(text, Place(w, k))
<1>1. Len(input) \in Nat /\ DOMAIN input = 1..Len(input)
  BY LenProperties
<1>2. /\ Len(Spelling(w)) \in Nat /\ input[w].acronym \in BOOLEAN
  BY ElementOfSeq, WordShape DEF Spelling
<1> DEFINE p == Place(w, k)
<1>3. /\ p \in 1..Len(text) /\ text[p] = LetterAt(w, k) /\ Place(w, k + 1) = p + 1
      /\ k = Len(Spelling(w)) => Place(w + 1, 1) = p + 1
      /\ k = Len(Spelling(w)) /\ w = Len(input) => p = Len(text)
  BY PlaceOfLetter
<1>4. CASE k = 1
  <2>1. w = 1
    BY <1>4
  <2>2. Flat(CamelWords(input), w - 1) = <<>>
    BY <2>1, CamelWordsShape, FlatEnds
  <2>3. Len(<<>>) = 0
    BY EmptySeq
  <2>4. p = 1
    BY <1>4, <2>2, <2>3 DEF Place
  <2>5. ~ (p > 1)
    BY <2>4
  <2> HIDE DEF p
  <2> QED BY <2>5 DEF Boundary, p
<1> HIDE DEF p
<1>5. CASE k # 1 /\ ~ IsUpper(text[p])
  BY <1>5 DEF Boundary, p
<1>6. CASE k # 1 /\ IsUpper(text[p])
  <2>1. input[w].acronym /\ Spelling(w)[k] \in Small
    <3>1. LetterAt(w, k) \notin Digits /\ LetterAt(w, k) \notin Small
      BY <1>3, <1>6, Cases
    <3> QED BY <1>6, <3>1, LetterKinds
  <2>2. PICK j : j = k - 1 /\ j \in 1..Len(Spelling(w)) /\ j + 1 = k
    BY <1>2, <1>6
  <2>3. text[Place(w, j)] = LetterAt(w, j) /\ p = Place(w, j) + 1 /\ Place(w, j) \in 1..Len(text)
    BY <2>2, PlaceOfLetter DEF p
  <2>4. p - 1 = Place(w, j)
    <3>1. Place(w, j) \in Int
      BY <2>3
    <3> QED BY <2>3, <3>1
  <2>5. Spelling(w)[j] \notin Digits
    <3>1. k \in 2..Len(Spelling(w)) /\ k - 1 = j
      BY <1>2, <1>6, <2>2
    <3>2. Spelling(w)[j] \in Digits => Spelling(w)[k] \in Digits
      BY <1>1, <2>1, <3>1 DEF Clear, Spelling
    <3> QED BY <2>1, <3>2, Cases
  <2>6. LetterAt(w, j) \in Capital
    BY <2>1, <2>2, <2>5, LetterKinds
  <2>7. ~ IsLower(text[p - 1]) /\ text[p - 1] \notin Digits
    BY <2>3, <2>4, <2>6, Cases
  <2>8. CASE k # Len(Spelling(w))
    <3>1. k + 1 \in 1..Len(Spelling(w))
      BY <1>2, <2>8
    <3>2. text[p + 1] = LetterAt(w, k + 1)
      BY <1>3, <3>1, PlaceOfLetter
    <3>3. LetterAt(w, k + 1) \in Capital \cup Digits
      BY <2>1, <3>1, LetterKinds
    <3>4. ~ IsLower(text[p + 1])
      BY <3>2, <3>3, Cases
    <3> QED BY <2>7, <3>4 DEF Boundary, p
  <2>9. CASE k = Len(Spelling(w)) /\ w # Len(input)
    <3>1. w + 1 \in 1..Len(input) /\ w + 1 # 1
      <4>1. PICK n \in Nat : n = Len(input)
        BY <1>1
      <4>2. w \in 1..n /\ w # n
        BY <2>9, <4>1
      <4>3. w + 1 \in 1..n /\ w + 1 # 1
        BY ONLY <4>2, n \in Nat
      <4> QED BY <4>1, <4>3
    <3>2. PICK v : v = w + 1 /\ v \in 1..Len(input) /\ v # 1
      BY <3>1
    <3>3. Len(Spelling(v)) \in Nat /\ Len(Spelling(v)) >= 1 /\ Spelling(v)[1] \in Small
      BY <3>2, ElementOfSeq, WordShape DEF Spelling
    <3>4. 1 \in 1..Len(Spelling(v))
      BY <3>3
    <3>5. text[p + 1] = LetterAt(v, 1)
      BY <1>3, <2>9, <3>2, <3>4, PlaceOfLetter
    <3>6. LetterAt(v, 1) \in Capital
      BY <3>2, <3>3, <3>4, LetterKinds
    <3>7. ~ IsLower(text[p + 1])
      BY <3>5, <3>6, Cases
    <3> QED BY <2>7, <3>7 DEF Boundary, p
  <2>10. CASE k = Len(Spelling(w)) /\ w = Len(input)
    <3>1. p = Len(text) /\ p \in Int
      BY <1>3, <2>3, <2>10
    <3>2. ~ (p < Len(text))
      BY <3>1
    <3> QED BY <2>7, <3>2 DEF Boundary, p
  <2> QED BY <2>8, <2>9, <2>10
<1> QED BY <1>4, <1>5, <1>6

\* What is put out of a word before its k-th letter is read, and once it is.
Separator(w) == IF w = 1 THEN <<>> ELSE <<"_">>
Read(w, k)   == Separator(w) \o SubSeq(Spelling(w), 1, k)
Begun(w, k)  == IF k = 1 THEN <<>> ELSE Read(w, k - 1)

\* The loop is at the k-th letter of the w-th word, or behind the last one, and
\* the words before are in snake case.
OnLetter(w, k) == i = Place(w, k) /\ out = Flat(SnakeWords, w - 1) \o Begun(w, k)
AtEnd          == i = Len(text) + 1 /\ out = FlattenSeq(SnakeWords)

Snaking ==
    task = "snake" =>
        /\ input \in Seq(Word) /\ text = Camel(input)
        /\ Clear => \/ AtEnd
                    \/ \E w \in 1..Len(input) : \E k \in 1..Len(Spelling(w)) : OnLetter(w, k)

\* What stands for a word and its beginnings are texts.
LEMMA ReadTyped ==
    ASSUME input \in Seq(Word), NEW w \in 1..Len(input), NEW k \in 0..Len(Spelling(w))
    PROVE  /\ Separator(w) \in Seq(Alphabet) /\ Spelling(w) \in Seq(Alphabet)
           /\ SubSeq(Spelling(w), 1, k) \in Seq(Alphabet) /\ Read(w, k) \in Seq(Alphabet)
<1>1. Spelling(w) \in Seq(Alphabet)
  BY ElementOfSeq, WordShape DEF Spelling
<1>2. Separator(w) \in Seq(Alphabet)
  <2>1. PICK c : c = "_"
    OBVIOUS
  <2>2. c \in Alphabet
    BY <2>1 DEF Alphabet
  <2>3. <<c>> \in Seq(Alphabet) /\ <<>> \in Seq(Alphabet)
    BY <2>2, OneCharacter, EmptySeq
  <2> QED BY <2>1, <2>3 DEF Separator
<1>3. SubSeq(Spelling(w), 1, k) \in Seq(Alphabet)
  BY <1>1, Prefix
<1> QED BY <1>1, <1>2, <1>3, ConcatProperties DEF Read

\* A letter is put behind what was read of its word, the separator before it if
\* it is the first.
LEMMA LetterIsRead ==
    ASSUME input \in Seq(Word), text = Camel(input), Clear,
           NEW w \in 1..Len(input), NEW k \in 1..Len(Spelling(w))
    PROVE  LET c == ToLower(text[Place(w, k)])
           IN Begun(w, k) \o (IF Boundary(text, Place(w, k)) THEN <<"_", c>> ELSE <<c>>) = Read(w, k)
<1>1. PICK s \in Seq(Alphabet) : s = Spelling(w)
  <2>1. 0 \in 0..Len(Spelling(w))
    BY ElementOfSeq, WordShape DEF Spelling
  <2> QED BY <2>1, ReadTyped
<1>2. Len(s) \in Nat /\ k \in 1..Len(s) /\ s[k] \in Alphabet
  BY <1>1, LenProperties, ElementOfSeq
<1>3. PICK c \in Alphabet : c = ToLower(text[Place(w, k)]) /\ c = s[k]
  <2>1. ToLower(text[Place(w, k)]) = s[k]
    BY <1>1, PlaceOfLetter, LetterKinds
  <2> QED BY <1>2, <2>1
<1>4. <<c>> \in Seq(Alphabet)
  BY OneCharacter
<1>5. SubSeq(s, 1, k) = SubSeq(s, 1, k - 1) \o <<c>>
  <2>1. 1 \in 1..Len(s) /\ k \in 1..Len(s)
    BY <1>2
  <2> QED BY <1>3, <2>1, SubSeqRecursiveSecond
<1>6. CASE k = 1
  <2>1. SubSeq(s, 1, k) = <<c>>
    <3>1. SubSeq(s, 1, k - 1) = <<>>
      BY <1>6, SubSeqEmpty
    <3> QED BY <1>4, <1>5, <3>1, ConcatEmptySeq
  <2>2. Begun(w, k) = <<>>
    BY <1>6 DEF Begun
  <2>3. CASE w = 1
    <3>1. ~ Boundary(text, Place(w, k))
      BY <2>3, WordsHold
    <3>2. Read(w, k) = <<>> \o <<c>>
      BY <1>1, <2>1, <2>3 DEF Read, Separator
    <3> QED BY <1>3, <2>2, <3>1, <3>2
  <2>4. CASE w # 1
    <3>1. Boundary(text, Place(w, k))
      BY <1>6, <2>4, WordsBegin
    <3>2. Read(w, k) = <<"_">> \o <<c>>
      BY <1>1, <2>1, <2>4 DEF Read, Separator
    <3>3. <<"_">> \o <<c>> = <<"_", c>> /\ <<>> \o <<"_", c>> = <<"_", c>>
      <4>1. PICK u : u = "_"
        OBVIOUS
      <4>2. u \in Alphabet
        BY <4>1 DEF Alphabet
      <4>3. <<u>> \o <<c>> = <<u, c>> /\ <<>> \o <<u, c>> = <<u, c>>
        BY <4>2, TwoCharacters
      <4> QED BY <4>1, <4>3
    <3> QED BY <1>3, <2>2, <3>1, <3>2, <3>3
  <2> QED BY <2>3, <2>4
<1>7. CASE k # 1
  <2>1. ~ Boundary(text, Place(w, k))
    BY <1>7, WordsHold
  <2>2. Begun(w, k) = Separator(w) \o SubSeq(s, 1, k - 1)
    BY <1>1, <1>7 DEF Begun, Read
  <2>3. Separator(w) \in Seq(Alphabet)
    BY <1>1, <1>2, ReadTyped
  <2>4. (Separator(w) \o SubSeq(s, 1, k - 1)) \o <<c>> = Separator(w) \o SubSeq(s, 1, k)
    BY <1>2, <1>3, <2>3, PrefixGrows
  <2> QED BY <1>1, <1>3, <2>1, <2>2, <2>4 DEF Read
<1> QED BY <1>6, <1>7

\* At first the loop is on the first letter, if there is one.
LEMMA InitSnaking == Init => Snaking
<1> SUFFICES ASSUME Init, task = "snake"
             PROVE  Snaking
  BY DEF Snaking
<1>1. input \in Seq(Word) /\ text = Camel(input) /\ i = 1 /\ out = <<>>
  BY InputAssumption DEF Init
<1>2. PICK C : C = CamelWords(input)
  OBVIOUS
<1>3. /\ C \in Seq(Seq(Alphabet)) /\ Len(C) = Len(input) /\ Len(input) \in Nat
      /\ SnakeWords \in Seq(Seq(Alphabet)) /\ Len(SnakeWords) = Len(input)
  BY <1>1, <1>2, CamelWordsShape, SnakeWordsShape
<1>4. Flat(C, 0) = <<>> /\ Flat(SnakeWords, 0) = <<>> /\ Len(<<>>) = 0
  BY <1>3, FlatEnds, EmptySeq
<1>5. CASE Len(input) = 0
  <2>1. text = <<>>
    <3>1. Flat(C, Len(C)) = text
      BY <1>1, <1>2, <1>3, FlatEnds DEF Camel
    <3> QED BY <1>3, <1>4, <1>5, <3>1
  <2>2. FlattenSeq(SnakeWords) = <<>>
    <3>1. Flat(SnakeWords, Len(SnakeWords)) = FlattenSeq(SnakeWords)
      BY <1>3, FlatEnds
    <3> QED BY <1>3, <1>4, <1>5, <3>1
  <2>3. AtEnd
    BY <1>1, <1>4, <2>1, <2>2 DEF AtEnd
  <2> QED BY <1>1, <2>3 DEF Snaking
<1>6. CASE Len(input) # 0
  <2>1. 1 \in 1..Len(input)
    BY <1>3, <1>6
  <2>2. 1 \in 1..Len(Spelling(1))
    <3>1. Len(Spelling(1)) \in Nat /\ Len(Spelling(1)) >= 1
      BY <1>1, <2>1, ElementOfSeq, WordShape DEF Spelling
    <3> QED BY <3>1
  <2>3. Place(1, 1) = 1
    BY <1>2, <1>4 DEF Place
  <2>4. <<>> \o <<>> = <<>>
    OBVIOUS
  <2>5. OnLetter(1, 1)
    BY <1>1, <1>4, <2>3, <2>4 DEF OnLetter, Begun
  <2> QED BY <1>1, <2>1, <2>2, <2>5 DEF Snaking
<1> QED BY <1>5, <1>6

\* Two texts, one behind the other, as a term the provers leave folded.
Joined(a, b) == a \o b

\* Three texts, one behind the other.
LEMMA Regroup ==
    ASSUME NEW S, NEW a \in Seq(S), NEW b \in Seq(S), NEW c \in Seq(S)
    PROVE  Joined(Joined(a, b), c) = Joined(a, Joined(b, c))
<1>1. (a \o b) \o c = a \o (b \o c)
  OBVIOUS
<1> QED BY <1>1 DEF Joined

\* A word whose last letter is read stands whole behind the words before.
LEMMA WordIsRead ==
    ASSUME input \in Seq(Word), NEW w \in 1..Len(input)
    PROVE  Flat(SnakeWords, w - 1) \o Read(w, Len(Spelling(w))) = Flat(SnakeWords, w)
<1>1. Spelling(w) \in Seq(Alphabet)
  BY ElementOfSeq, WordShape DEF Spelling
<1>2. SubSeq(Spelling(w), 1, Len(Spelling(w))) = Spelling(w)
  BY <1>1, SubSeqFull
<1>3. <<>> \o Spelling(w) = Spelling(w)
  BY <1>1, ConcatEmptySeq
<1>4. Read(w, Len(Spelling(w))) = SnakeWords[w]
  BY <1>2, <1>3, SnakeWordsShape DEF Read, Separator, Spelling
<1>5. SnakeWords \in Seq(Seq(Alphabet)) /\ w \in 1..Len(SnakeWords)
  BY SnakeWordsShape
<1> QED BY <1>4, <1>5, FlatNext

\* The words and their places are the input's.
LEMMA SameNames ==
    ASSUME UNCHANGED <<input, text>>
    PROVE  /\ SnakeWords' = SnakeWords /\ Clear' = Clear
           /\ \A w : Spelling(w)' = Spelling(w)
           /\ \A w, k : Place(w, k)' = Place(w, k) /\ Begun(w, k)' = Begun(w, k)
BY DEF SnakeWords, Clear, Spelling, Place, Begun, Read, Separator, Flat, Camel, CamelWords

\* One step reads one letter.
LEMMA RuneSnaking == Snaking /\ Rune => Snaking'
<1> SUFFICES ASSUME Snaking, Rune, Clear
             PROVE  Snaking'
  BY SameNames DEF Snaking, Rune
<1>1. /\ task = "snake" /\ input \in Seq(Word) /\ text = Camel(input)
      /\ i <= Len(text) /\ UNCHANGED <<task, input, text>> /\ i' = i + 1
      /\ out' = out \o IF Boundary(text, i) THEN <<"_", ToLower(text[i])>> ELSE <<ToLower(text[i])>>
  BY DEF Snaking, Rune
<1>2. Len(text) \in Nat /\ Len(input) \in Nat
  BY <1>1, CamelTyped, LenProperties
<1>3. ~ AtEnd
  <2>1. i <= Len(text)
    BY <1>1
  <2>2. PICK n \in Nat : n = Len(text)
    BY <1>2
  <2>3. i # n + 1
    BY ONLY <2>1, <2>2, n \in Nat
  <2> QED BY <2>2, <2>3 DEF AtEnd
<1>4. PICK w \in 1..Len(input) : \E k \in 1..Len(Spelling(w)) : OnLetter(w, k)
  BY <1>1, <1>3 DEF Snaking
<1>5. PICK k \in 1..Len(Spelling(w)) : OnLetter(w, k)
  BY <1>4
<1>6. Spelling(w) \in Seq(Alphabet) /\ Len(Spelling(w)) \in Nat
  BY <1>1, ElementOfSeq, WordShape DEF Spelling
<1> DEFINE c == ToLower(text[i])
           e == IF Boundary(text, i) THEN <<"_", c>> ELSE <<c>>
           before == Flat(SnakeWords, w - 1)
<1>7. SnakeWords \in Seq(Seq(Alphabet)) /\ Len(SnakeWords) = Len(input)
  BY <1>1, SnakeWordsShape
<1>8. before \in Seq(Alphabet) /\ Begun(w, k) \in Seq(Alphabet) /\ e \in Seq(Alphabet)
  <2>1. before \in Seq(Alphabet)
    <3>1. w - 1 \in 0..Len(SnakeWords)
      BY <1>2, <1>7
    <3> QED BY <1>7, <3>1, FlatTyped
  <2>2. Begun(w, k) \in Seq(Alphabet)
    <3>1. k # 1 => k - 1 \in 0..Len(Spelling(w))
      BY <1>6
    <3> QED BY <1>1, <3>1, ReadTyped, EmptySeq DEF Begun
  <2>3. e \in Seq(Alphabet)
    <3>1. c = Spelling(w)[k]
      BY <1>1, <1>5, PlaceOfLetter, LetterKinds DEF OnLetter
    <3>2. c \in Alphabet
      BY <1>6, <3>1, ElementOfSeq
    <3>3. PICK u \in Alphabet : u = "_"
      BY DEF Alphabet
    <3>4. <<c>> \in Seq(Alphabet) /\ <<u, c>> \in Seq(Alphabet)
      <4> HIDE DEF c
      <4> QED BY <3>2
    <3> QED BY <3>3, <3>4
  <2> QED BY <2>1, <2>2, <2>3
<1>9. Begun(w, k) \o e = Read(w, k)
  BY <1>1, <1>5, LetterIsRead DEF OnLetter
<1>10. out' = before \o Read(w, k)
  <2>1. out' = (before \o Begun(w, k)) \o e
    BY <1>1, <1>5 DEF OnLetter
  <2>2. Joined(Joined(before, Begun(w, k)), e) = Joined(before, Joined(Begun(w, k), e))
    <3> HIDE DEF before, e
    <3> QED BY <1>8, Regroup
  <2> HIDE DEF before, e
  <2> QED BY <1>9, <2>1, <2>2 DEF Joined
<1> HIDE DEF c, e
<1>11. i = Place(w, k) /\ i \in 1..Len(text)
  BY <1>1, <1>5, PlaceOfLetter DEF OnLetter
<1>12. /\ input' \in Seq(Word) /\ text' = Camel(input')
       /\ Len(input') = Len(input) /\ Len(text') = Len(text)
  BY <1>1
<1>13. SnakeWords' = SnakeWords /\ \A v : Spelling(v)' = Spelling(v)
  BY <1>1, SameNames
<1>14. CASE k # Len(Spelling(w))
  <2>1. PICK j : j = k + 1 /\ j \in 1..Len(Spelling(w)) /\ j # 1 /\ j - 1 = k
    BY <1>6, <1>14
  <2>2. Place(w, j) = i + 1
    BY <1>1, <1>11, <2>1, PlaceOfLetter
  <2>3. Begun(w, j) = Read(w, k)
    BY <2>1 DEF Begun
  <2>4. Place(w, j)' = Place(w, j) /\ Begun(w, j)' = Begun(w, j)
    BY <1>1, SameNames
  <2>5. OnLetter(w, j)'
    BY <1>1, <1>10, <1>13, <2>2, <2>3, <2>4 DEF OnLetter, Flat
  <2> QED BY <1>12, <1>13, <2>1, <2>5 DEF Snaking
<1>15. CASE k = Len(Spelling(w)) /\ w # Len(input)
  <2>1. PICK v : v = w + 1 /\ v \in 1..Len(input) /\ v - 1 = w
    BY <1>2, <1>15
  <2>2. Place(v, 1) = i + 1
    BY <1>1, <1>11, <1>15, <2>1, PlaceOfLetter
  <2>3. out' = Flat(SnakeWords, w)
    BY <1>1, <1>10, <1>15, WordIsRead
  <2>4. Flat(SnakeWords, w) \o <<>> = Flat(SnakeWords, w)
    <3>1. w \in 0..Len(SnakeWords)
      BY <1>2, <1>7
    <3>2. Flat(SnakeWords, w) \in Seq(Alphabet)
      BY <1>7, <3>1, FlatTyped
    <3> QED BY <3>2, ConcatEmptySeq
  <2>5. Begun(v, 1)' = <<>> /\ Place(v, 1)' = Place(v, 1)
    BY <1>1, SameNames DEF Begun
  <2>6. OnLetter(v, 1)'
    BY <1>1, <1>13, <2>1, <2>2, <2>3, <2>4, <2>5 DEF OnLetter, Flat
  <2>7. 1 \in 1..Len(Spelling(v))
    <3>1. Len(Spelling(v)) \in Nat /\ Len(Spelling(v)) >= 1
      BY <1>1, <2>1, ElementOfSeq, WordShape DEF Spelling
    <3> QED BY <3>1
  <2> QED BY <1>12, <1>13, <2>1, <2>6, <2>7 DEF Snaking
<1>16. CASE k = Len(Spelling(w)) /\ w = Len(input)
  <2>1. i = Len(text)
    BY <1>1, <1>11, <1>16, PlaceOfLetter
  <2>2. out' = FlattenSeq(SnakeWords)
    BY <1>1, <1>7, <1>10, <1>16, WordIsRead, FlatEnds
  <2>3. AtEnd'
    BY <1>1, <1>12, <1>13, <2>1, <2>2 DEF AtEnd
  <2> QED BY <1>12, <2>3 DEF Snaking
<1> QED BY <1>14, <1>15, <1>16

\* At every step the words of a clear name are found again up to the loop's
\* position, the letters of the word it is in among them.
THEOREM SnakesUpToPosition == Spec => []Snaking
<1>1. Snaking /\ [Next]_vars => Snaking'
  <2> SUFFICES ASSUME Snaking, [Next]_vars
               PROVE  Snaking'
    OBVIOUS
  <2>1. CASE Substitute
    BY <2>1 DEF Substitute, Snaking
  <2>2. CASE Copy
    BY <2>2 DEF Copy, Snaking
  <2>3. CASE Rune
    BY <2>3, RuneSnaking
  <2>4. CASE UNCHANGED vars
    <3>1. UNCHANGED <<task, input, text, i, out>>
      BY <2>4 DEF vars
    <3>2. /\ SnakeWords' = SnakeWords /\ Clear' = Clear
          /\ \A w : Spelling(w)' = Spelling(w)
          /\ \A w, k : Place(w, k)' = Place(w, k) /\ Begun(w, k)' = Begun(w, k)
      BY <3>1, SameNames
    <3>3. AtEnd' = AtEnd /\ \A w, k : OnLetter(w, k)' = OnLetter(w, k)
      BY <3>1, <3>2 DEF AtEnd, OnLetter, Flat
    <3> QED BY <3>1, <3>2, <3>3 DEF Snaking
  <2> QED BY <2>1, <2>2, <2>3, <2>4 DEF Next
<1> QED BY <1>1, InitSnaking, PTL DEF Spec

\* camel_to_snake finds the words of every clear name again, whatever their
\* number and length.
THEOREM WordsAreKept == Spec => []KeepsWords
<1>1. Snaking => KeepsWords
  <2> SUFFICES ASSUME Snaking, task = "snake", Done, Clear
               PROVE  out = FlattenSeq(SnakeWords)
    BY DEF KeepsWords
  <2>1. input \in Seq(Word) /\ text = Camel(input) /\ i > Len(text)
    BY DEF Snaking, Done
  <2>2. Len(text) \in Nat
    BY <2>1, CamelTyped, LenProperties
  <2>3. ASSUME NEW w \in 1..Len(input), NEW k \in 1..Len(Spelling(w)), OnLetter(w, k)
        PROVE  FALSE
    <3>1. i \in 1..Len(text)
      BY <2>1, <2>3, PlaceOfLetter DEF OnLetter
    <3> QED BY <2>1, <2>2, <3>1
  <2> QED BY <2>3 DEF Snaking, AtEnd
<1> QED BY <1>1, SnakesUpToPosition, PTL
=============================================================================
