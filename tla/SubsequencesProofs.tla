------------------------- MODULE SubsequencesProofs -------------------------
(***************************************************************************)
(* Facts about Kept, by induction on the length of the sequence: a set of  *)
(* lengths for which a fact fails would have a least element.  Also that a *)
(* function defined by recursion exists where a measure falls, and what is *)
(* left of a text that is cut in two.                                      *)
(***************************************************************************)
EXTENDS Subsequences, SequenceTheorems, WellFoundedInduction, TLAPS

\* A non-empty set of naturals has a least element.
LEMMA LeastNat ==
    ASSUME NEW T, T \subseteq Nat, T # {}
    PROVE  \E x \in T : \A y \in T : x <= y
<1>1. \E x \in T : \A y \in T : <<y, x>> \notin OpToRel(<, Nat)
  BY WFMin, NatLessThanWellFounded
<1>2. PICK x \in T : \A y \in T : <<y, x>> \notin OpToRel(<, Nat)
  BY <1>1
<1>3. ASSUME NEW y \in T PROVE x <= y
  <2>1. x \in Nat /\ y \in Nat
    OBVIOUS
  <2>2. ~(y < x)
    BY <1>2, <1>3, <2>1 DEF OpToRel
  <2> QED
    BY <2>1, <2>2
<1> QED
  BY <1>3

\* Induction for a set: one that has 0, and n + 1 whenever it has n, has all.
LEMMA AllNat ==
    ASSUME NEW T, 0 \in T, \A n \in Nat : n \in T => n + 1 \in T
    PROVE  Nat \subseteq T
<1> DEFINE F == {n \in Nat : n \notin T}
<1>1. SUFFICES ASSUME F # {} PROVE FALSE
  OBVIOUS
<1>2. PICK x \in F : \A y \in F : x <= y
  BY <1>1, LeastNat
<1>3. x # 0 /\ x \in Nat
  OBVIOUS
<1>4. x - 1 \in Nat /\ x - 1 \notin F
  BY <1>2, <1>3
<1>5. x - 1 + 1 \in T
  BY <1>4
<1> QED
  BY <1>3, <1>5

\* The same over sequences: a set that has the empty one, and with each that it
\* has the one longer by any element, has all.
LEMMA AllSeqs ==
    ASSUME NEW S, NEW T, <<>> \in T,
           \A s \in Seq(S) : \A e \in S : s \in T => Append(s, e) \in T
    PROVE  Seq(S) \subseteq T
<1> DEFINE Q == {n \in Nat : \A s \in Seq(S) : Len(s) = n => s \in T}
<1>1. 0 \in Q
  <2>1. \A s \in Seq(S) : Len(s) = 0 => s = <<>>
    OBVIOUS
  <2> QED
    BY <2>1
<1>2. ASSUME NEW n \in Nat, n \in Q PROVE n + 1 \in Q
  <2> SUFFICES ASSUME NEW s \in Seq(S), Len(s) = n + 1 PROVE s \in T
    OBVIOUS
  <2>1. s # <<>>
    OBVIOUS
  <2>2. PICK r \in Seq(S), e \in S : s = Append(r, e)
    BY <2>1, SequenceEmptyOrAppend
  <2>3. Len(r) = n
    BY <2>2
  <2> QED
    BY <1>2, <2>2, <2>3
<1>3. Nat \subseteq Q
  <2> HIDE DEF Q
  <2> QED
    BY <1>1, <1>2, AllNat
<1>4. \A s \in Seq(S) : Len(s) \in Nat
  OBVIOUS
<1> QED
  BY <1>3, <1>4

-----------------------------------------------------------------------------
\* The steps of Kept

Builds(s, I, n, f) ==
    f = [i \in 0..n |-> IF i = 0 THEN <<>>
                        ELSE IF i \in I THEN Append(f[i - 1], s[i]) ELSE f[i - 1]]

Stepwise(s, I, n, f) ==
    /\ f[0] = <<>>
    /\ \A i \in 1..n : f[i] = IF i \in I THEN Append(f[i - 1], s[i]) ELSE f[i - 1]

LEMMA StepAt ==
    ASSUME NEW s, NEW I, NEW n \in Nat, NEW f, Builds(s, I, n, f)
    PROVE  Stepwise(s, I, n, f)
<1> DEFINE h == [j \in 0..n |-> IF j = 0 THEN <<>>
                        ELSE IF j \in I THEN Append(f[j - 1], s[j]) ELSE f[j - 1]]
<1>1. f = h
  BY DEF Builds
<1>2. h[0] = <<>>
  OBVIOUS
<1>3. \A i \in 1..n :
         h[i] = IF i \in I THEN Append(f[i - 1], s[i]) ELSE f[i - 1]
  OBVIOUS
<1> HIDE DEF h
<1> QED
  BY <1>1, <1>2, <1>3 DEF Stepwise

\* There are such steps for every length.
LEMMA StepsExist ==
    ASSUME NEW s, NEW I
    PROVE  \A n \in Nat : \E f : Builds(s, I, n, f)
<1> DEFINE T == {n \in Nat : \E f : Builds(s, I, n, f)}
<1>1. 0 \in T
  <2>1. Builds(s, I, 0, [i \in 0..0 |-> <<>>])
    BY DEF Builds
  <2> QED
    BY <2>1
<1>2. ASSUME NEW n \in Nat, n \in T PROVE n + 1 \in T
  <2>1. PICK f : Builds(s, I, n, f)
    BY <1>2
  <2> DEFINE next == IF n + 1 \in I THEN Append(f[n], s[n + 1]) ELSE f[n]
             g == [i \in 0..(n + 1) |-> IF i = n + 1 THEN next ELSE f[i]]
  <2>2. ASSUME NEW i \in 0..(n + 1)
        PROVE  g[i] = IF i = 0 THEN <<>>
                      ELSE IF i \in I THEN Append(g[i - 1], s[i]) ELSE g[i - 1]
    <3>1. CASE i = n + 1
      BY <3>1
    <3>2. CASE i # n + 1
      <4>1. i \in 0..n /\ g[i] = f[i] /\ (i # 0 => i \in 1..n /\ g[i - 1] = f[i - 1])
        BY <3>2
      <4> HIDE DEF g, next
      <4>2. /\ f[0] = <<>>
            /\ \A j \in 1..n : f[j] = IF j \in I THEN Append(f[j - 1], s[j]) ELSE f[j - 1]
        <5>1. Stepwise(s, I, n, f)
          BY <2>1, StepAt
        <5> QED
          BY <5>1 DEF Stepwise
      <4> QED
        BY <4>1, <4>2
    <3> QED
      BY <3>1, <3>2
  <2>3. Builds(s, I, n + 1, g)
    BY <2>2 DEF Builds
  <2> QED
    BY <2>3
<1>3. Nat \subseteq T
  <2> HIDE DEF T
  <2> QED BY <1>1, <1>2, AllNat
<1> QED
  BY <1>3

\* Shorter steps begin the longer ones.
LEMMA StepsAgree ==
    ASSUME NEW s, NEW t, NEW I, NEW J, NEW m \in Nat, NEW n \in Nat, m <= n,
           NEW f, NEW g, Builds(s, I, m, f), Builds(t, J, n, g),
           \A i \in 1..m : s[i] = t[i] /\ (i \in I <=> i \in J)
    PROVE  f[m] = g[m]
<1> DEFINE T == {k \in Nat : k <= m => f[k] = g[k]}
<1>0. Stepwise(s, I, m, f) /\ Stepwise(t, J, n, g)
  BY StepAt
<1>1. 0 \in T
  BY <1>0 DEF Stepwise
<1>2. ASSUME NEW k \in Nat, k \in T PROVE k + 1 \in T
  <2>1. CASE k + 1 <= m
    <3>1. f[k] = g[k] /\ k + 1 \in 1..m /\ k + 1 \in 0..n
      BY <1>2, <2>1
    <3>0. k + 1 \in 1..m /\ k + 1 \in 1..n /\ (k + 1) - 1 = k
      BY <2>1
    <3>2. f[k + 1] = IF k + 1 \in I THEN Append(f[k], s[k + 1]) ELSE f[k]
      BY <1>0, <3>0 DEF Stepwise
    <3>3. g[k + 1] = IF k + 1 \in J THEN Append(g[k], t[k + 1]) ELSE g[k]
      BY <1>0, <3>0, <3>1 DEF Stepwise
    <3> QED
      BY <3>1, <3>2, <3>3
  <2> QED
    BY <2>1
<1>3. Nat \subseteq T
  <2> HIDE DEF T
  <2> QED BY <1>1, <1>2, AllNat
<1> QED
  BY <1>3

LEMMA KeptSteps ==
    ASSUME NEW s, NEW I, Len(s) \in Nat
    PROVE  \E f : Builds(s, I, Len(s), f) /\ Kept(s, I) = f[Len(s)]
<1> DEFINE f == CHOOSE f : Builds(s, I, Len(s), f)
<1>1. Builds(s, I, Len(s), f)
  BY StepsExist
<1>2. Kept(s, I) = f[Len(s)]
  BY DEF Kept, Builds
<1> QED
  BY <1>1, <1>2

-----------------------------------------------------------------------------
\* What Kept keeps

LEMMA KeptEmpty == ASSUME NEW I PROVE Kept(<<>>, I) = <<>>
<1>1. PICK f : Builds(<<>>, I, 0, f) /\ Kept(<<>>, I) = f[0]
  BY KeptSteps
<1>2. 0 \in Nat /\ Stepwise(<<>>, I, 0, f)
  BY <1>1, StepAt
<1> QED
  BY <1>1, <1>2 DEF Stepwise

LEMMA KeptAppend ==
    ASSUME NEW S, NEW s \in Seq(S), NEW e \in S, NEW I
    PROVE  Kept(Append(s, e), I) =
             IF Len(s) + 1 \in I THEN Append(Kept(s, I), e) ELSE Kept(s, I)
<1> DEFINE t == Append(s, e)
           n == Len(s)
<1>1. n \in Nat /\ Len(t) = n + 1 /\ t[n + 1] = e /\ \A i \in 1..n : s[i] = t[i]
  OBVIOUS
<1>2. PICK f : Builds(s, I, n, f) /\ Kept(s, I) = f[n]
  BY <1>1, KeptSteps
<1> HIDE DEF n, t
<1>3. PICK g : Builds(t, I, n + 1, g) /\ Kept(t, I) = g[n + 1]
  BY <1>1, KeptSteps
<1>4. f[n] = g[n]
  <2>1. n + 1 \in Nat /\ n <= n + 1
    BY <1>1
  <2> QED
    BY <1>1, <1>2, <1>3, <2>1, StepsAgree
<1>5. g[n + 1] = IF n + 1 \in I THEN Append(g[n], t[n + 1]) ELSE g[n]
  <2>1. n + 1 \in 1..(n + 1) /\ n + 1 \in Nat /\ n + 1 - 1 = n
    BY <1>1
  <2>2. \A i \in 1..(n + 1) : g[i] = IF i \in I THEN Append(g[i - 1], t[i]) ELSE g[i - 1]
    <3>1. Stepwise(t, I, n + 1, g)
      BY <1>3, <2>1, StepAt
    <3> QED
      BY <3>1 DEF Stepwise
  <2>3. g[n + 1] = IF n + 1 \in I THEN Append(g[(n + 1) - 1], t[n + 1]) ELSE g[(n + 1) - 1]
    BY <2>1, <2>2
  <2> QED
    BY <1>1, <2>1, <2>3
<1> QED
  BY <1>1, <1>2, <1>3, <1>4, <1>5 DEF n, t

\* Only the positions that there are count, and what stands there.
LEMMA KeptSame ==
    ASSUME NEW s, NEW t, NEW I, NEW J, Len(s) \in Nat, Len(s) = Len(t),
           \A i \in 1..Len(s) : s[i] = t[i] /\ (i \in I <=> i \in J)
    PROVE  Kept(s, I) = Kept(t, J)
<1>1. PICK f : Builds(s, I, Len(s), f) /\ Kept(s, I) = f[Len(s)]
  BY KeptSteps
<1>2. PICK g : Builds(t, J, Len(s), g) /\ Kept(t, J) = g[Len(s)]
  BY KeptSteps
<1>3. Len(s) <= Len(s)
  OBVIOUS
<1> QED
  BY <1>1, <1>2, <1>3, StepsAgree

\* e takes the positions of r to the positions I of s, in order and onto.
Embeds(r, s, I, e) ==
    /\ e \in [1..Len(r) -> I]
    /\ \A k \in 1..Len(r) : r[k] = s[e[k]]
    /\ \A j, k \in 1..Len(r) : j < k => e[j] < e[k]
    /\ \A i \in I : \E k \in 1..Len(r) : e[k] = i

\* One position more, kept.
LEMMA EmbedsOne ==
    ASSUME NEW S, NEW r \in Seq(S), NEW s, NEW n \in Nat, NEW I, I \subseteq 1..n,
           NEW e, Embeds(r, s, I, e), s[n + 1] \in S
    PROVE  \E d : Embeds(Append(r, s[n + 1]), s, I \cup {n + 1}, d)
<1> DEFINE q == Append(r, s[n + 1])
           m == Len(r)
           d == [k \in 1..(m + 1) |-> IF k = m + 1 THEN n + 1 ELSE e[k]]
<1>1. m \in Nat /\ Len(q) = m + 1 /\ q[m + 1] = s[n + 1] /\ \A k \in 1..m : q[k] = r[k]
  OBVIOUS
<1>2. /\ e \in [1..m -> I] /\ \A k \in 1..m : r[k] = s[e[k]]
      /\ \A j, k \in 1..m : j < k => e[j] < e[k]
      /\ \A i \in I : \E k \in 1..m : e[k] = i
  BY DEF Embeds
<1>3. /\ d \in [1..(m + 1) -> I \cup {n + 1}] /\ d[m + 1] = n + 1
      /\ \A k \in 1..m : d[k] = e[k] /\ d[k] \in I
  BY <1>1, <1>2, SMTT(30)
<1>4. \A k \in 1..(m + 1) : k = m + 1 \/ k \in 1..m
  BY <1>1
<1> HIDE DEF q, m, d
<1>5. \A k \in 1..(m + 1) : q[k] = s[d[k]]
  BY <1>1, <1>2, <1>3, <1>4
<1>6. \A j, k \in 1..(m + 1) : j < k => d[j] < d[k]
  <2> SUFFICES ASSUME NEW j \in 1..(m + 1), NEW k \in 1..(m + 1), j < k
               PROVE  d[j] < d[k]
    OBVIOUS
  <2>1. j \in 1..m
    BY <1>1
  <2>2. d[j] = e[j] /\ e[j] \in 1..n
    BY <1>3, <2>1
  <2>3. CASE k = m + 1
    BY <1>3, <2>2, <2>3
  <2>4. CASE k \in 1..m
    BY <1>2, <1>3, <2>1, <2>4
  <2> QED
    BY <1>4, <2>3, <2>4
<1>7. \A i \in I \cup {n + 1} : \E k \in 1..(m + 1) : d[k] = i
  <2>1. m + 1 \in 1..(m + 1) /\ 1..m \subseteq 1..(m + 1)
    BY <1>1
  <2> QED
    BY <1>2, <1>3, <2>1
<1>8. Embeds(q, s, I \cup {n + 1}, d)
  BY <1>1, <1>3, <1>5, <1>6, <1>7 DEF Embeds
<1> QED
  BY <1>8 DEF q

\* What is kept is a sequence of the elements at I and no others, in order.
LEMMA KeptEmbeds ==
    ASSUME NEW S, NEW s \in Seq(S), NEW I, I \subseteq 1..Len(s)
    PROVE  /\ Kept(s, I) \in Seq(S) /\ Len(Kept(s, I)) \in 0..Len(s)
           /\ \E e : Embeds(Kept(s, I), s, I, e)
<1>1. PICK f : Builds(s, I, Len(s), f) /\ Kept(s, I) = f[Len(s)]
  BY KeptSteps
<1>2. /\ f[0] = <<>>
      /\ \A i \in 1..Len(s) : f[i] = IF i \in I THEN Append(f[i - 1], s[i]) ELSE f[i - 1]
  <2>1. Len(s) \in Nat
    OBVIOUS
  <2>2. Stepwise(s, I, Len(s), f)
    BY <1>1, <2>1, StepAt
  <2> QED
    BY <2>2 DEF Stepwise
<1> DEFINE At(n) == I \cap (1..n)
           Good(n) == /\ f[n] \in Seq(S) /\ Len(f[n]) \in 0..n
                      /\ \E e : Embeds(f[n], s, At(n), e)
           T == {n \in Nat : n <= Len(s) => Good(n)}
<1>3. 0 \in T
  <2>1. Embeds(<<>>, s, {}, [k \in {} |-> 0])
    BY DEF Embeds
  <2>2. At(0) = {} /\ Len(<<>>) = 0 /\ <<>> \in Seq(S)
    OBVIOUS
  <2>3. Good(0)
    BY <1>2, <2>1, <2>2
  <2> HIDE DEF Good
  <2> QED
    BY <2>3
<1>4. ASSUME NEW n \in Nat, n \in T PROVE n + 1 \in T
  <2> SUFFICES ASSUME n + 1 <= Len(s) PROVE Good(n + 1)
    <3> HIDE DEF Good
    <3> QED OBVIOUS
  <2>1. n + 1 \in 1..Len(s) /\ (n + 1) - 1 = n /\ s[n + 1] \in S
    OBVIOUS
  <2>2. f[n + 1] = IF n + 1 \in I THEN Append(f[n], s[n + 1]) ELSE f[n]
    BY <1>2, <2>1
  <2>3. Good(n)
    <3> HIDE DEF Good
    <3> QED BY <1>4, <2>1
  <2>4. PICK e : Embeds(f[n], s, At(n), e)
    BY <2>3
  <2>5. CASE n + 1 \in I
    <3>1. At(n + 1) = At(n) \cup {n + 1}
      BY <2>5
    <3>2. At(n) \subseteq 1..n /\ f[n] \in Seq(S) /\ Len(f[n]) \in 0..n
      BY <2>3
    <3>3. \E d : Embeds(Append(f[n], s[n + 1]), s, At(n) \cup {n + 1}, d)
      <4> HIDE DEF At
      <4> QED
        BY <2>1, <2>4, <3>2, EmbedsOne
    <3>4. Append(f[n], s[n + 1]) \in Seq(S) /\ Len(Append(f[n], s[n + 1])) \in 0..(n + 1)
      BY <2>1, <3>2
    <3> QED
      BY <2>2, <2>5, <3>1, <3>3, <3>4
  <2>6. CASE n + 1 \notin I
    <3>1. At(n + 1) = At(n)
      BY <2>6
    <3>2. f[n + 1] = f[n] /\ Len(f[n]) \in 0..(n + 1)
      BY <2>2, <2>3, <2>6
    <3> HIDE DEF At
    <3> QED
      BY <2>3, <3>1, <3>2
  <2> QED
    BY <2>5, <2>6
<1>5. Nat \subseteq T
  <2> HIDE DEF T
  <2> QED BY <1>3, <1>4, AllNat
<1>6. Good(Len(s)) /\ At(Len(s)) = I
  <2>1. Len(s) \in Nat /\ At(Len(s)) = I
    <3>1. I \cap (1..Len(s)) = I
      OBVIOUS
    <3> QED
      BY <3>1
  <2> HIDE DEF Good
  <2> QED
    BY <1>5, <2>1
<1> QED
  BY <1>1, <1>6

\* Nothing is kept if and only if no position is.
LEMMA KeptNone ==
    ASSUME NEW S, NEW s \in Seq(S), NEW I, I \subseteq 1..Len(s)
    PROVE  Kept(s, I) = <<>> <=> I = {}
<1>1. PICK e : Embeds(Kept(s, I), s, I, e)
  BY KeptEmbeds
<1>2. Kept(s, I) \in Seq(S) /\ Len(Kept(s, I)) \in Nat
  <2>1. Kept(s, I) \in Seq(S)
    BY KeptEmbeds
  <2> HIDE DEF Kept
  <2> QED
    BY <2>1
<1>3. Kept(s, I) = <<>> <=> Len(Kept(s, I)) = 0
  BY <1>2
<1>4. Len(Kept(s, I)) = 0 => I = {}
  BY <1>1 DEF Embeds
<1>5. Len(Kept(s, I)) # 0 => I # {}
  BY <1>1, <1>2 DEF Embeds
<1> QED
  BY <1>3, <1>4, <1>5
\* The same of positions proper.
Places(r, s, I, e) == Embeds(r, s, I, e) /\ Len(r) \in Nat /\ I \subseteq Nat \ {0}

LEMMA KeptPlaces ==
    ASSUME NEW S, NEW s \in Seq(S), NEW I, I \subseteq 1..Len(s)
    PROVE  \E e : Places(Kept(s, I), s, I, e)
<1>1. PICK e : Embeds(Kept(s, I), s, I, e)
  BY KeptEmbeds
<1>2. Len(Kept(s, I)) \in Nat
  <2>1. Kept(s, I) \in Seq(S)
    BY KeptEmbeds
  <2> HIDE DEF Kept
  <2> QED
    BY <2>1
<1>3. I \subseteq Nat \ {0}
  OBVIOUS
<1> QED
  BY <1>1, <1>2, <1>3 DEF Places

\* Neighbours that are kept stay neighbours, and nothing moves towards the end.
LEMMA EmbedsNear ==
    ASSUME NEW r, NEW s, NEW I, NEW e, Places(r, s, I, e)
    PROVE  \A k \in 1..Len(r) :
               /\ e[k] - 1 \in I => k > 1 /\ e[k - 1] = e[k] - 1
               /\ e[k] + 1 \in I => k < Len(r) /\ e[k + 1] = e[k] + 1
<1> Len(r) \in Nat
  BY DEF Places
<1> TAKE k \in 1..Len(r)
<1>1. /\ \A j \in 1..Len(r) : e[j] \in I /\ e[j] \in Nat
      /\ \A i, j \in 1..Len(r) : i < j => e[i] < e[j]
      /\ \A i \in I : \E j \in 1..Len(r) : e[j] = i
  BY DEF Places, Embeds
<1>2. ASSUME e[k] - 1 \in I PROVE k > 1 /\ e[k - 1] = e[k] - 1
  <2>1. PICK j \in 1..Len(r) : e[j] = e[k] - 1
    BY <1>1, <1>2
  <2>2. j < k
    BY <1>1, <2>1
  <2>3. k - 1 \in 1..Len(r) /\ e[k - 1] < e[k] /\ (j < k - 1 => e[j] < e[k - 1])
    BY <1>1, <2>1, <2>2
  <2>4. j = k - 1
    <3>1. e[k] \in Nat /\ e[k - 1] \in Nat /\ ~(e[j] < e[k - 1])
      BY <1>1, <2>1, <2>3
    <3> QED
      BY <2>2, <2>3, <3>1
  <2> QED
    BY <2>1, <2>2, <2>4
<1>3. ASSUME e[k] + 1 \in I PROVE k < Len(r) /\ e[k + 1] = e[k] + 1
  <2>1. PICK j \in 1..Len(r) : e[j] = e[k] + 1
    BY <1>1, <1>3
  <2>2. k < j
    BY <1>1, <2>1
  <2>3. k + 1 \in 1..Len(r) /\ e[k] < e[k + 1] /\ (k + 1 < j => e[k + 1] < e[j])
    BY <1>1, <2>1, <2>2
  <2>4. j = k + 1
    <3>1. e[k] \in Nat /\ e[k + 1] \in Nat /\ ~(e[k + 1] < e[j])
      BY <1>1, <2>1, <2>3
    <3> QED
      BY <2>2, <2>3, <3>1
  <2> QED
    BY <2>1, <2>2, <2>4
<1> QED
  BY <1>2, <1>3

LEMMA EmbedsRuns ==
    ASSUME NEW r, NEW s, NEW I, NEW e, Places(r, s, I, e)
    PROVE  \A k \in 1..Len(r) : \A d \in Nat :
               /\ (\A x \in 1..d : e[k] - x \in I) => d < k /\ e[k - d] = e[k] - d
               /\ (\A x \in 1..d : e[k] + x \in I) => k + d <= Len(r) /\ e[k + d] = e[k] + d
<1> TAKE k \in 1..Len(r)
<1> TAKE d \in Nat
<1> DEFINE Down(c) == c < k /\ e[k - c] = e[k] - c
           Up(c) == k + c <= Len(r) /\ e[k + c] = e[k] + c
           T == {c \in Nat : /\ (\A x \in 1..c : e[k] - x \in I) => Down(c)
                             /\ (\A x \in 1..c : e[k] + x \in I) => Up(c)}
<1> Len(r) \in Nat
  BY DEF Places
<1>1. \A j \in 1..Len(r) : e[j] \in Nat
  BY DEF Places, Embeds
<1>a. \A j \in 1..Len(r) :
         /\ e[j] - 1 \in I => j > 1 /\ e[j - 1] = e[j] - 1
         /\ e[j] + 1 \in I => j < Len(r) /\ e[j + 1] = e[j] + 1
  BY EmbedsNear
<1>2. 0 \in T
  BY <1>1
<1>3. ASSUME NEW c \in Nat, c \in T PROVE c + 1 \in T
  <2>0. \A x \in 1..c : x \in 1..(c + 1)
    OBVIOUS
  <2>1. ASSUME \A x \in 1..(c + 1) : e[k] - x \in I PROVE Down(c + 1)
    <3>1. Down(c)
      BY <1>3, <2>0, <2>1
    <3>2. k - c \in 1..Len(r) /\ e[k - c] - 1 = e[k] - (c + 1) /\ (k - c) - 1 = k - (c + 1)
      BY <1>1, <3>1
    <3>3. e[k] - (c + 1) \in I
      BY <2>1
    <3>4. k - c > 1 /\ e[(k - c) - 1] = e[k - c] - 1
      <4> DEFINE j == k - c
      <4>1. j \in 1..Len(r) /\ e[j] - 1 \in I
        BY <3>2, <3>3
      <4> HIDE DEF j
      <4>2. j > 1 /\ e[j - 1] = e[j] - 1
        BY <1>a, <4>1
      <4> QED
        BY <4>2 DEF j
    <3> QED
      BY <3>2, <3>4
  <2>2. ASSUME \A x \in 1..(c + 1) : e[k] + x \in I PROVE Up(c + 1)
    <3>1. Up(c)
      BY <1>3, <2>0, <2>2
    <3>2. k + c \in 1..Len(r) /\ e[k + c] + 1 = e[k] + (c + 1) /\ (k + c) + 1 = k + (c + 1)
      BY <1>1, <3>1, SMTT(30)
    <3>3. e[k] + (c + 1) \in I
      BY <2>2
    <3>4. k + c < Len(r) /\ e[(k + c) + 1] = e[k + c] + 1
      <4> DEFINE j == k + c
      <4>1. j \in 1..Len(r) /\ e[j] + 1 \in I
        BY <3>2, <3>3
      <4> HIDE DEF j
      <4>2. j < Len(r) /\ e[j + 1] = e[j] + 1
        BY <1>a, <4>1
      <4> QED
        BY <4>2 DEF j
    <3> QED
      BY <3>2, <3>4
  <2> HIDE DEF Down, Up
  <2> QED
    BY <2>1, <2>2
<1>4. d \in T
  <2> HIDE DEF T
  <2> QED
    BY <1>2, <1>3, AllNat
<1> QED
  BY <1>4

LEMMA EmbedsBelow ==
    ASSUME NEW r, NEW s, NEW I, NEW e, Places(r, s, I, e)
    PROVE  \A k \in 1..Len(r) : k <= e[k]
<1> Len(r) \in Nat
  BY DEF Places
<1>1. /\ \A j \in 1..Len(r) : e[j] \in Nat \ {0}
      /\ \A i, j \in 1..Len(r) : i < j => e[i] < e[j]
  BY DEF Places, Embeds
<1> DEFINE T == {c \in Nat : c + 1 <= Len(r) => c + 1 <= e[c + 1]}
<1>2. 0 \in T
  BY <1>1
<1>3. ASSUME NEW c \in Nat, c \in T PROVE c + 1 \in T
  <2> SUFFICES ASSUME (c + 1) + 1 <= Len(r) PROVE (c + 1) + 1 <= e[(c + 1) + 1]
    OBVIOUS
  <2>1. c + 1 \in 1..Len(r) /\ (c + 1) + 1 \in 1..Len(r) /\ c + 1 < (c + 1) + 1
    OBVIOUS
  <2>2. c + 1 <= e[c + 1] /\ e[c + 1] < e[(c + 1) + 1]
    BY <1>1, <1>3, <2>1
  <2> QED
    BY <1>1, <2>1, <2>2
<1>4. Nat \subseteq T
  <2> HIDE DEF T
  <2> QED
    BY <1>2, <1>3, AllNat
<1>5. TAKE k \in 1..Len(r)
<1>6. k - 1 \in T /\ (k - 1) + 1 = k
  BY <1>4
<1> QED
  BY <1>6

\* What is known of the places of what is kept, together.
Runs(r, s, I, e) ==
    /\ Places(r, s, I, e)
    /\ \A k \in 1..Len(r) : \A d \in Nat :
          /\ (\A x \in 1..d : e[k] - x \in I) => d < k /\ e[k - d] = e[k] - d
          /\ (\A x \in 1..d : e[k] + x \in I) => k + d <= Len(r) /\ e[k + d] = e[k] + d

LEMMA KeptRuns ==
    ASSUME NEW S, NEW s \in Seq(S), NEW I, I \subseteq 1..Len(s)
    PROVE  \E e : Runs(Kept(s, I), s, I, e)
<1>1. PICK e : Places(Kept(s, I), s, I, e)
  BY KeptPlaces
<1> DEFINE r == Kept(s, I)
<1>2. Places(r, s, I, e)
  BY <1>1
<1> HIDE DEF r
<1>3. Runs(r, s, I, e)
  BY <1>2, EmbedsRuns DEF Runs
<1> QED
  BY <1>3 DEF r

-----------------------------------------------------------------------------
\* Functions defined by recursion

\* f is what base says where the recursion ends, and elsewhere what comb makes
\* of its value at next.
RecursesAt(f, E, next, base, comb, x) ==
    f[x] = IF x \in E THEN base[x] ELSE comb[x][f[next[x]]]

\* A recursion along which a measure falls has a solution.
LEMMA RecursionExists ==
    ASSUME NEW X, NEW V, NEW E, NEW size \in [X -> Nat], NEW next \in [X -> X],
           NEW base \in [X -> V], NEW comb \in [X -> [V -> V]],
           \A x \in X : x \notin E => size[next[x]] < size[x]
    PROVE  \E f \in [X -> V] : \A x \in X : RecursesAt(f, E, next, base, comb, x)
<1> DEFINE Good(n, f) == /\ f \in [X -> V]
                         /\ \A x \in X : size[x] < n => RecursesAt(f, E, next, base, comb, x)
           T == {n \in Nat : \E f : Good(n, f)}
<1>1. 0 \in T
  <2>1. Good(0, base)
    OBVIOUS
  <2> QED
    BY <2>1
<1>2. ASSUME NEW n \in Nat, n \in T PROVE n + 1 \in T
  <2>1. PICK f : Good(n, f)
    BY <1>2
  <2> DEFINE g == [x \in X |-> IF x \in E THEN base[x] ELSE comb[x][f[next[x]]]]
  <2>2. g \in [X -> V]
    BY <2>1
  <2>3. ASSUME NEW x \in X, size[x] < n + 1 PROVE RecursesAt(g, E, next, base, comb, x)
    <3>1. CASE x \in E
      BY <3>1 DEF RecursesAt
    <3>2. CASE x \notin E
      <4>1. next[x] \in X /\ size[next[x]] < n
        <5>1. size[x] \in Nat /\ next[x] \in X /\ size[next[x]] \in Nat
          OBVIOUS
        <5> QED
          BY <2>3, <3>2, <5>1
      <4>2. f[next[x]] = g[next[x]]
        BY <2>1, <4>1 DEF RecursesAt
      <4> QED
        BY <3>2, <4>2 DEF RecursesAt
    <3> QED
      BY <3>1, <3>2
  <2> HIDE DEF g
  <2>4. Good(n + 1, g)
    BY <2>2, <2>3
  <2> HIDE DEF Good
  <2> QED
    BY <2>4
<1>3. Nat \subseteq T
  <2> HIDE DEF T
  <2> QED
    BY <1>1, <1>2, AllNat
<1> DEFINE F(n) == CHOOSE f : Good(n, f)
<1>4. \A n \in Nat : Good(n, F(n))
  <2> HIDE DEF Good
  <2> QED
    BY <1>3
<1>5. ASSUME NEW f, NEW g, NEW m \in Nat, NEW n \in Nat, Good(m, f), Good(n, g)
      PROVE  \A x \in X : size[x] < m /\ size[x] < n => f[x] = g[x]
  <2> DEFINE Q == {k \in Nat : \A x \in X : size[x] < k /\ size[x] < m /\ size[x] < n => f[x] = g[x]}
  <2>1. 0 \in Q
    OBVIOUS
  <2>2. ASSUME NEW k \in Nat, k \in Q PROVE k + 1 \in Q
    <3> SUFFICES ASSUME NEW x \in X, size[x] < k + 1, size[x] < m, size[x] < n
                 PROVE  f[x] = g[x]
      OBVIOUS
    <3>1. RecursesAt(f, E, next, base, comb, x) /\ RecursesAt(g, E, next, base, comb, x)
      BY <1>5
    <3>2. CASE x \in E
      BY <3>1, <3>2 DEF RecursesAt
    <3>3. CASE x \notin E
      <4>1. next[x] \in X /\ size[next[x]] \in Nat /\ size[x] \in Nat
        OBVIOUS
      <4>2. size[next[x]] < k /\ size[next[x]] < m /\ size[next[x]] < n
        BY <3>3, <4>1
      <4>3. f[next[x]] = g[next[x]]
        BY <2>2, <4>1, <4>2
      <4> QED
        BY <3>1, <3>3, <4>3 DEF RecursesAt
    <3> QED
      BY <3>2, <3>3
  <2>3. Nat \subseteq Q
    <3> HIDE DEF Q
    <3> QED
      BY <2>1, <2>2, AllNat
  <2>4. \A x \in X : size[x] + 1 \in Nat /\ size[x] < size[x] + 1
    OBVIOUS
  <2> QED
    BY <2>3, <2>4
<1> DEFINE h == [x \in X |-> F(size[x] + 1)[x]]
<1>6. h \in [X -> V]
  <2> SUFFICES ASSUME NEW x \in X PROVE F(size[x] + 1)[x] \in V
    OBVIOUS
  <2>1. size[x] + 1 \in Nat
    OBVIOUS
  <2>2. Good(size[x] + 1, F(size[x] + 1))
    BY <1>4, <2>1
  <2> HIDE DEF F
  <2> QED
    BY <2>2
<1>7. ASSUME NEW x \in X PROVE RecursesAt(h, E, next, base, comb, x)
  <2> DEFINE n == size[x] + 1
             k == size[next[x]] + 1
  <2>1. n \in Nat /\ size[x] < n /\ next[x] \in X /\ k \in Nat /\ size[next[x]] < k
    OBVIOUS
  <2>2. Good(n, F(n)) /\ Good(k, F(k)) /\ h[x] = F(n)[x] /\ h[next[x]] = F(k)[next[x]]
    BY <1>4, <2>1
  <2> HIDE DEF F
  <2>3. RecursesAt(F(n), E, next, base, comb, x)
    BY <2>1, <2>2
  <2>4. CASE x \in E
    BY <2>2, <2>3, <2>4 DEF RecursesAt
  <2>5. CASE x \notin E
    <3>1. size[next[x]] < n
      BY <2>5
    <3>2. F(k)[next[x]] = F(n)[next[x]]
      <4> HIDE DEF Good, n, k
      <4> QED
        BY <1>5, <2>1, <2>2, <3>1
    <3> QED
      BY <2>2, <2>3, <2>5, <3>2 DEF RecursesAt
  <2> QED
    BY <2>4, <2>5
<1> HIDE DEF h
<1> QED
  BY <1>6, <1>7

-----------------------------------------------------------------------------
\* Texts cut in two

LEMMA JoinIs ==
    ASSUME NEW S, NEW x \in Seq(S), NEW y \in Seq(S)
    PROVE  /\ x \o y \in Seq(S) /\ Len(x \o y) = Len(x) + Len(y)
           /\ Len(x) \in Nat /\ Len(y) \in Nat
           /\ \A i \in 1..Len(x) : (x \o y)[i] = x[i]
           /\ \A j \in 1..Len(y) : (x \o y)[Len(x) + j] = y[j]
<1>1. /\ x \o y \in Seq(S) /\ Len(x \o y) = Len(x) + Len(y)
      /\ \A i \in 1..(Len(x) + Len(y)) : (x \o y)[i] = IF i <= Len(x) THEN x[i] ELSE y[i - Len(x)]
  BY ConcatProperties
<1>2. Len(x) \in Nat /\ Len(y) \in Nat
  OBVIOUS
<1>3. \A i \in 1..Len(x) : i \in 1..(Len(x) + Len(y)) /\ i <= Len(x)
  BY <1>2
<1>4. \A j \in 1..Len(y) : /\ Len(x) + j \in 1..(Len(x) + Len(y)) /\ ~(Len(x) + j <= Len(x))
                           /\ (Len(x) + j) - Len(x) = j
  BY <1>2
<1>5. \A j \in 1..Len(y) : (x \o y)[Len(x) + j] = y[j]
  <2> TAKE j \in 1..Len(y)
  <2>1. (x \o y)[Len(x) + j] = y[(Len(x) + j) - Len(x)]
    BY <1>1, <1>4
  <2> QED
    BY <1>4, <2>1
<1> QED
  BY <1>1, <1>2, <1>3, <1>5

LEMMA OnwardIs ==
    ASSUME NEW S, NEW x \in Seq(S), NEW i \in 1..(Len(x) + 1)
    PROVE  /\ SubSeq(x, i, Len(x)) \in Seq(S) /\ Len(SubSeq(x, i, Len(x))) = Len(x) + 1 - i
           /\ \A j \in 1..Len(SubSeq(x, i, Len(x))) : SubSeq(x, i, Len(x))[j] = x[i + j - 1]
<1>1. i \in Int /\ Len(x) \in Int /\ \A k \in i..Len(x) : x[k] \in S
  OBVIOUS
<1>2. /\ SubSeq(x, i, Len(x)) \in Seq(S)
      /\ Len(SubSeq(x, i, Len(x))) = IF i <= Len(x) THEN Len(x) - i + 1 ELSE 0
      /\ \A j \in 1..(Len(x) - i + 1) : SubSeq(x, i, Len(x))[j] = x[i + j - 1]
  BY <1>1, SubSeqProperties
<1>3. Len(SubSeq(x, i, Len(x))) = Len(x) + 1 - i
  BY <1>2
<1> QED
  BY <1>2, <1>3

LEMMA UptoIs ==
    ASSUME NEW S, NEW x \in Seq(S), NEW i \in 1..(Len(x) + 1)
    PROVE  /\ SubSeq(x, 1, i - 1) \in Seq(S) /\ Len(SubSeq(x, 1, i - 1)) = i - 1
           /\ \A j \in 1..(i - 1) : SubSeq(x, 1, i - 1)[j] = x[j]
<1>1. 1 \in Int /\ i - 1 \in Int /\ \A k \in 1..(i - 1) : x[k] \in S
  OBVIOUS
<1>2. /\ SubSeq(x, 1, i - 1) \in Seq(S)
      /\ Len(SubSeq(x, 1, i - 1)) = IF 1 <= i - 1 THEN (i - 1) - 1 + 1 ELSE 0
      /\ \A j \in 1..((i - 1) - 1 + 1) : SubSeq(x, 1, i - 1)[j] = x[1 + j - 1]
  BY <1>1, SubSeqProperties
<1>3. Len(SubSeq(x, 1, i - 1)) = i - 1
  BY <1>2
<1>4. \A j \in 1..(i - 1) : SubSeq(x, 1, i - 1)[j] = x[j]
  <2> TAKE j \in 1..(i - 1)
  <2>1. j \in 1..((i - 1) - 1 + 1) /\ 1 + j - 1 = j
    OBVIOUS
  <2>2. SubSeq(x, 1, i - 1)[j] = x[1 + j - 1]
    BY <1>2, <2>1
  <2> QED
    BY <2>1, <2>2
<1> QED
  BY <1>2, <1>3, <1>4

\* A cut in the first part of a text, and one in the second.
LEMMA CutFirst ==
    ASSUME NEW S, NEW x \in Seq(S), NEW y \in Seq(S), NEW i \in 1..(Len(x) + 1)
    PROVE  SubSeq(x \o y, i, Len(x \o y)) = SubSeq(x, i, Len(x)) \o y /\ SubSeq(x \o y, 1, i - 1) = SubSeq(x, 1, i - 1)
<1> DEFINE z == x \o y
<1>1. /\ z \in Seq(S) /\ Len(z) = Len(x) + Len(y) /\ Len(x) \in Nat /\ Len(y) \in Nat
      /\ \A k \in 1..Len(x) : z[k] = x[k]
      /\ \A j \in 1..Len(y) : z[Len(x) + j] = y[j]
  BY JoinIs
<1> HIDE DEF z
<1>2. i \in 1..(Len(z) + 1)
  BY <1>1
<1>3. SubSeq(z, i, Len(z)) = SubSeq(x, i, Len(x)) \o y
  <2> DEFINE f == SubSeq(z, i, Len(z))
             g == SubSeq(x, i, Len(x))
             h == g \o y
  <2>1. f \in Seq(S) /\ Len(f) = Len(z) + 1 - i /\ \A j \in 1..Len(f) : f[j] = z[i + j - 1]
    BY <1>1, <1>2, OnwardIs
  <2>2. g \in Seq(S) /\ Len(g) = Len(x) + 1 - i /\ \A j \in 1..Len(g) : g[j] = x[i + j - 1]
    BY OnwardIs
  <2> HIDE DEF f, g
  <2>3. /\ h \in Seq(S) /\ Len(h) = Len(g) + Len(y)
        /\ \A k \in 1..Len(g) : h[k] = g[k]
        /\ \A j \in 1..Len(y) : h[Len(g) + j] = y[j]
    <3>1. g \in Seq(S) /\ y \in Seq(S)
      BY <2>2
    <3> QED
      BY <3>1, JoinIs
  <2> HIDE DEF h
  <2>4. Len(f) = Len(h)
    <3>1. Len(z) = Len(x) + Len(y) /\ Len(x) \in Nat /\ Len(y) \in Nat
      BY <1>1
    <3>2. Len(f) = Len(z) + 1 - i
      BY <2>1
    <3>3. Len(g) = Len(x) + 1 - i /\ Len(h) = Len(g) + Len(y)
      BY <2>2, <2>3
    <3> QED
      BY <3>1, <3>2, <3>3
  <2>5. ASSUME NEW j \in 1..Len(f) PROVE f[j] = h[j]
    <3>0. f[j] = z[i + j - 1]
      BY <2>1
    <3>1. CASE j <= Len(g)
      <4>1. j \in 1..Len(g) /\ i + j - 1 \in 1..Len(x)
        BY <1>1, <2>2, <3>1
      <4> QED
        BY <1>1, <2>2, <2>3, <3>0, <4>1
    <3>2. CASE j > Len(g)
      <4> DEFINE d == j - Len(g)
      <4>1. d \in 1..Len(y) /\ Len(g) + d = j /\ Len(x) + d = i + j - 1
        BY <1>1, <2>1, <2>2, <3>2
      <4> HIDE DEF d
      <4>2. h[j] = y[d] /\ z[i + j - 1] = y[d]
        <5>1. h[Len(g) + d] = y[d] /\ z[Len(x) + d] = y[d]
          BY <1>1, <2>3, <4>1
        <5> QED
          BY <4>1, <5>1
      <4> QED
        BY <3>0, <4>2
    <3> QED
      BY <2>1, <2>2, <1>1, <3>1, <3>2
  <2>6. f = h
    BY <2>1, <2>3, <2>4, <2>5, SeqEqual
  <2> QED
    BY <2>6 DEF f, g, h
<1>4. SubSeq(z, 1, i - 1) = SubSeq(x, 1, i - 1)
  <2> DEFINE f == SubSeq(z, 1, i - 1)
             g == SubSeq(x, 1, i - 1)
  <2>1. f \in Seq(S) /\ Len(f) = i - 1 /\ \A j \in 1..(i - 1) : f[j] = z[j]
    BY <1>1, <1>2, UptoIs
  <2>2. g \in Seq(S) /\ Len(g) = i - 1 /\ \A j \in 1..(i - 1) : g[j] = x[j]
    BY UptoIs
  <2>3. \A j \in 1..(i - 1) : j \in 1..Len(x)
    BY <1>1
  <2> HIDE DEF f, g
  <2>4. \A j \in 1..Len(f) : f[j] = g[j]
    BY <1>1, <2>1, <2>2, <2>3
  <2>5. f = g
    BY <2>1, <2>2, <2>4, SeqEqual
  <2> QED
    BY <2>5 DEF f, g
<1> QED
  BY <1>3, <1>4 DEF z

LEMMA CutSecond ==
    ASSUME NEW S, NEW x \in Seq(S), NEW y \in Seq(S), NEW j \in 1..(Len(y) + 1)
    PROVE  /\ SubSeq(x \o y, Len(x) + j, Len(x \o y)) = SubSeq(y, j, Len(y))
           /\ SubSeq(x \o y, 1, (Len(x) + j) - 1) = x \o SubSeq(y, 1, j - 1)
<1> DEFINE z == x \o y
           n == Len(x)
<1>1. /\ z \in Seq(S) /\ Len(z) = n + Len(y) /\ n \in Nat /\ Len(y) \in Nat
      /\ \A k \in 1..n : z[k] = x[k]
      /\ \A k \in 1..Len(y) : z[n + k] = y[k]
  BY JoinIs
<1> HIDE DEF z, n
<1>2. n + j \in 1..(Len(z) + 1)
  BY <1>1
<1>3. SubSeq(z, n + j, Len(z)) = SubSeq(y, j, Len(y))
  <2> DEFINE f == SubSeq(z, n + j, Len(z))
             g == SubSeq(y, j, Len(y))
  <2>1. /\ f \in Seq(S) /\ Len(f) = Len(z) + 1 - (n + j)
        /\ \A k \in 1..Len(f) : f[k] = z[n + j + k - 1]
    BY <1>1, <1>2, OnwardIs
  <2>2. g \in Seq(S) /\ Len(g) = Len(y) + 1 - j /\ \A k \in 1..Len(g) : g[k] = y[j + k - 1]
    BY OnwardIs
  <2> HIDE DEF f, g
  <2>3. Len(f) = Len(g)
    BY <1>1, <2>1, <2>2
  <2>4. ASSUME NEW k \in 1..Len(f) PROVE f[k] = g[k]
    <3> DEFINE d == j + k - 1
    <3>1. d \in 1..Len(y) /\ n + d = n + j + k - 1
      BY <1>1, <2>1
    <3>2. f[k] = z[n + j + k - 1] /\ g[k] = y[d]
      BY <2>1, <2>2, <2>3
    <3> HIDE DEF d
    <3> QED
      BY <1>1, <3>1, <3>2
  <2>5. f = g
    BY <2>1, <2>2, <2>3, <2>4, SeqEqual
  <2> QED
    BY <2>5 DEF f, g
<1>4. SubSeq(z, 1, (n + j) - 1) = x \o SubSeq(y, 1, j - 1)
  <2> DEFINE f == SubSeq(z, 1, (n + j) - 1)
             g == SubSeq(y, 1, j - 1)
             h == x \o g
  <2>1. /\ f \in Seq(S) /\ Len(f) = n + j - 1
        /\ \A k \in 1..(n + j - 1) : f[k] = z[k]
    BY <1>1, <1>2, UptoIs
  <2>2. g \in Seq(S) /\ Len(g) = j - 1 /\ \A k \in 1..(j - 1) : g[k] = y[k]
    BY UptoIs
  <2> HIDE DEF f, g
  <2>3. /\ h \in Seq(S) /\ Len(h) = n + Len(g)
        /\ \A k \in 1..n : h[k] = x[k]
        /\ \A k \in 1..Len(g) : h[n + k] = g[k]
    <3>1. g \in Seq(S) /\ x \in Seq(S)
      BY <2>2
    <3> QED
      BY <3>1, JoinIs DEF n
  <2> HIDE DEF h
  <2>4. Len(f) = Len(h)
    BY <1>1, <2>1, <2>2, <2>3
  <2>5. ASSUME NEW k \in 1..Len(f) PROVE f[k] = h[k]
    <3>0. f[k] = z[k]
      BY <2>1
    <3>1. CASE k <= n
      <4>1. k \in 1..n
        BY <1>1, <3>1
      <4> QED
        BY <1>1, <2>3, <3>0, <4>1
    <3>2. CASE k > n
      <4> DEFINE d == k - n
      <4>1. d \in 1..(j - 1) /\ d \in 1..Len(y) /\ d \in 1..Len(g) /\ n + d = k
        BY <1>1, <2>1, <2>2, <3>2
      <4> HIDE DEF d
      <4>2. h[n + d] = g[d] /\ g[d] = y[d] /\ z[n + d] = y[d]
        BY <1>1, <2>2, <2>3, <4>1
      <4> QED
        BY <3>0, <4>1, <4>2
    <3> QED
      BY <1>1, <2>1, <3>1, <3>2
  <2>6. f = h
    BY <2>1, <2>3, <2>4, <2>5, SeqEqual
  <2> QED
    BY <2>6 DEF f, g, h
<1> QED
  BY <1>3, <1>4 DEF z, n

\* A text is what is before a place and what is from it on.
LEMMA CutJoins ==
    ASSUME NEW S, NEW x \in Seq(S), NEW i \in 1..(Len(x) + 1)
    PROVE  SubSeq(x, 1, i - 1) \o SubSeq(x, i, Len(x)) = x
<1>1. 1 \in 1..(Len(x) + 1) /\ i - 1 \in (1 - 1)..Len(x) /\ Len(x) \in (i - 1)..Len(x) /\ i - 1 + 1 = i
  OBVIOUS
<1>2. SubSeq(x, 1, i - 1) \o SubSeq(x, i - 1 + 1, Len(x)) = SubSeq(x, 1, Len(x))
  BY <1>1, ConcatAdjacentSubSeq
<1>3. SubSeq(x, 1, Len(x)) = x
  BY SubSeqFull
<1> QED
  BY <1>1, <1>2, <1>3
=============================================================================
