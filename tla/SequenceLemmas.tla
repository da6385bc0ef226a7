--------------------------- MODULE SequenceLemmas ---------------------------
(***************************************************************************)
(* Facts about numbers, sequences and recursive functions that the proofs  *)
(* share.  Induction and recursion are stated with sets and functions, not *)
(* with operators, so that they can be used for what a model defines.      *)
(***************************************************************************)
EXTENDS Integers, SequencesExt, Selection, SequenceTheorems,
        FiniteSetTheorems, WellFoundedInduction, TLAPS

-----------------------------------------------------------------------------
\* Numbers

\* A set of natural numbers has a least element.
LEMMA Least ==
  ASSUME NEW S \in SUBSET Nat, S # {}
  PROVE  \E x \in S : \A y \in S : x <= y
<1> DEFINE R == OpToRel(<, Nat)
<1>1. IsWellFoundedOn(R, Nat)
  BY NatLessThanWellFounded
<1>2. PICK x \in S : \A y \in S : <<y, x>> \notin R
  <2> HIDE DEF R
  <2> QED
    BY <1>1, WFMin
<1>3. \A y \in S : ~(y < x)
  BY <1>2 DEF OpToRel
<1>4. QED
  BY <1>3

\* A property of 0 that passes on to the next number holds of all.
LEMMA Induction ==
  ASSUME NEW P, 0 \in P, \A n \in Nat : n \in P => n + 1 \in P
  PROVE  Nat \subseteq P
<1> SUFFICES ASSUME Nat \ P # {} PROVE FALSE
  OBVIOUS
<1>1. PICK x \in Nat \ P : \A y \in Nat \ P : x <= y
  BY Least
<1>2. x # 0 /\ x - 1 \in Nat /\ x - 1 \notin Nat \ P
  BY <1>1
<1>3. QED
  BY <1>2

\* Min and Max of the library choose from the set.
LEMMA MinIsLeast ==
  ASSUME NEW S \in SUBSET Nat, S # {}
  PROVE  Min(S) \in S /\ \A y \in S : Min(S) <= y
<1>1. PICK x \in S : \A y \in S : x <= y
  BY Least
<1>2. QED
  BY <1>1 DEF Min

LEMMA MaxIsGreatest ==
  ASSUME NEW n \in Nat, NEW S \in SUBSET (0..n), S # {}
  PROVE  Max(S) \in S /\ \A y \in S : y <= Max(S)
<1> DEFINE T == {n - x : x \in S}
<1>1. T \in SUBSET Nat /\ T # {}
  <2>1. \A x \in S : n - x \in Nat
    OBVIOUS
  <2>2. QED
    BY <2>1
<1>2. PICK t \in T : \A y \in T : t <= y
  <2> HIDE DEF T
  <2> QED
    BY <1>1, Least
<1>3. PICK x \in S : t = n - x
  BY <1>2
<1>4. \A y \in S : y <= x
  BY <1>2, <1>3
<1>5. QED
  BY <1>4 DEF Max

-----------------------------------------------------------------------------
\* Recursive functions

\* A step takes a position and a value to the next value; f starts with a and
\* goes on from value to value.
Steps(V) == [Nat \X V -> V]
Iterates(f, a, step) ==
  f[0] = a /\ \A n \in Nat : f[n + 1] = step[<<n, f[n]>>]

\* There is such a function for every start and every step.
LEMMA Recursion ==
  ASSUME NEW V, NEW a \in V, NEW step \in Steps(V)
  PROVE  \E f \in [Nat -> V] : Iterates(f, a, step)
<1> USE DEF Steps, Iterates
<1> DEFINE Starts(n, g) == /\ g \in [0..n -> V] /\ g[0] = a
                           /\ \A i \in 0..(n - 1) :
                                g[i + 1] = step[<<i, g[i]>>]
           P == {n \in Nat : \E g : Starts(n, g)}
<1>1. 0 \in P
  <2>1. Starts(0, [i \in 0..0 |-> a])
    OBVIOUS
  <2>2. QED
    BY <2>1
<1>2. ASSUME NEW n \in Nat, n \in P PROVE n + 1 \in P
  <2>1. PICK g : Starts(n, g)
    BY <1>2
  <2> DEFINE h == [i \in 0..(n + 1) |->
                     IF i = n + 1 THEN step[<<n, g[n]>>] ELSE g[i]]
  <2>2. step[<<n, g[n]>>] \in V /\ \A i \in 0..n : g[i] \in V
    BY <2>1
  <2>3. h \in [0..(n + 1) -> V] /\ h[0] = a
    BY <2>1, <2>2
  <2>4. ASSUME NEW i \in 0..n PROVE h[i + 1] = step[<<i, h[i]>>]
    <3>1. h[i] = g[i]
      OBVIOUS
    <3>2. CASE i = n
      <4>1. h[n + 1] = step[<<n, g[n]>>]
        OBVIOUS
      <4> HIDE DEF h
      <4>2. QED
        BY <3>1, <3>2, <4>1
    <3>3. CASE i # n
      <4>1. i \in 0..(n - 1) /\ i + 1 \in 0..(n + 1) /\ i + 1 # n + 1
        BY <3>3
      <4>2. QED
        BY <2>1, <3>1, <4>1
    <3>4. QED
      BY <3>2, <3>3
  <2>5. Starts(n + 1, h)
    <3>1. (n + 1) - 1 = n
      OBVIOUS
    <3> HIDE DEF h
    <3>2. QED
      BY <2>3, <2>4, <3>1
  <2>6. QED
    <3> HIDE DEF h, Starts
    <3> QED
      BY <2>5
<1>3. Nat \subseteq P
  <2> HIDE DEF P
  <2> QED
    BY <1>1, <1>2, Induction
<1>4. ASSUME NEW m \in Nat, NEW n \in Nat, NEW g, NEW h,
             Starts(m, g), Starts(n, h), m <= n
      PROVE  \A i \in 0..m : g[i] = h[i]
  <2> DEFINE Q == {i \in Nat : i <= m => g[i] = h[i]}
  <2>1. 0 \in Q
    BY <1>4
  <2>2. ASSUME NEW i \in Nat, i \in Q PROVE i + 1 \in Q
    <3> SUFFICES ASSUME i + 1 <= m PROVE g[i + 1] = h[i + 1]
      OBVIOUS
    <3>1. i \in 0..(m - 1) /\ i \in 0..(n - 1) /\ g[i] = h[i]
      BY <1>4, <2>2
    <3>2. QED
      BY <1>4, <3>1
  <2>3. Nat \subseteq Q
    <3> HIDE DEF Q
    <3> QED
      BY <2>1, <2>2, Induction
  <2>4. QED
    BY <2>3
<1> DEFINE G(n) == CHOOSE g : Starts(n, g)
           f == [n \in Nat |-> G(n)[n]]
<1>5. ASSUME NEW n \in Nat PROVE Starts(n, G(n))
  <2>1. \E g : Starts(n, g)
    BY <1>3
  <2> HIDE DEF Starts
  <2>2. QED
    BY <2>1
<1> HIDE DEF G
<1>6. f \in [Nat -> V] /\ f[0] = a
  <2>1. \A n \in Nat : G(n)[n] \in V /\ G(0)[0] = a
    BY <1>5
  <2>2. QED
    BY <2>1
<1>7. ASSUME NEW n \in Nat PROVE f[n + 1] = step[<<n, f[n]>>]
  <2>1. Starts(n, G(n)) /\ Starts(n + 1, G(n + 1))
    <3> HIDE DEF Starts
    <3> QED
      BY <1>5
  <2>2. G(n)[n] = G(n + 1)[n]
    <3> HIDE DEF Starts
    <3> QED
      BY <2>1, <1>4
  <2>3. G(n + 1)[n + 1] = step[<<n, G(n + 1)[n]>>]
    <3>1. n \in 0..((n + 1) - 1)
      OBVIOUS
    <3>2. QED
      BY <2>1, <3>1
  <2>4. f[n] = G(n)[n] /\ f[n + 1] = G(n + 1)[n + 1]
    OBVIOUS
  <2>5. QED
    BY <2>2, <2>3, <2>4
<1>8. QED
  BY <1>6, <1>7

\* The recursive function that takes the function next again and again, over
\* all numbers or the first ones.
Iterate(D, a, next) ==
  LET f[n \in D] == IF n = 0 THEN a ELSE next[f[n - 1]]
  IN  f

Maps(V) == [V -> V]
Initial(D) == D \subseteq Nat /\ 0 \in D /\ \A n \in D : n = 0 \/ n - 1 \in D

IsIterate(f, D, V, a, next) ==
  /\ f \in [D -> V] /\ f[0] = a
  /\ \A n \in D : n # 0 => f[n] = next[f[n - 1]]

\* It is what its definition says.
LEMMA Iteration ==
  ASSUME NEW D, Initial(D), NEW V, NEW a \in V, NEW next \in Maps(V)
  PROVE  IsIterate(Iterate(D, a, next), D, V, a, next)
<1> USE DEF Initial, Maps, IsIterate
<1> DEFINE f == Iterate(D, a, next)
<1> DEFINE Is(g) == g = [n \in D |-> IF n = 0 THEN a ELSE next[g[n - 1]]]
           step == [p \in Nat \X V |-> next[p[2]]]
<1>1. step \in Steps(V) /\ \A n \in Nat, v \in V : step[<<n, v>>] = next[v]
  BY DEF Steps
<1>2. PICK h \in [Nat -> V] : Iterates(h, a, step)
  <2> HIDE DEF step
  <2> QED
    BY <1>1, Recursion
<1>3. h[0] = a /\ \A n \in Nat : h[n + 1] = next[h[n]]
  BY <1>1, <1>2 DEF Iterates
<1> DEFINE k == [n \in D |-> h[n]]
<1>4. ASSUME NEW n \in D
      PROVE  k[n] = IF n = 0 THEN a ELSE next[k[n - 1]]
  <2>1. CASE n = 0
    BY <1>3, <2>1
  <2>2. CASE n # 0
    <3>1. n - 1 \in Nat /\ (n - 1) + 1 = n
      BY <2>2
    <3>2. n - 1 \in D /\ h[n] = next[h[n - 1]]
      BY <1>3, <3>1
    <3>3. QED
      BY <2>2, <3>2
  <2>3. QED
    BY <2>1, <2>2
<1>5. Is(k)
  <2>1. k = [n \in D |-> k[n]]
    OBVIOUS
  <2> HIDE DEF k
  <2>2. QED
    BY <1>4, <2>1
<1>6. Is(f)
  <2> HIDE DEF Is, k, f
  <2>1. f = CHOOSE g : Is(g)
    BY DEF Is, f, Iterate
  <2>2. QED
    BY <1>5, <2>1
<1> HIDE DEF f
<1>7. f[0] = a /\ \A n \in D : n # 0 => f[n] = next[f[n - 1]]
  BY <1>6
<1>8. f \in [D -> V]
  <2> DEFINE P == {n \in Nat : n \in D => f[n] \in V}
  <2>1. 0 \in P
    BY <1>7
  <2>2. ASSUME NEW n \in Nat, n \in P PROVE n + 1 \in P
    <3>1. (n + 1) - 1 = n /\ n + 1 # 0
      OBVIOUS
    <3>2. QED
      BY <1>7, <2>2, <3>1
  <2>3. Nat \subseteq P
    <3> HIDE DEF P
    <3> QED
      BY <2>1, <2>2, Induction
  <2>4. \A n \in D : f[n] \in V
    BY <2>3
  <2>5. f = [n \in D |-> f[n]]
    BY <1>6
  <2>6. QED
    BY <2>4, <2>5
<1>9. QED
  BY <1>7, <1>8 DEF f

\* Two functions that start and step alike are the same.
LEMMA Unique ==
  ASSUME NEW f, NEW g, NEW n \in Nat, f[0] = g[0],
         \A i \in 0..(n - 1) : f[i] = g[i] => f[i + 1] = g[i + 1]
  PROVE  \A i \in 0..n : f[i] = g[i]
<1> DEFINE P == {i \in Nat : i <= n => f[i] = g[i]}
<1>1. 0 \in P
  OBVIOUS
<1>2. ASSUME NEW i \in Nat, i \in P PROVE i + 1 \in P
  BY <1>2
<1>3. Nat \subseteq P
  <2> HIDE DEF P
  <2> QED
    BY <1>1, <1>2, Induction
<1>4. QED
  BY <1>3

-----------------------------------------------------------------------------
\* Sequences

\* What a sequence has, and its head and its tail.
LEMMA HeadAndTail ==
  ASSUME NEW S, NEW s \in Seq(S), s # <<>>
  PROVE  /\ Head(s) \in S /\ Head(s) \in ToSet(s) /\ Tail(s) \in Seq(S)
         /\ ToSet(s) = {Head(s)} \cup ToSet(Tail(s))
         /\ ToSet(s) \subseteq S
<1> DEFINE t == Tail(s)
<1>1. /\ t \in Seq(S) /\ Len(t) = Len(s) - 1 /\ Len(s) \in Nat \ {0}
      /\ \A i \in 1..Len(t) : t[i] = s[i + 1]
      /\ DOMAIN s = 1..Len(s) /\ DOMAIN t = 1..Len(t)
      /\ Head(s) = s[1] /\ Head(s) \in S
  BY HeadTailProperties, EmptySeq, LenProperties
<1> HIDE DEF t
<1>2. Head(s) \in ToSet(s) /\ ToSet(s) \subseteq S
  BY <1>1 DEF ToSet
<1>3. \A i \in 1..Len(s) : s[i] = Head(s) \/ s[i] \in ToSet(t)
  <2> SUFFICES ASSUME NEW i \in 1..Len(s), i # 1 PROVE s[i] \in ToSet(t)
    BY <1>1
  <2>1. i - 1 \in 1..Len(t) /\ t[i - 1] = s[i]
    BY <1>1
  <2>2. QED
    BY <1>1, <2>1 DEF ToSet
<1>4. \A i \in 1..Len(t) : t[i] \in ToSet(s)
  BY <1>1 DEF ToSet
<1>5. QED
  BY <1>1, <1>2, <1>3, <1>4 DEF ToSet, t

\* The empty sequence has no elements.
LEMMA NothingIn == ToSet(<<>>) = {} /\ <<>> \in Seq(ToSet(<<>>))
  BY DEF ToSet

\* A sequence over a set has its elements from there.
LEMMA ElementsOf ==
  ASSUME NEW S, NEW s \in Seq(S)
  PROVE  ToSet(s) \subseteq S
<1>1. DOMAIN s = 1..Len(s) /\ \A i \in 1..Len(s) : s[i] \in S
  BY LenProperties, ElementOfSeq
<1>2. QED
  BY <1>1 DEF ToSet

\* Append adds one element.
LEMMA AppendAdds ==
  ASSUME NEW S, NEW s \in Seq(S), NEW e \in S
  PROVE  /\ Append(s, e) \in Seq(S)
         /\ ToSet(Append(s, e)) = ToSet(s) \cup {e}
<1> DEFINE t == Append(s, e)
<1>1. /\ t \in Seq(S) /\ Len(t) = Len(s) + 1 /\ Len(s) \in Nat
      /\ \A i \in 1..Len(s) : t[i] = s[i]
      /\ t[Len(s) + 1] = e
      /\ DOMAIN s = 1..Len(s) /\ DOMAIN t = 1..Len(t)
  BY AppendProperties, LenProperties
<1> HIDE DEF t
<1>2. \A x \in ToSet(t) : x \in ToSet(s) \cup {e}
  BY <1>1 DEF ToSet
<1>3. \A x \in ToSet(s) \cup {e} : x \in ToSet(t)
  BY <1>1 DEF ToSet
<1>4. QED
  BY <1>1, <1>2, <1>3 DEF t

\* Concatenation has the elements of both.
LEMMA ConcatAdds ==
  ASSUME NEW S, NEW s \in Seq(S), NEW t \in Seq(S)
  PROVE  s \o t \in Seq(S) /\ ToSet(s \o t) = ToSet(s) \cup ToSet(t)
<1> DEFINE u == s \o t
<1>1. /\ u \in Seq(S) /\ Len(u) = Len(s) + Len(t)
      /\ Len(s) \in Nat /\ Len(t) \in Nat
      /\ \A i \in 1..(Len(s) + Len(t)) :
           u[i] = IF i <= Len(s) THEN s[i] ELSE t[i - Len(s)]
      /\ DOMAIN s = 1..Len(s) /\ DOMAIN t = 1..Len(t) /\ DOMAIN u = 1..Len(u)
  BY ConcatProperties, LenProperties
<1> HIDE DEF u
<1>2. \A i \in 1..Len(u) : u[i] \in ToSet(s) \cup ToSet(t)
  <2> SUFFICES ASSUME NEW i \in 1..Len(u), i > Len(s)
               PROVE  u[i] \in ToSet(t)
    BY <1>1 DEF ToSet
  <2>1. i - Len(s) \in 1..Len(t) /\ u[i] = t[i - Len(s)]
    BY <1>1
  <2>2. QED
    BY <1>1, <2>1 DEF ToSet
<1>3. \A i \in 1..Len(s) : s[i] \in ToSet(u)
  BY <1>1 DEF ToSet
<1>4. \A i \in 1..Len(t) : t[i] \in ToSet(u)
  <2> SUFFICES ASSUME NEW i \in 1..Len(t) PROVE t[i] \in ToSet(u)
    OBVIOUS
  <2>1. i + Len(s) \in 1..Len(u) /\ u[i + Len(s)] = t[i]
    BY <1>1
  <2>2. QED
    BY <1>1, <2>1 DEF ToSet
<1>5. QED
  BY <1>1, <1>2, <1>3, <1>4 DEF ToSet, u

\* A concatenation of sequences is built up one sequence at a time.
LEMMA Flattening ==
  ASSUME NEW S, NEW seqs \in Seq(Seq(S)), seqs # <<>>
  PROVE  \E f : /\ f[1] = seqs[1]
                /\ \A n \in Nat : n + 2 \in 1..Len(seqs) =>
                     f[n + 2] = f[n + 1] \o seqs[n + 2]
                /\ FlattenSeq(seqs) = f[Len(seqs)]
<1> DEFINE N == Len(seqs)
           V == Seq(S)
           Is(f) == f = [i \in 1..N |->
                          IF i = 1 THEN seqs[i] ELSE f[i - 1] \o seqs[i]]
           flatten == CHOOSE f : Is(f)
<1>1. N \in Nat /\ N # 0 /\ DOMAIN seqs = 1..N /\ \A i \in 1..N : seqs[i] \in V
  BY LenProperties, ElementOfSeq, EmptySeq
<1>2. FlattenSeq(seqs) = flatten[N]
  BY <1>1 DEF FlattenSeq
<1>3. Is(flatten)
  <2> DEFINE step == [p \in Nat \X V |->
                       IF p[1] + 2 \in 1..N THEN p[2] \o seqs[p[1] + 2]
                       ELSE p[2]]
  <2>1. \A n \in Nat, v \in V :
          step[<<n, v>>] = IF n + 2 \in 1..N THEN v \o seqs[n + 2] ELSE v
    OBVIOUS
  <2>2. step \in Steps(V)
    BY <1>1, ConcatProperties DEF Steps
  <2>3. seqs[1] \in V
    BY <1>1
  <2> HIDE DEF step, V
  <2>4. PICK f \in [Nat -> V] :
          f[0] = seqs[1] /\ \A n \in Nat : f[n + 1] = step[<<n, f[n]>>]
    <3> DEFINE a == seqs[1]
    <3>1. a \in V
      BY <2>3
    <3> HIDE DEF a
    <3>2. \E f \in [Nat -> V] : Iterates(f, a, step)
      BY <2>2, <3>1, Recursion
    <3>3. QED
      BY <3>2 DEF a, Iterates
  <2> DEFINE g == [i \in 1..N |-> f[i - 1]]
  <2>5. ASSUME NEW i \in 1..N
        PROVE  g[i] = IF i = 1 THEN seqs[i] ELSE g[i - 1] \o seqs[i]
    <3>1. CASE i = 1
      BY <2>4, <3>1
    <3>2. CASE i # 1
      <4>1. /\ i - 2 \in Nat /\ (i - 2) + 1 = i - 1 /\ (i - 2) + 2 = i
            /\ i - 1 \in 1..N /\ (i - 1) - 1 = i - 2
        BY <3>2, <1>1
      <4>2. f[i - 2] \in V /\ f[i - 1] = step[<<i - 2, f[i - 2]>>]
        BY <2>4, <4>1
      <4>3. f[i - 1] = f[i - 2] \o seqs[i]
        BY <2>1, <4>1, <4>2
      <4>4. g[i] = f[i - 1] /\ g[i - 1] = f[i - 2]
        BY <4>1
      <4>5. QED
        BY <3>2, <4>3, <4>4
    <3>3. QED
      BY <3>1, <3>2
  <2>6. Is(g)
    <3>1. g = [i \in 1..N |-> g[i]]
      OBVIOUS
    <3> HIDE DEF g
    <3>2. QED
      BY <2>5, <3>1
  <2> HIDE DEF Is, g
  <2>7. QED
    BY <2>6
<1> HIDE DEF flatten
<1>4. flatten[1] = seqs[1]
  BY <1>1, <1>3
<1>5. ASSUME NEW n \in Nat, n + 2 \in 1..N
      PROVE  flatten[n + 2] = flatten[n + 1] \o seqs[n + 2]
  <2>1. n + 2 # 1 /\ (n + 2) - 1 = n + 1
    OBVIOUS
  <2>2. QED
    BY <1>3, <1>5, <2>1
<1>6. QED
  BY <1>2, <1>4, <1>5

\* The elements of a concatenation of sequences are those of the sequences.
LEMMA Flattened ==
  ASSUME NEW S, NEW seqs \in Seq(Seq(S))
  PROVE  /\ FlattenSeq(seqs) \in Seq(S)
         /\ ToSet(FlattenSeq(seqs)) =
              UNION {ToSet(seqs[i]) : i \in DOMAIN seqs}
<1> DEFINE N == Len(seqs)
           V == Seq(S)
<1>1. N \in Nat /\ DOMAIN seqs = 1..N /\ \A i \in 1..N : seqs[i] \in V
  BY LenProperties, ElementOfSeq
<1>2. CASE seqs = <<>>
  <2>1. FlattenSeq(seqs) = <<>>
    BY <1>2 DEF FlattenSeq
  <2>2. ToSet(<<>>) = {} /\ DOMAIN seqs = {}
    BY <1>2 DEF ToSet
  <2>3. QED
    BY <2>1, <2>2
<1>3. CASE seqs # <<>>
  <2>1. PICK f : /\ f[1] = seqs[1]
                 /\ \A n \in Nat : n + 2 \in 1..N =>
                      f[n + 2] = f[n + 1] \o seqs[n + 2]
                 /\ FlattenSeq(seqs) = f[N]
    BY <1>3, Flattening
  <2>2. N # 0
    BY <1>3, EmptySeq
  <2> DEFINE P == {n \in Nat : n + 1 \in 1..N =>
                     /\ f[n + 1] \in V
                     /\ ToSet(f[n + 1]) =
                          UNION {ToSet(seqs[i]) : i \in 1..(n + 1)}}
  <2> HIDE DEF V
  <2>3. 0 \in P
    <3>1. 1..1 = {1} /\ 0 + 1 = 1 /\ seqs[1] \in V
      BY <1>1, <2>2
    <3>2. UNION {ToSet(seqs[i]) : i \in {1}} = ToSet(seqs[1])
      OBVIOUS
    <3>3. f[1] \in V /\ ToSet(f[1]) = UNION {ToSet(seqs[i]) : i \in 1..1}
      BY <2>1, <3>1, <3>2
    <3>4. QED
      BY <3>1, <3>3
  <2>4. ASSUME NEW n \in Nat, n \in P PROVE n + 1 \in P
    <3> SUFFICES ASSUME n + 2 \in 1..N
                 PROVE  /\ f[n + 2] \in V
                        /\ ToSet(f[n + 2]) =
                             UNION {ToSet(seqs[i]) : i \in 1..(n + 2)}
      <4>1. (n + 1) + 1 = n + 2
        OBVIOUS
      <4>2. QED
        BY <4>1
    <3> DEFINE u == f[n + 1]
    <3>1. n + 1 \in 1..N
      BY <1>1
    <3>2. u \in V /\ ToSet(u) = UNION {ToSet(seqs[i]) : i \in 1..(n + 1)}
      BY <2>4, <3>1
    <3>3. f[n + 2] = u \o seqs[n + 2] /\ seqs[n + 2] \in V
      BY <1>1, <2>1
    <3>4. /\ f[n + 2] \in V
          /\ ToSet(f[n + 2]) = ToSet(u) \cup ToSet(seqs[n + 2])
      <4> HIDE DEF u
      <4> QED
        BY <3>2, <3>3, ConcatAdds DEF V
    <3>5. 1..(n + 2) = 1..(n + 1) \cup {n + 2}
      OBVIOUS
    <3>6. QED
      <4> HIDE DEF u
      <4> QED
        BY <3>2, <3>4, <3>5
  <2>5. Nat \subseteq P
    <3> HIDE DEF P
    <3> QED
      BY <2>3, <2>4, Induction
  <2>6. N - 1 \in Nat /\ (N - 1) + 1 = N /\ N \in 1..N
    BY <1>1, <2>2
  <2>7. f[N] \in V /\ ToSet(f[N]) = UNION {ToSet(seqs[i]) : i \in 1..N}
    BY <2>5, <2>6
  <2>8. QED
    BY <1>1, <2>1, <2>7 DEF V
<1>4. QED
  BY <1>2, <1>3

-----------------------------------------------------------------------------
\* The same of a sequence that is known to be one, whatever it has.
LEMMA Appended ==
  ASSUME NEW s, s \in Seq(ToSet(s)), NEW e
  PROVE  /\ Append(s, e) \in Seq(ToSet(Append(s, e)))
         /\ ToSet(Append(s, e)) = ToSet(s) \cup {e}
<1> DEFINE S == ToSet(s) \cup {e}
           t == Append(s, e)
<1>1. s \in Seq(S)
  BY SeqMonotonic
<1>2. t \in Seq(S) /\ ToSet(t) = ToSet(s) \cup {e}
  <2> HIDE DEF S
  <2>1. e \in S
    BY DEF S
  <2>2. QED
    BY <1>1, <2>1, AppendAdds
<1> HIDE DEF t
<1>3. ToSet(t) = S
  BY <1>2
<1> HIDE DEF S
<1>4. t \in Seq(ToSet(t))
  BY <1>2, <1>3
<1>5. QED
  BY <1>2, <1>4 DEF t

LEMMA Dequeued ==
  ASSUME NEW s, s \in Seq(ToSet(s)), s # <<>>
  PROVE  /\ Tail(s) \in Seq(ToSet(Tail(s)))
         /\ Head(s) \in ToSet(s)
         /\ ToSet(s) = {Head(s)} \cup ToSet(Tail(s))
<1> DEFINE S == ToSet(s)
           t == Tail(s)
<1>1. /\ t \in Seq(S) /\ Head(s) \in S /\ S = {Head(s)} \cup ToSet(t)
  <2> HIDE DEF S
  <2>1. s \in Seq(S)
    BY DEF S
  <2>2. Head(s) \in ToSet(s) /\ t \in Seq(S)
           /\ ToSet(s) = {Head(s)} \cup ToSet(t)
    BY <2>1, HeadAndTail
  <2>3. QED
    BY <2>2 DEF S
<1> HIDE DEF S, t
<1>2. t \in Seq(ToSet(t))
  <2>1. t \in [1..Len(t) -> S] /\ Len(t) \in Nat /\ DOMAIN t = 1..Len(t)
    BY <1>1, LenProperties
  <2>2. t \in [1..Len(t) -> ToSet(t)]
    BY <2>1 DEF ToSet
  <2>3. QED
    BY <2>1, <2>2, SeqDef
<1>3. QED
  BY <1>1, <1>2 DEF S, t

\* A sequence is one over its own elements.
LEMMA OfOwn ==
  ASSUME NEW S, NEW s \in Seq(S)
  PROVE  s \in Seq(ToSet(s))
<1>1. s \in [1..Len(s) -> S] /\ Len(s) \in Nat /\ DOMAIN s = 1..Len(s)
  BY LenProperties
<1>2. s \in [1..Len(s) -> ToSet(s)]
  BY <1>1 DEF ToSet
<1>3. QED
  BY <1>1, <1>2, SeqDef

\* What is taken of a sequence by a set.
LEMMA TakenIs ==
  ASSUME NEW T, NEW s \in Seq(T), NEW S
  PROVE  /\ Only(s, S) \in Seq(T)
         /\ ToSet(Only(s, S)) = ToSet(s) \cap S
<1> DEFINE one(x) == IF x \in S THEN <<x>> ELSE <<>>
           ones == [i \in DOMAIN s |-> one(s[i])]
<1>1. DOMAIN s = 1..Len(s) /\ Len(s) \in Nat /\ \A i \in 1..Len(s) : s[i] \in T
  BY LenProperties, ElementOfSeq
<1>2. ASSUME NEW x \in T
      PROVE  /\ one(x) \in Seq(T)
             /\ ToSet(one(x)) = {x} \cap S
  <2>1. CASE x \in S
    BY <2>1 DEF ToSet
  <2>2. CASE x \notin S
    BY <2>2 DEF ToSet
  <2>3. QED
    BY <2>1, <2>2
<1> HIDE DEF one
<1>3. ones \in [1..Len(s) -> Seq(T)]
  BY <1>1, <1>2
<1>4. ones \in Seq(Seq(T))
  <2> DEFINE V == Seq(T)
  <2>1. ones \in [1..Len(s) -> V]
    BY <1>3
  <2> HIDE DEF V, ones
  <2>2. ones \in Seq(V)
    BY <1>1, <2>1, SeqDef
  <2>3. QED
    BY <2>2 DEF V
<1>5. DOMAIN ones = DOMAIN s /\ \A i \in DOMAIN s : ones[i] = one(s[i])
  OBVIOUS
<1>6. Only(s, S) = FlattenSeq(ones)
  BY DEF Only, one
<1> HIDE DEF ones
<1>7. /\ FlattenSeq(ones) \in Seq(T)
      /\ ToSet(FlattenSeq(ones)) = UNION {ToSet(ones[i]) : i \in DOMAIN ones}
  BY <1>4, Flattened
<1>8. UNION {ToSet(ones[i]) : i \in DOMAIN ones} = ToSet(s) \cap S
  <2>1. \A i \in DOMAIN s : ToSet(ones[i]) = {s[i]} \cap S
    BY <1>1, <1>2, <1>5
  <2>2. QED
    BY <1>5, <2>1 DEF ToSet
<1>9. QED
  BY <1>6, <1>7, <1>8

\* The first of a sequence that is in a set.
LEMMA FirstIs ==
  ASSUME NEW T, NEW s \in Seq(T), NEW S
  PROVE  /\ First(s, S) \in 0..Len(s)
         /\ First(s, S) = 0 <=> ToSet(s) \cap S = {}
         /\ First(s, S) # 0 =>
              /\ s[First(s, S)] \in S /\ s[First(s, S)] \in ToSet(s)
              /\ \A i \in 1..Len(s) : s[i] \in S => First(s, S) <= i
<1> DEFINE at == {i \in DOMAIN s : s[i] \in S}
<1>1. DOMAIN s = 1..Len(s) /\ Len(s) \in Nat
  BY LenProperties
<1>2. CASE at = {}
  <2>1. First(s, S) = 0
    BY <1>2 DEF First
  <2>2. QED
    BY <1>1, <1>2, <2>1 DEF ToSet
<1>3. CASE at # {}
  <2>1. First(s, S) = Min(at)
    BY <1>3 DEF First
  <2>2. Min(at) \in at /\ \A i \in at : Min(at) <= i
    <3>1. at \in SUBSET Nat
      BY <1>1
    <3> HIDE DEF at
    <3>2. QED
      BY <1>3, <3>1, MinIsLeast
  <2> DEFINE f == First(s, S)
  <2>3. f \in at /\ \A i \in at : f <= i
    BY <2>1, <2>2
  <2> HIDE DEF f
  <2>4. f \in 1..Len(s) /\ s[f] \in S /\ s[f] \in ToSet(s)
    BY <1>1, <2>3 DEF ToSet
  <2>5. QED
    BY <1>1, <2>3, <2>4 DEF f
<1>4. QED
  BY <1>2, <1>3

\* A sequence without repetitions grows by something new.
LEMMA AppendOnce ==
  ASSUME NEW T, NEW s \in Seq(T), IsInjective(s), NEW x, x \notin ToSet(s)
  PROVE  IsInjective(s \o <<x>>)
<1> DEFINE t == s \o <<x>>
           U == T \cup {x}
<1>1. s \in Seq(U) /\ <<x>> \in Seq(U) /\ Len(<<x>>) = 1 /\ <<x>>[1] = x
  BY SeqMonotonic
<1>2. /\ DOMAIN s = 1..Len(s) /\ Len(s) \in Nat
      /\ DOMAIN t = 1..(Len(s) + 1)
      /\ \A i \in 1..Len(s) : t[i] = s[i]
      /\ t[Len(s) + 1] = x
  BY <1>1, ConcatProperties, LenProperties
<1> HIDE DEF t
<1>3. \A i \in 1..Len(s) : s[i] # x
  BY <1>2 DEF ToSet
<1>4. \A i, j \in 1..(Len(s) + 1) : t[i] = t[j] => i = j
  BY <1>2, <1>3 DEF IsInjective
<1>5. QED
  BY <1>2, <1>4 DEF IsInjective, t

\* What is taken of a sequence without repetitions has none.
LEMMA SelectedOnce ==
  ASSUME NEW T, NEW s \in Seq(T), IsInjective(s), NEW S
  PROVE  IsInjective(Only(s, S))
<1> DEFINE one(x) == IF x \in S THEN <<x>> ELSE <<>>
           ones == [i \in DOMAIN s |-> one(s[i])]
           N == Len(s)
<1>1. /\ DOMAIN s = 1..N /\ N \in Nat /\ \A i \in 1..N : s[i] \in T
      /\ \A i, j \in 1..N : s[i] = s[j] => i = j
  BY LenProperties, ElementOfSeq DEF IsInjective
<1>2. ones \in Seq(Seq(T)) /\ Len(ones) = N
  <2> DEFINE V == Seq(T)
  <2>1. ones \in [1..N -> V]
    BY <1>1
  <2> HIDE DEF V, ones
  <2>2. ones \in Seq(V) /\ Len(ones) = N
    BY <1>1, <2>1, SeqDef, LenProperties
  <2>3. QED
    BY <2>2 DEF V
<1>3. \A i \in 1..N : ones[i] = one(s[i])
  BY <1>1
<1>4. Only(s, S) = FlattenSeq(ones)
  BY DEF Only, one
<1> HIDE DEF ones
<1>5. CASE ones = <<>>
  <2>1. FlattenSeq(ones) = <<>>
    BY <1>5 DEF FlattenSeq
  <2>2. QED
    BY <1>4, <2>1 DEF IsInjective
<1>6. CASE ones # <<>>
  <2>1. PICK f : /\ f[1] = ones[1]
                 /\ \A n \in Nat : n + 2 \in 1..N =>
                      f[n + 2] = f[n + 1] \o ones[n + 2]
                 /\ FlattenSeq(ones) = f[N]
    BY <1>2, <1>6, Flattening
  <2>2. N # 0
    BY <1>2, <1>6, EmptySeq
  <2> DEFINE Once(t, n) == /\ t \in Seq(T) /\ IsInjective(t)
                           /\ \A x \in ToSet(t) : \E i \in 1..n : x = s[i]
             P == {n \in Nat : n + 1 \in 1..N => Once(f[n + 1], n + 1)}
  <2>3. 0 \in P
    <3>1. 1 \in 1..N /\ 0 + 1 = 1 /\ f[1] = one(s[1])
      BY <1>1, <1>3, <2>1, <2>2
    <3>2. Once(one(s[1]), 1)
      <4>1. CASE s[1] \in S
        <5>1. /\ <<s[1]>> \in Seq(T) /\ IsInjective(<<s[1]>>)
              /\ ToSet(<<s[1]>>) = {s[1]}
          BY <1>1, <3>1 DEF IsInjective, ToSet
        <5>2. one(s[1]) = <<s[1]>>
          BY <4>1
        <5>3. QED
          BY <5>1, <5>2
      <4>2. CASE s[1] \notin S
        <5>1. <<>> \in Seq(T) /\ IsInjective(<<>>) /\ ToSet(<<>>) = {}
          BY DEF IsInjective, ToSet
        <5>2. one(s[1]) = <<>>
          BY <4>2
        <5>3. QED
          BY <5>1, <5>2
      <4>3. QED
        BY <4>1, <4>2
    <3>3. Once(f[1], 1)
      BY <3>1, <3>2
    <3> HIDE DEF Once
    <3>4. QED
      BY <3>1, <3>3
  <2>4. ASSUME NEW n \in Nat, n \in P PROVE n + 1 \in P
    <3> SUFFICES ASSUME n + 2 \in 1..N PROVE Once(f[n + 2], n + 2)
      <4>1. (n + 1) + 1 = n + 2
        OBVIOUS
      <4> HIDE DEF Once
      <4>2. QED
        BY <4>1
    <3> DEFINE u == f[n + 1]
               x == s[n + 2]
    <3>1. n + 1 \in 1..N /\ x \in T
      BY <1>1
    <3>2. Once(u, n + 1)
      BY <2>4, <3>1
    <3>3. f[n + 2] = u \o one(x)
      BY <1>3, <2>1
    <3> HIDE DEF u, one
    <3>4. CASE x \in S
      <4>1. x \notin ToSet(u)
        BY <1>1, <3>2
      <4>2. one(x) = <<x>>
        BY <3>4 DEF one
      <4>3. IsInjective(u \o <<x>>)
        BY <3>2, <4>1, AppendOnce
      <4>4. <<x>> \in Seq(T) /\ ToSet(<<x>>) = {x}
        BY <3>1 DEF ToSet
      <4> DEFINE v == <<x>>
      <4>5. u \o v \in Seq(T) /\ ToSet(u \o v) = ToSet(u) \cup ToSet(v)
        <5>1. v \in Seq(T) /\ u \in Seq(T)
          BY <3>2, <4>4
        <5> HIDE DEF v
        <5>2. QED
          BY <5>1, ConcatAdds
      <4>6. \A y \in ToSet(u) \cup {x} : \E i \in 1..(n + 2) : y = s[i]
        BY <3>2
      <4>7. f[n + 2] = u \o v /\ ToSet(v) = {x}
        BY <3>3, <4>2, <4>4
      <4> HIDE DEF v
      <4>8. IsInjective(u \o v)
        BY <4>3 DEF v
      <4>9. QED
        BY <4>5, <4>6, <4>7, <4>8
    <3>5. CASE x \notin S
      <4>1. one(x) = <<>>
        BY <3>5 DEF one
      <4>2. u \o <<>> = u
        BY <3>2, ConcatEmptySeq
      <4>3. QED
        BY <3>2, <3>3, <4>1, <4>2
    <3>6. QED
      BY <3>4, <3>5
  <2>5. Nat \subseteq P
    <3> HIDE DEF P
    <3> QED
      BY <2>3, <2>4, Induction
  <2>6. N - 1 \in Nat /\ (N - 1) + 1 = N /\ N \in 1..N
    BY <1>1, <2>2
  <2>7. Once(f[N], N)
    <3> HIDE DEF Once
    <3> QED
      BY <2>5, <2>6
  <2>8. QED
    BY <1>4, <2>1, <2>7
<1>7. QED
  BY <1>5, <1>6

\* Nor has the concatenation of two that have nothing in common.
LEMMA ConcatOnce ==
  ASSUME NEW T, NEW s \in Seq(T), NEW t \in Seq(T),
         IsInjective(s), IsInjective(t), ToSet(s) \cap ToSet(t) = {}
  PROVE  IsInjective(s \o t)
<1> DEFINE u == s \o t
           M == Len(s)
           N == Len(t)
<1>1. /\ M \in Nat /\ N \in Nat /\ DOMAIN u = 1..(M + N)
      /\ DOMAIN s = 1..M /\ DOMAIN t = 1..N
      /\ \A i \in 1..(M + N) : u[i] = IF i <= M THEN s[i] ELSE t[i - M]
  BY ConcatProperties, LenProperties
<1>2. /\ \A i, j \in 1..M : s[i] = s[j] => i = j
      /\ \A i, j \in 1..N : t[i] = t[j] => i = j
      /\ \A i \in 1..M, j \in 1..N : s[i] # t[j]
  <2> HIDE DEF u, M, N
  <2>1. \A i, j \in 1..M : s[i] = s[j] => i = j
    BY <1>1 DEF IsInjective
  <2>2. \A i, j \in 1..N : t[i] = t[j] => i = j
    BY <1>1 DEF IsInjective
  <2>3. \A i \in 1..M, j \in 1..N : s[i] # t[j]
    BY <1>1 DEF ToSet
  <2>4. QED
    BY <2>1, <2>2, <2>3
<1> HIDE DEF u, M, N
<1>3. ASSUME NEW i \in 1..(M + N), NEW j \in 1..(M + N), u[i] = u[j]
      PROVE  i = j
  <2>1. CASE i <= M /\ j <= M
    BY <1>1, <1>2, <1>3, <2>1
  <2>2. CASE i > M /\ j > M
    <3>1. i - M \in 1..N /\ j - M \in 1..N /\ t[i - M] = t[j - M]
      BY <1>1, <1>3, <2>2
    <3>2. i - M = j - M
      BY <1>2, <3>1
    <3>3. QED
      BY <1>1, <3>2
  <2>3. CASE i <= M /\ j > M
    <3>1. i \in 1..M /\ j - M \in 1..N /\ s[i] = t[j - M]
      BY <1>1, <1>3, <2>3
    <3>2. QED
      BY <1>2, <3>1
  <2>4. CASE i > M /\ j <= M
    <3>1. j \in 1..M /\ i - M \in 1..N /\ s[j] = t[i - M]
      BY <1>1, <1>3, <2>4
    <3>2. QED
      BY <1>2, <3>1
  <2>5. QED
    BY <1>1, <2>1, <2>2, <2>3, <2>4
<1>4. QED
  BY <1>1, <1>3 DEF IsInjective, u

\* The first of a sequence without repetitions is not there again.
LEMMA DequeuedOnce ==
  ASSUME NEW S, NEW s \in Seq(S), s # <<>>, IsInjective(s)
  PROVE  IsInjective(Tail(s)) /\ Head(s) \notin ToSet(Tail(s))
<1> DEFINE t == Tail(s)
<1>1. /\ t \in Seq(S) /\ Len(t) = Len(s) - 1 /\ Len(s) \in Nat \ {0}
      /\ \A i \in 1..Len(t) : t[i] = s[i + 1]
      /\ DOMAIN s = 1..Len(s) /\ DOMAIN t = 1..Len(t)
      /\ Head(s) = s[1]
  BY HeadTailProperties, EmptySeq, LenProperties
<1> HIDE DEF t
<1>2. \A i, j \in 1..Len(s) : s[i] = s[j] => i = j
  BY <1>1 DEF IsInjective
<1>3. \A i, j \in 1..Len(t) : t[i] = t[j] => i = j
  BY <1>1, <1>2
<1>4. \A i \in 1..Len(t) : t[i] # s[1]
  BY <1>1, <1>2
<1>5. QED
  BY <1>1, <1>3, <1>4 DEF IsInjective, ToSet, t

\* Append puts an element behind the others.
LEMMA AppendedAt ==
  ASSUME NEW s, s \in Seq(ToSet(s)), NEW e
  PROVE  /\ Len(Append(s, e)) = Len(s) + 1 /\ Append(s, e) # <<>>
         /\ \A i \in 1..Len(s) : Append(s, e)[i] = s[i]
         /\ Append(s, e)[Len(s) + 1] = e
<1> DEFINE S == ToSet(s) \cup {e}
<1>1. s \in Seq(S)
  BY SeqMonotonic
<1>2. e \in S
  OBVIOUS
<1> HIDE DEF S
<1>3. QED
  BY <1>1, <1>2, AppendProperties

-----------------------------------------------------------------------------
\* Sequences that are made of others

\* A sequence as long as another one.
LEMMA SequenceOf ==
  ASSUME NEW S, NEW s \in Seq(S), NEW T, NEW t,
         t = [i \in DOMAIN s |-> t[i]], \A i \in DOMAIN s : t[i] \in T
  PROVE  t \in Seq(T) /\ Len(t) = Len(s) /\ DOMAIN t = DOMAIN s
<1>1. DOMAIN s = 1..Len(s) /\ Len(s) \in Nat
  BY LenProperties
<1>2. t \in [1..Len(s) -> T]
  BY <1>1
<1>3. t \in Seq(T)
  BY <1>1, <1>2, SeqDef
<1>4. QED
  BY <1>1, <1>2, <1>3, LenProperties

\* x is the first element of s that is in S.
IsFirst(s, S, x) ==
  \E i \in DOMAIN s : s[i] = x /\ x \in S
  /\ \A j \in 1..(i - 1) : s[j] \notin S

\* The first of a concatenation.
LEMMA ConcatFirst ==
  ASSUME NEW T, NEW s \in Seq(T), NEW t \in Seq(T), NEW S, NEW x,
         IsFirst(s, S, x) \/ (ToSet(s) \cap S = {} /\ IsFirst(t, S, x))
  PROVE  IsFirst(s \o t, S, x)
<1> DEFINE u == s \o t
           M == Len(s)
           N == Len(t)
<1>1. /\ M \in Nat /\ N \in Nat
      /\ DOMAIN s = 1..M /\ DOMAIN t = 1..N /\ DOMAIN u = 1..(M + N)
      /\ \A i \in 1..(M + N) : u[i] = IF i <= M THEN s[i] ELSE t[i - M]
  BY ConcatProperties, LenProperties
<1> HIDE DEF u, M, N
<1>2. CASE IsFirst(s, S, x)
  <2>1. PICK i \in 1..M : /\ s[i] = x /\ x \in S
                          /\ \A j \in 1..(i - 1) : s[j] \notin S
    BY <1>1, <1>2 DEF IsFirst
  <2>2. i \in 1..(M + N) /\ u[i] = x
    BY <1>1, <2>1
  <2>3. \A j \in 1..(i - 1) : u[j] \notin S
    BY <1>1, <2>1
  <2>4. QED
    BY <1>1, <2>1, <2>2, <2>3 DEF IsFirst, u
<1>3. CASE ToSet(s) \cap S = {} /\ IsFirst(t, S, x)
  <2>1. PICK i \in 1..N : /\ t[i] = x /\ x \in S
                          /\ \A j \in 1..(i - 1) : t[j] \notin S
    BY <1>1, <1>3 DEF IsFirst
  <2>2. M + i \in 1..(M + N) /\ u[M + i] = x
    <3>1. M + i \in 1..(M + N) /\ ~(M + i <= M) /\ (M + i) - M = i
      BY <1>1
    <3>2. QED
      BY <1>1, <2>1, <3>1
  <2>3. \A j \in 1..M : s[j] \notin S
    BY <1>1, <1>3 DEF ToSet
  <2>4. ASSUME NEW j \in 1..((M + i) - 1) PROVE u[j] \notin S
    <3>1. CASE j <= M
      BY <1>1, <2>3, <3>1
    <3>2. CASE ~(j <= M)
      <4>1. j - M \in 1..(i - 1) /\ j \in 1..(M + N)
        BY <1>1, <3>2
      <4>2. QED
        BY <1>1, <2>1, <3>2, <4>1
    <3>3. QED
      BY <3>1, <3>2
  <2>5. QED
    BY <1>1, <2>1, <2>2, <2>4 DEF IsFirst, u
<1>4. QED
  BY <1>2, <1>3

\* The first of a concatenation of sequences is that of the first sequence
\* that has one.
LEMMA FlattenedFirst ==
  ASSUME NEW T, NEW seqs \in Seq(Seq(T)), NEW S, NEW x, NEW k \in DOMAIN seqs,
         IsFirst(seqs[k], S, x),
         \A j \in 1..(k - 1) : ToSet(seqs[j]) \cap S = {}
  PROVE  IsFirst(FlattenSeq(seqs), S, x)
<1> DEFINE N == Len(seqs)
           V == Seq(T)
<1>1. /\ N \in Nat /\ DOMAIN seqs = 1..N /\ \A i \in 1..N : seqs[i] \in V
      /\ seqs # <<>>
  BY LenProperties, ElementOfSeq, EmptySeq
<1>2. PICK f : /\ f[1] = seqs[1]
               /\ \A n \in Nat : n + 2 \in 1..N =>
                    f[n + 2] = f[n + 1] \o seqs[n + 2]
               /\ FlattenSeq(seqs) = f[N]
  BY <1>1, Flattening
<1> DEFINE Q(n) == /\ f[n] \in V
                   /\ n < k => ToSet(f[n]) \cap S = {}
                   /\ n >= k => IsFirst(f[n], S, x)
           P == {n \in Nat : n + 1 \in 1..N => Q(n + 1)}
<1>3. 0 \in P
  <2>1. Q(1)
    BY <1>1, <1>2
  <2>2. QED
    BY <2>1
<1>4. ASSUME NEW n \in Nat, n \in P PROVE n + 1 \in P
  <2> SUFFICES ASSUME n + 2 \in 1..N PROVE Q(n + 2)
    <3>1. (n + 1) + 1 = n + 2
      OBVIOUS
    <3>2. QED
      BY <3>1
  <2>1. n + 1 \in 1..N
    BY <1>1
  <2>2. Q(n + 1)
    BY <1>4, <2>1
  <2>3. f[n + 2] = f[n + 1] \o seqs[n + 2] /\ seqs[n + 2] \in V
    BY <1>1, <1>2
  <2>4. /\ f[n + 2] \in V
        /\ ToSet(f[n + 2]) = ToSet(f[n + 1]) \cup ToSet(seqs[n + 2])
    BY <2>2, <2>3, ConcatAdds
  <2>5. n + 2 < k => ToSet(f[n + 2]) \cap S = {}
    <3>1. n + 2 < k => n + 1 < k /\ n + 2 \in 1..(k - 1)
      BY <1>1
    <3>2. QED
      BY <2>2, <2>4, <3>1
  <2>6. n + 2 >= k => IsFirst(f[n + 2], S, x)
    <3>1. CASE n + 1 >= k
      BY <2>2, <2>3, <3>1, ConcatFirst
    <3>2. CASE n + 2 = k
      <4>1. n + 1 < k
        BY <3>2
      <4>2. IsFirst(seqs[n + 2], S, x)
        BY <3>2
      <4>3. QED
        BY <2>2, <2>3, <4>1, <4>2, ConcatFirst
    <3>3. QED
      BY <1>1, <3>1, <3>2
  <2>7. QED
    BY <2>4, <2>5, <2>6
<1> HIDE DEF Q
<1>5. P = Nat
  <2> HIDE DEF P
  <2>1. Nat \subseteq P
    BY <1>3, <1>4, Induction
  <2>2. QED
    BY <2>1 DEF P
<1>6. Q(N)
  <2>1. N - 1 \in Nat /\ (N - 1) + 1 = N /\ N \in 1..N
    BY <1>1
  <2>2. \A n \in Nat : n + 1 \in 1..N => Q(n + 1)
    BY <1>5
  <2>3. QED
    BY <2>1, <2>2
<1>7. QED
  BY <1>1, <1>2, <1>6 DEF Q

\* No two places of s that have elements of S have one key.
Apart(s, S, key) ==
  \A i, j \in DOMAIN s :
    s[i] \in S /\ s[j] \in S /\ key[s[i]] = key[s[j]] => i = j

LEMMA ConcatApart ==
  ASSUME NEW T, NEW s \in Seq(T), NEW t \in Seq(T), NEW S, NEW key,
         Apart(s, S, key), Apart(t, S, key),
         \A x \in ToSet(s) \cap S, y \in ToSet(t) \cap S : key[x] # key[y]
  PROVE  Apart(s \o t, S, key)
<1> DEFINE u == s \o t
           M == Len(s)
           N == Len(t)
<1>1. /\ M \in Nat /\ N \in Nat
      /\ DOMAIN s = 1..M /\ DOMAIN t = 1..N /\ DOMAIN u = 1..(M + N)
      /\ \A i \in 1..(M + N) : u[i] = IF i <= M THEN s[i] ELSE t[i - M]
  BY ConcatProperties, LenProperties
<1>2. \A i \in 1..M, j \in 1..N :
        s[i] \in S /\ t[j] \in S => key[s[i]] # key[t[j]]
  BY <1>1 DEF ToSet
<1> HIDE DEF u, M, N
<1> SUFFICES ASSUME NEW i \in 1..(M + N), NEW j \in 1..(M + N),
                    u[i] \in S, u[j] \in S, key[u[i]] = key[u[j]]
             PROVE  i = j
  BY <1>1 DEF Apart, u
<1>3. CASE i <= M /\ j <= M
  BY <1>1, <1>3 DEF Apart
<1>4. CASE i <= M /\ ~(j <= M)
  <2>1. i \in 1..M /\ j - M \in 1..N
    BY <1>1, <1>4
  <2>2. QED
    BY <1>1, <1>2, <1>4, <2>1
<1>5. CASE ~(i <= M) /\ j <= M
  <2>1. j \in 1..M /\ i - M \in 1..N
    BY <1>1, <1>5
  <2>2. QED
    BY <1>1, <1>2, <1>5, <2>1
<1>6. CASE ~(i <= M) /\ ~(j <= M)
  <2>1. i - M \in 1..N /\ j - M \in 1..N
    BY <1>1, <1>6
  <2>2. i - M = j - M
    BY <1>1, <1>6, <2>1 DEF Apart
  <2>3. QED
    BY <1>1, <2>2
<1>7. QED
  BY <1>3, <1>4, <1>5, <1>6

\* Sequences that are apart in themselves and from each other.
LEMMA FlattenedApart ==
  ASSUME NEW T, NEW seqs \in Seq(Seq(T)), NEW S, NEW key,
         \A k \in DOMAIN seqs : Apart(seqs[k], S, key),
         \A k, l \in DOMAIN seqs : k # l =>
           \A x \in ToSet(seqs[k]) \cap S, y \in ToSet(seqs[l]) \cap S :
             key[x] # key[y]
  PROVE  Apart(FlattenSeq(seqs), S, key)
<1> DEFINE N == Len(seqs)
           V == Seq(T)
<1>1. N \in Nat /\ DOMAIN seqs = 1..N /\ \A i \in 1..N : seqs[i] \in V
  BY LenProperties, ElementOfSeq
<1>2. CASE seqs = <<>>
  <2>1. FlattenSeq(seqs) = <<>>
    BY <1>2 DEF FlattenSeq
  <2>2. QED
    BY <2>1 DEF Apart
<1>3. CASE seqs # <<>>
  <2>1. PICK f : /\ f[1] = seqs[1]
                 /\ \A n \in Nat : n + 2 \in 1..N =>
                      f[n + 2] = f[n + 1] \o seqs[n + 2]
                 /\ FlattenSeq(seqs) = f[N]
    BY <1>3, Flattening
  <2> DEFINE Q(n) == /\ f[n] \in V /\ Apart(f[n], S, key)
                     /\ ToSet(f[n]) = UNION {ToSet(seqs[i]) : i \in 1..n}
             P == {n \in Nat : n + 1 \in 1..N => Q(n + 1)}
  <2>2. 0 \in P
    <3>1. N \in 1..N /\ 1 \in 1..N /\ 1..1 = {1}
      BY <1>1, <1>3, EmptySeq
    <3>2. Q(1)
      BY <1>1, <2>1, <3>1
    <3>3. QED
      BY <3>2
  <2>3. ASSUME NEW n \in Nat, n \in P PROVE n + 1 \in P
    <3> SUFFICES ASSUME n + 2 \in 1..N PROVE Q(n + 2)
      <4>1. (n + 1) + 1 = n + 2
        OBVIOUS
      <4>2. QED
        BY <4>1
    <3>1. n + 1 \in 1..N
      BY <1>1
    <3>2. Q(n + 1)
      BY <2>3, <3>1
    <3>3. f[n + 2] = f[n + 1] \o seqs[n + 2] /\ seqs[n + 2] \in V
      BY <1>1, <2>1
    <3>4. /\ f[n + 2] \in V
          /\ ToSet(f[n + 2]) = ToSet(f[n + 1]) \cup ToSet(seqs[n + 2])
      BY <3>2, <3>3, ConcatAdds
    <3>5. ASSUME NEW x \in ToSet(f[n + 1]) \cap S,
                 NEW y \in ToSet(seqs[n + 2]) \cap S
          PROVE  key[x] # key[y]
      <4>1. PICK i \in 1..(n + 1) : x \in ToSet(seqs[i])
        BY <3>2
      <4>2. i \in 1..N /\ i # n + 2
        BY <3>1
      <4>3. QED
        BY <1>1, <4>1, <4>2
    <3>6. Apart(f[n + 2], S, key)
      <4>1. Apart(seqs[n + 2], S, key)
        BY <1>1
      <4>2. f[n + 1] \in Seq(T) /\ Apart(f[n + 1], S, key)
        BY <3>2
      <4>3. seqs[n + 2] \in Seq(T)
        BY <3>3
      <4> HIDE DEF Q
      <4>4. Apart(f[n + 1] \o seqs[n + 2], S, key)
        BY ONLY <3>5, <4>1, <4>2, <4>3, ConcatApart
      <4>5. QED
        BY <3>3, <4>4
    <3>7. 1..(n + 2) = 1..(n + 1) \cup {n + 2}
      OBVIOUS
    <3>8. QED
      BY <3>2, <3>4, <3>6, <3>7
  <2> HIDE DEF Q
  <2>4. P = Nat
    <3> HIDE DEF P
    <3>1. Nat \subseteq P
      BY <2>2, <2>3, Induction
    <3>2. QED
      BY <3>1 DEF P
  <2>5. Q(N)
    <3>1. N - 1 \in Nat /\ (N - 1) + 1 = N /\ N \in 1..N
      BY <1>1, <1>3, EmptySeq
    <3>2. \A n \in Nat : n + 1 \in 1..N => Q(n + 1)
      BY <2>4
    <3>3. QED
      BY <3>1, <3>2
  <2>6. QED
    BY <2>1, <2>5 DEF Q
<1>4. QED
  BY <1>2, <1>3

\* What is taken of a sequence is apart if the sequence is.
LEMMA SelectedApart ==
  ASSUME NEW T, NEW s \in Seq(T), NEW S, NEW U, NEW key, Apart(s, U, key)
  PROVE  Apart(Only(s, S), U, key)
<1> DEFINE one(x) == IF x \in S THEN <<x>> ELSE <<>>
           ones == [i \in DOMAIN s |-> one(s[i])]
<1>1. DOMAIN s = 1..Len(s) /\ \A i \in 1..Len(s) : s[i] \in T
  BY LenProperties, ElementOfSeq
<1>2. ASSUME NEW x \in T
      PROVE  one(x) \in Seq(T) /\ ToSet(one(x)) \subseteq {x}
             /\ Apart(one(x), U, key)
  <2>1. CASE x \in S
    BY <2>1 DEF ToSet, Apart
  <2>2. CASE x \notin S
    BY <2>2 DEF ToSet, Apart
  <2>3. QED
    BY <2>1, <2>2
<1> HIDE DEF one
<1>3. DOMAIN ones = DOMAIN s /\ \A i \in DOMAIN s : ones[i] = one(s[i])
  OBVIOUS
<1>4. Only(s, S) = FlattenSeq(ones)
  BY DEF Only, one
<1>5. ones = [i \in DOMAIN s |-> ones[i]]
  OBVIOUS
<1> HIDE DEF ones
<1>6. \A i \in DOMAIN s : ones[i] \in Seq(T)
  BY <1>1, <1>2, <1>3
<1>7. ones \in Seq(Seq(T))
  <2> DEFINE V == Seq(T)
  <2>1. \A i \in DOMAIN s : ones[i] \in V
    BY <1>6
  <2> HIDE DEF V
  <2>2. ones \in Seq(V)
    BY <1>5, <2>1, SequenceOf
  <2>3. QED
    BY <2>2 DEF V
<1>8. \A k \in DOMAIN ones : Apart(ones[k], U, key)
  BY <1>1, <1>2, <1>3
<1>9. ASSUME NEW k \in DOMAIN ones, NEW l \in DOMAIN ones, k # l,
             NEW x \in ToSet(ones[k]) \cap U, NEW y \in ToSet(ones[l]) \cap U
      PROVE  key[x] # key[y]
  <2>1. x = s[k] /\ y = s[l]
    BY <1>1, <1>2, <1>3
  <2>2. QED
    BY <1>3, <1>9, <2>1 DEF Apart
<1>10. Apart(FlattenSeq(ones), U, key)
  BY <1>7, <1>8, <1>9, FlattenedApart
<1>11. QED
  BY <1>4, <1>10

\* The values of a function on a set.
Values(f, S) == {f[k] : k \in S}

\* Sequences of one element or none, one after another.
AreSingles(seqs, n, used, row) ==
  /\ n \in Nat /\ used \subseteq 1..n /\ DOMAIN seqs = 1..n
  /\ \A k \in 1..n : seqs[k] = IF k \in used THEN <<row[k]>> ELSE <<>>

LEMMA Singles ==
  ASSUME NEW T, NEW row, NEW n, NEW used, NEW seqs \in Seq(Seq(T)),
         \A k \in used : row[k] \in T, AreSingles(seqs, n, used, row)
  PROVE  /\ FlattenSeq(seqs) \in Seq(T)
         /\ ToSet(FlattenSeq(seqs)) = Values(row, used)
         /\ \A S, key :
              (\A k, l \in used :
                 row[k] \in S /\ row[l] \in S /\ key[row[k]] = key[row[l]]
                   => k = l)
              => Apart(FlattenSeq(seqs), S, key)
         /\ \A S : \A k \in used :
              row[k] \in S /\ (\A j \in used : j < k => row[j] \notin S)
              => IsFirst(FlattenSeq(seqs), S, row[k])
<1> DEFINE V == Seq(T)
<1>1. /\ DOMAIN seqs = 1..n /\ used \in SUBSET (1..n) /\ n \in Nat
      /\ \A k \in 1..n : seqs[k] = IF k \in used THEN <<row[k]>> ELSE <<>>
  BY DEF AreSingles
<1>2. \A k \in 1..n :
        /\ seqs[k] \in V
        /\ k \in used => seqs[k] = <<row[k]>> /\ ToSet(seqs[k]) = {row[k]}
        /\ k \notin used => seqs[k] = <<>> /\ ToSet(seqs[k]) = {}
  <2> SUFFICES ASSUME NEW k \in 1..n
               PROVE  /\ seqs[k] \in V
                      /\ k \in used => /\ seqs[k] = <<row[k]>>
                                       /\ ToSet(seqs[k]) = {row[k]}
                      /\ k \notin used => seqs[k] = <<>> /\ ToSet(seqs[k]) = {}
    OBVIOUS
  <2>1. CASE k \in used
    <3>1. seqs[k] = <<row[k]>> /\ row[k] \in T
      BY <1>1, <2>1
    <3>2. ToSet(<<row[k]>>) = {row[k]} /\ <<row[k]>> \in Seq(T)
      BY <3>1 DEF ToSet
    <3>3. QED
      BY <2>1, <3>1, <3>2
  <2>2. CASE k \notin used
    <3>1. seqs[k] = <<>>
      BY <1>1, <2>2
    <3>2. QED
      BY <2>2, <3>1, NothingIn
  <2>3. QED
    BY <2>1, <2>2
<1>3. seqs \in Seq(V)
  OBVIOUS
<1>4. /\ FlattenSeq(seqs) \in Seq(T)
      /\ ToSet(FlattenSeq(seqs)) = UNION {ToSet(seqs[i]) : i \in DOMAIN seqs}
  <2>1. seqs \in Seq(Seq(T))
    BY <1>3
  <2>2. QED
    BY ONLY <2>1, Flattened
<1> HIDE DEF V
<1>5. ToSet(FlattenSeq(seqs)) = Values(row, used)
  <2>1. ASSUME NEW x \in UNION {ToSet(seqs[i]) : i \in DOMAIN seqs}
        PROVE  \E k \in used : x = row[k]
    <3>1. PICK i \in 1..n : x \in ToSet(seqs[i])
      BY <1>1
    <3>2. i \in used /\ x = row[i]
      BY <1>2, <3>1
    <3>3. QED
      BY <3>2
  <2>2. ASSUME NEW k \in used
        PROVE  row[k] \in UNION {ToSet(seqs[i]) : i \in DOMAIN seqs}
    <3>1. k \in 1..n /\ row[k] \in ToSet(seqs[k])
      BY <1>1, <1>2
    <3>2. QED
      BY <1>1, <3>1
  <2>3. QED
    BY ONLY <1>4, <2>1, <2>2 DEF Values
<1>6. ASSUME NEW S, NEW key,
             \A k, l \in used :
               row[k] \in S /\ row[l] \in S /\ key[row[k]] = key[row[l]]
                 => k = l
      PROVE  Apart(FlattenSeq(seqs), S, key)
  <2>1. \A k \in DOMAIN seqs : Apart(seqs[k], S, key)
    <3> SUFFICES ASSUME NEW k \in 1..n PROVE Apart(seqs[k], S, key)
      BY <1>1
    <3>1. CASE k \in used
      <4>1. seqs[k] = <<row[k]>> /\ DOMAIN <<row[k]>> = {1}
        BY <1>2, <3>1
      <4>2. QED
        BY <4>1 DEF Apart
    <3>2. CASE k \notin used
      <4>1. seqs[k] = <<>> /\ DOMAIN <<>> = {}
        BY <1>2, <3>2
      <4>2. QED
        BY <4>1 DEF Apart
    <3>3. QED
      BY <3>1, <3>2
  <2>2. ASSUME NEW k \in DOMAIN seqs, NEW l \in DOMAIN seqs, k # l,
               NEW x \in ToSet(seqs[k]) \cap S, NEW y \in ToSet(seqs[l]) \cap S
        PROVE  key[x] # key[y]
    <3>1. k \in used /\ l \in used /\ x = row[k] /\ y = row[l]
      BY <1>1, <1>2
    <3>2. QED
      BY <1>6, <2>2, <3>1
  <2>3. seqs \in Seq(Seq(T))
    BY <1>3 DEF V
  <2>4. QED
    BY ONLY <2>1, <2>2, <2>3, FlattenedApart
<1>7. ASSUME NEW S, NEW k \in used, row[k] \in S,
             \A j \in used : j < k => row[j] \notin S
      PROVE  IsFirst(FlattenSeq(seqs), S, row[k])
  <2>1. k \in DOMAIN seqs /\ k \in 1..n
    BY <1>1
  <2>2. IsFirst(seqs[k], S, row[k])
    <3>1. seqs[k] = <<row[k]>>
      BY <1>2, <2>1
    <3>2. /\ DOMAIN <<row[k]>> = {1} /\ <<row[k]>>[1] = row[k]
          /\ 1..(1 - 1) = {}
      OBVIOUS
    <3>3. QED
      BY <1>7, <3>1, <3>2 DEF IsFirst
  <2>3. \A j \in 1..(k - 1) : ToSet(seqs[j]) \cap S = {}
    <3> SUFFICES ASSUME NEW j \in 1..(k - 1) PROVE ToSet(seqs[j]) \cap S = {}
      OBVIOUS
    <3>1. j \in 1..n /\ j < k
      BY <1>1, <2>1
    <3>2. QED
      BY <1>2, <1>7, <3>1
  <2>4. seqs \in Seq(Seq(T))
    BY <1>3 DEF V
  <2>5. QED
    BY <2>1, <2>2, <2>3, <2>4, FlattenedFirst
<1>8. QED
  BY <1>4, <1>5, <1>6, <1>7
=============================================================================
