--------------------------- MODULE FiniteInduction ---------------------------
(***************************************************************************)
(* Induction and recursion on the numbers up to a bound, from the fact that*)
(* the finite subsets of a set are well-founded by inclusion; and what they*)
(* say of two folds of the community modules: one over the prefixes of a   *)
(* sequence, or the subsets of a set, and the one that flattens a sequence *)
(* of sequences.                                                           *)
(***************************************************************************)
EXTENDS Integers, FiniteSets, SequencesExt, FiniteSetTheorems, SequenceTheorems,
        WellFoundedInduction, TLAPS

(* A set of numbers has a smallest one, for the finite sets of numbers up  *)
(* to each of its members are well-founded by inclusion.                   *)
LEMMA Smallest ==
  ASSUME NEW T, T \subseteq Nat, T # {}
  PROVE  \E x \in T : \A y \in T : x <= y
<1> DEFINE F == {1..x : x \in T}
<1>1. F \subseteq FiniteSubsetsOf(Nat)
  BY FS_Interval DEF FiniteSubsetsOf
<1>2. F # {}
  OBVIOUS
<1>3. \E m \in F : \A l \in F : ~(<<l, m>> \in StrictSubsetOrdering(Nat))
  <2> HIDE DEF F
  <2> QED
    BY <1>1, <1>2, FS_StrictSubsetOrderingWellFounded, WFMin
<1>4. PICK x \in T : \A y \in T : ~(<<1..y, 1..x>> \in StrictSubsetOrdering(Nat))
  BY <1>3
<1>5. ASSUME NEW y \in T, y < x PROVE FALSE
  <2>1. 1..y \subseteq 1..x /\ x \in 1..x /\ x \notin 1..y
    BY <1>5
  <2>2. <<1..y, 1..x>> \in StrictSubsetOrdering(Nat)
    BY <2>1 DEF StrictSubsetOrdering
  <2> QED
    BY <2>2, <1>4
<1> QED
  BY <1>5

(* Induction up to m: a set that has 0, and each number if the one before, *)
(* has all of them.                                                        *)
LEMMA UpTo ==
  ASSUME NEW m \in Nat, NEW Good, 0 \in Good,
         \A k \in 1..m : k - 1 \in Good => k \in Good
  PROVE  0..m \subseteq Good
<1> SUFFICES ASSUME NEW j \in 0..m, j \notin Good PROVE FALSE
  OBVIOUS
<1> DEFINE T == {k \in 0..m : k \notin Good}
<1>1. PICK x \in T : \A y \in T : x <= y
  <2>1. T \subseteq Nat /\ T # {}
    OBVIOUS
  <2> HIDE DEF T
  <2> QED
    BY <2>1, Smallest
<1>2. x \in 1..m /\ x - 1 \in 0..m /\ x - 1 \notin T
  BY <1>1
<1> QED
  BY <1>2

(* The functions that a recursion describes: a at first, then F of the     *)
(* value before.                                                           *)
Iterates(S, m, a, F) ==
  {g \in [0..m -> S] : g[0] = a /\ \A k \in 1..m : g[k] = F[k][g[k - 1]]}

(* There is one, whatever is recurred on.                                  *)
LEMMA Recursion ==
  ASSUME NEW S, NEW m \in Nat, NEW a \in S, NEW F \in [1..m -> [S -> S]]
  PROVE  Iterates(S, m, a, F) # {}
<1> DEFINE Good == {l \in 0..m : \E g \in [0..l -> S] : g[0] = a /\ \A k \in 1..l : g[k] = F[k][g[k - 1]]}
<1>1. 0 \in Good
  <2> SUFFICES \E g \in [0..0 -> S] : g[0] = a /\ \A k \in 1..0 : g[k] = F[k][g[k - 1]]
    OBVIOUS
  <2> WITNESS [k \in 0..0 |-> a] \in [0..0 -> S]
  <2> QED
    OBVIOUS
<1>2. ASSUME NEW l \in 1..m, l - 1 \in Good PROVE l \in Good
  <2>1. PICK g \in [0..l - 1 -> S] : g[0] = a /\ \A k \in 1..l - 1 : g[k] = F[k][g[k - 1]]
    BY <1>2
  <2> DEFINE h == [k \in 0..l |-> IF k < l THEN g[k] ELSE F[l][g[l - 1]]]
  <2>2. h \in [0..l -> S]
    OBVIOUS
  <2>3. h[0] = a
    BY <2>1
  <2>4. ASSUME NEW k \in 1..l PROVE h[k] = F[k][h[k - 1]]
    BY <2>1
  <2>5. l \in 0..m
    OBVIOUS
  <2> HIDE DEF h
  <2>6. \E f \in [0..l -> S] : f[0] = a /\ \A k \in 1..l : f[k] = F[k][f[k - 1]]
    BY <2>2, <2>3, <2>4
  <2> QED
    BY <2>5, <2>6
<1>3. 0..m \subseteq Good
  <2> HIDE DEF Good
  <2> QED
    BY <1>1, <1>2, UpTo
<1> QED
  BY <1>3 DEF Iterates

-----------------------------------------------------------------------------
(* The largest of some of the numbers up to a bound. *)
LEMMA Largest ==
  ASSUME NEW n \in Nat, NEW s \in SUBSET (1..n), s # {}
  PROVE  Max(s) \in s /\ \A y \in s : y <= Max(s)
<1> DEFINE T == {n - x : x \in s}
<1>1. PICK low \in T : \A y \in T : low <= y
  <2>1. T \subseteq Nat /\ T # {}
    OBVIOUS
  <2> HIDE DEF T
  <2> QED
    BY <2>1, Smallest
<1>2. PICK x \in s : low = n - x
  OBVIOUS
<1>3. x \in s /\ \A y \in s : x >= y
  BY <1>1, <1>2
<1> QED
  BY <1>3 DEF Max

(* The functions on the sets of numbers up to n that a recursion describes *)
(* which takes the largest of a set away, as the folds over sequences do.  *)
SetIterates(S, n, a, F) ==
  {g \in [SUBSET (1..n) -> S] :
     /\ g[{}] = a
     /\ \A s \in SUBSET (1..n) : s # {} => g[s] = F[Max(s)][g[s \ {Max(s)}]]}

(* There is one, whatever is recurred on. *)
LEMMA SubsetRecursion ==
  ASSUME NEW S, NEW n \in Nat, NEW a \in S, NEW F \in [1..n -> [S -> S]]
  PROVE  SetIterates(S, n, a, F) # {}
<1> DEFINE Fits(l, g) ==
             /\ g \in [SUBSET (1..l) -> S]
             /\ g[{}] = a
             /\ \A s \in SUBSET (1..l) : s # {} => g[s] = F[Max(s)][g[s \ {Max(s)}]]
           Good == {l \in 0..n : \E g : Fits(l, g)}
<1>1. 0 \in Good
  <2> DEFINE g == [s \in SUBSET (1..0) |-> a]
  <2>1. 1..0 = {}
    OBVIOUS
  <2>2. Fits(0, g)
    BY <2>1
  <2> HIDE DEF Fits, g
  <2> QED
    BY <2>2
<1>2. ASSUME NEW l \in 1..n, l - 1 \in Good PROVE l \in Good
  <2>1. PICK g : Fits(l - 1, g)
    BY <1>2
  <2> DEFINE h == [s \in SUBSET (1..l) |-> IF l \in s THEN F[l][g[s \ {l}]] ELSE g[s]]
  <2>2. \A s \in SUBSET (1..l) : s \ {l} \in SUBSET (1..(l - 1)) /\ (l \notin s => s \in SUBSET (1..(l - 1)))
    OBVIOUS
  <2>3. h \in [SUBSET (1..l) -> S]
    BY <2>1, <2>2
  <2>4. h[{}] = a
    BY <2>1
  <2>5. ASSUME NEW s \in SUBSET (1..l), s # {} PROVE h[s] = F[Max(s)][h[s \ {Max(s)}]]
    <3>0. l \in Nat /\ \A y \in s : y \in Nat /\ y <= l
      BY <2>5
    <3>1. Max(s) \in s /\ \A y \in s : y <= Max(s)
      BY <2>5, <3>0, Largest
    <3>2. CASE l \in s
      <4>1. Max(s) = l
        <5> DEFINE m == Max(s)
        <5>1. m \in Nat /\ m <= l /\ l <= m
          BY <3>0, <3>1, <3>2
        <5> HIDE DEF m
        <5>2. m = l
          BY <3>0, <5>1
        <5> QED
          BY <5>2 DEF m
      <4>2. h[s] = F[l][g[s \ {l}]] /\ h[s \ {l}] = g[s \ {l}]
        BY <2>2, <3>2
      <4> QED
        BY <4>1, <4>2
    <3>3. CASE l \notin s
      <4>1. s \in SUBSET (1..(l - 1)) /\ s \ {Max(s)} \in SUBSET (1..l)
        BY <2>2, <3>3
      <4>2. h[s] = g[s] /\ h[s \ {Max(s)}] = g[s \ {Max(s)}]
        BY <3>3, <4>1
      <4>3. g[s] = F[Max(s)][g[s \ {Max(s)}]]
        BY <2>1, <2>5, <4>1
      <4> QED
        BY <4>2, <4>3
    <3> QED
      BY <3>2, <3>3
  <2> HIDE DEF h
  <2>6. Fits(l, h)
    BY <2>3, <2>4, <2>5
  <2> HIDE DEF Fits
  <2> QED
    BY <2>6
<1>3. 0..n \subseteq Good
  <2> HIDE DEF Good
  <2> QED
    BY <1>1, <1>2, UpTo
<1>4. \E g : Fits(n, g)
  <2>1. n \in 0..n
    OBVIOUS
  <2> HIDE DEF Fits
  <2> QED
    BY <1>3, <2>1
<1> QED
  BY <1>4 DEF SetIterates

(* The prefixes of 1..n. *)
LEMMA LargestUpTo ==
  ASSUME NEW n \in Nat, NEW k \in 1..n
  PROVE  /\ 1..k \in SUBSET (1..n) /\ 1..k # {}
         /\ Max(1..k) = k
         /\ (1..k) \ {Max(1..k)} = 1..(k - 1)
<1>1. 1..k \in SUBSET (1..n) /\ 1..k # {}
  OBVIOUS
<1>2. Max(1..k) = k
  <2>1. Max(1..k) \in 1..k /\ \A y \in 1..k : y <= Max(1..k)
    BY <1>1, Largest
  <2>2. k \in 1..k
    OBVIOUS
  <2> QED
    BY <2>1, <2>2
<1> QED
  BY <1>1, <1>2

(* What a function follows if it is known to do so only where it has a     *)
(* value in S.                                                             *)
FollowsFrom(S, n, a, F, iter) ==
  /\ iter[{}] = a
  /\ \A s \in SUBSET (1..n) : s # {} /\ iter[s \ {Max(s)}] \in S
                                => iter[s] = F[Max(s)][iter[s \ {Max(s)}]]

(* On the prefixes, such a recursion is one from each number to the next.  *)
LEMMA PrefixRecursion ==
  ASSUME NEW S, NEW n \in Nat, NEW a \in S, NEW F \in [1..n -> [S -> S]], NEW iter,
         FollowsFrom(S, n, a, F, iter)
  PROVE  \E h \in Iterates(S, n, a, F) : h[n] = iter[1..n]
<1> DEFINE Good == {k \in 0..n : iter[1..k] \in S}
           h == [k \in 0..n |-> iter[1..k]]
<1>1. ASSUME NEW k \in 1..n, iter[1..k - 1] \in S
      PROVE  iter[1..k] = F[k][iter[1..k - 1]]
  BY <1>1, LargestUpTo DEF FollowsFrom
<1>2. iter[1..0] = a
  <2>1. 1..0 = {}
    OBVIOUS
  <2> QED
    BY <2>1, Zenon DEF FollowsFrom
<1>3. 0..n \subseteq Good
  <2>1. 0 \in Good
    BY <1>2
  <2>2. ASSUME NEW k \in 1..n, k - 1 \in Good PROVE k \in Good
    <3>1. iter[1..k - 1] \in S /\ k \in 0..n
      BY <2>2
    <3>2. iter[1..k] = F[k][iter[1..k - 1]]
      BY <1>1, <3>1
    <3> QED
      BY <3>1, <3>2
  <2> HIDE DEF Good
  <2> QED
    BY <2>1, <2>2, UpTo
<1>4. h \in [0..n -> S] /\ h[0] = a /\ h[n] = iter[1..n]
  BY <1>2, <1>3
<1>5. ASSUME NEW k \in 1..n PROVE h[k] = F[k][h[k - 1]]
  <2>1. k - 1 \in 0..n /\ k \in 0..n /\ iter[1..k - 1] \in S
    BY <1>3
  <2>2. h[k] = iter[1..k] /\ h[k - 1] = iter[1..k - 1]
    BY <2>1
  <2> QED
    BY <1>1, <2>1, <2>2
<1> HIDE DEF h
<1>6. h \in Iterates(S, n, a, F)
  BY <1>4, <1>5 DEF Iterates
<1> QED
  BY <1>4, <1>6

-----------------------------------------------------------------------------
(* Sequences put together one after another, as the recursion of FlattenSeq*)
(* does it.                                                                *)
LEMMA FlattenIs ==
  ASSUME NEW A, NEW seqs \in Seq(Seq(A))
  PROVE  \E flat \in [0..Len(seqs) -> Seq(A)] :
           /\ flat[0] = <<>>
           /\ \A k \in 1..Len(seqs) : flat[k] = flat[k - 1] \o seqs[k]
           /\ FlattenSeq(seqs) = flat[Len(seqs)]
<1> DEFINE S == Seq(A)
           n == Len(seqs)
           a == <<>>
           F == [k \in 1..n |-> [x \in S |-> x \o seqs[k]]]
<1>0. n \in Nat /\ a \in S /\ \A k \in 1..n : seqs[k] \in S
  OBVIOUS
<1>1. PICK g \in [0..n -> S] : g[0] = a /\ \A k \in 1..n : g[k] = F[k][g[k - 1]]
  <2>1. F \in [1..n -> [S -> S]]
    BY <1>0, ConcatProperties
  <2> HIDE DEF F, S, a, n
  <2>2. Iterates(S, n, a, F) # {}
    BY <1>0, <2>1, Recursion
  <2> QED
    BY <2>2 DEF Iterates
<1>2. ASSUME NEW k \in 1..n PROVE g[k - 1] \in S /\ g[k] = g[k - 1] \o seqs[k]
  <2>1. k - 1 \in 0..n
    BY <1>0
  <2>2. g[k - 1] \in S
    <3> HIDE DEF S, n
    <3> QED
      BY <2>1
  <2> QED
    BY <1>1, <2>2
<1>3. CASE n = 0
  <2>1. FlattenSeq(seqs) = seqs /\ seqs = <<>>
    BY <1>3 DEF FlattenSeq
  <2> QED
    BY <1>1, <1>2, <1>3, <2>1
<1>4. CASE n # 0
  <2> DEFINE Body(f) == [i \in 1..n |-> IF i = 1 THEN seqs[i] ELSE f[i - 1] \o seqs[i]]
             f0 == [i \in 1..n |-> g[i]]
             f == CHOOSE f : f = Body(f)
  <2>1. FlattenSeq(seqs) = f[n]
    BY <1>4, Zenon DEF FlattenSeq
  <2>2. f0 = Body(f0)
    <3>1. ASSUME NEW i \in 1..n PROVE f0[i] = IF i = 1 THEN seqs[i] ELSE f0[i - 1] \o seqs[i]
      <4>1. CASE i = 1
        <5>1. g[1] = g[1 - 1] \o seqs[1]
          BY <1>2, <4>1
        <5>2. g[1 - 1] = <<>> /\ <<>> \o seqs[1] = seqs[1]
          BY <1>0, <1>1, <4>1
        <5>3. g[1] = seqs[1]
          BY <5>1, <5>2, Zenon
        <5> QED
          BY <4>1, <5>3
      <4>2. CASE i # 1
        <5>1. i - 1 \in 1..n /\ f0[i - 1] = g[i - 1] /\ f0[i] = g[i]
          BY <1>0, <4>2
        <5>2. g[i] = g[i - 1] \o seqs[i]
          BY <1>2
        <5> QED
          BY <4>2, <5>1, <5>2, Zenon
      <4> QED
        BY <4>1, <4>2
    <3> QED
      BY <3>1, Zenon
  <2>3. f = Body(f)
    <3> HIDE DEF f0, Body
    <3> QED
      BY <2>2
  <2> HIDE DEF f
  <2>4. \A i \in 1..n : f[i] = IF i = 1 THEN seqs[i] ELSE f[i - 1] \o seqs[i]
    BY <2>3, Zenon
  <2> DEFINE Good == {k \in 0..n : k = 0 \/ f[k] = g[k]}
  <2>5. 0..n \subseteq Good
    <3>1. 0 \in Good
      BY <1>0
    <3>2. ASSUME NEW k \in 1..n, k - 1 \in Good PROVE k \in Good
      <4>1. CASE k = 1
        <5>1. f[k] = g[k]
          <6>1. f[k] = f0[k]
            BY <2>2, <2>4, <4>1, Zenon
          <6> QED
            BY <6>1
        <5> QED
          BY <1>0, <5>1
      <4>2. CASE k # 1
        <5>1. f[k - 1] = g[k - 1] /\ k \in 0..n
          BY <1>0, <3>2, <4>2
        <5>2. f[k] = f[k - 1] \o seqs[k]
          BY <2>4, <4>2, Zenon
        <5>3. f[k] = g[k]
          BY <1>2, <5>1, <5>2, Zenon
        <5> QED
          BY <5>1, <5>3
      <4> QED
        BY <4>1, <4>2
    <3> HIDE DEF Good
    <3> QED
      BY <1>0, <3>1, <3>2, UpTo
  <2>6. f[n] = g[n]
    BY <1>0, <1>4, <2>5
  <2> HIDE DEF F
  <2>7. FlattenSeq(seqs) = g[n]
    BY <2>1, <2>6
  <2> QED
    BY <1>1, <1>2, <2>7
<1> QED
  BY <1>3, <1>4

(* Flattened, sequences of elements of A are one. *)
LEMMA FlattenType ==
  ASSUME NEW A, NEW seqs \in Seq(Seq(A))
  PROVE  FlattenSeq(seqs) \in Seq(A)
<1>1. PICK flat \in [0..Len(seqs) -> Seq(A)] : FlattenSeq(seqs) = flat[Len(seqs)]
  BY FlattenIs
<1>2. Len(seqs) \in 0..Len(seqs)
  OBVIOUS
<1> QED
  BY <1>1, <1>2

(* One more sequence is flattened to the end of those before. *)
LEMMA FlattenAppend ==
  ASSUME NEW A, NEW seqs \in Seq(Seq(A)), NEW last \in Seq(A)
  PROVE  FlattenSeq(Append(seqs, last)) = FlattenSeq(seqs) \o last
<1> DEFINE n == Len(seqs)
           more == Append(seqs, last)
<1>1. /\ n \in Nat /\ more \in Seq(Seq(A)) /\ Len(more) = n + 1 /\ more[n + 1] = last
      /\ \A k \in 1..n : more[k] = seqs[k]
  OBVIOUS
<1> HIDE DEF more
<1>2. PICK f \in [0..n -> Seq(A)] :
        /\ f[0] = <<>>
        /\ \A k \in 1..n : f[k] = f[k - 1] \o seqs[k]
        /\ FlattenSeq(seqs) = f[n]
  BY FlattenIs
<1> HIDE DEF n
<1>3. PICK g \in [0..n + 1 -> Seq(A)] :
        /\ g[0] = <<>>
        /\ \A k \in 1..n + 1 : g[k] = g[k - 1] \o more[k]
        /\ FlattenSeq(more) = g[n + 1]
  <2>1. \E g \in [0..Len(more) -> Seq(A)] :
          /\ g[0] = <<>>
          /\ \A k \in 1..Len(more) : g[k] = g[k - 1] \o more[k]
          /\ FlattenSeq(more) = g[Len(more)]
    BY <1>1, FlattenIs, Zenon
  <2> QED
    BY <1>1, <2>1, Zenon
<1> DEFINE Good == {k \in 0..n : f[k] = g[k]}
<1>4. 0..n \subseteq Good
  <2>1. 0 \in Good
    BY <1>1, <1>2, <1>3
  <2>2. ASSUME NEW k \in 1..n, k - 1 \in Good PROVE k \in Good
    <3>1. k \in 1..n + 1 /\ f[k - 1] = g[k - 1] /\ k \in 0..n
      BY <1>1, <2>2
    <3>2. f[k] = f[k - 1] \o seqs[k] /\ g[k] = g[k - 1] \o more[k] /\ more[k] = seqs[k]
      BY <1>1, <1>2, <1>3, <3>1, Zenon
    <3> QED
      BY <3>1, <3>2
  <2> HIDE DEF Good
  <2> QED
    BY <1>1, <2>1, <2>2, UpTo
<1>5. f[n] = g[n] /\ n \in 0..n
  BY <1>1, <1>4
<1>6. g[n + 1] = g[n] \o last
  <2>1. n + 1 \in 1..n + 1 /\ (n + 1) - 1 = n
    BY <1>1
  <2> QED
    BY <1>1, <1>3, <2>1
<1> QED
  BY <1>2, <1>3, <1>5, <1>6 DEF more
=============================================================================
