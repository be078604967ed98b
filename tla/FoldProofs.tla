------------------------------ MODULE FoldProofs ------------------------------
(***************************************************************************)
(* Theorems about Report and CVLBlocks, for every value of their           *)
(* constants.  Both compute with the folds of the library, so the lemmas   *)
(* before the components' own say what FlattenSeq, FoldSeq and FoldLeft    *)
(* return, by induction on their recursive definitions.  Of a report:      *)
(* nothing is lost or reported twice, and what is called verified was.  Of *)
(* a CVL file: however deep its blocks nest, its lines come in order,      *)
(* closed and indented by what is open.                                    *)
(***************************************************************************)
EXTENDS Report, CVLBlocks, FiniteSetTheorems, WellFoundedInduction, TLAPS

-----------------------------------------------------------------------------
(* Induction, on numbers and on the subsets of a finite set, for the        *)
(* existence of what is defined by recursion.                               *)

Less == {p \in Nat \X Nat : p[1] < p[2]}

LEMMA NatWF == IsWellFoundedOn(Less, Nat)
  <1>1. IsWellFoundedOn(OpToRel(<, Nat), Nat)
    BY NatLessThanWellFounded
  <1>2. OpToRel(<, Nat) = Less
    BY DEF OpToRel, Less
  <1>3. QED BY <1>1, <1>2

\* A set with zero that is closed under successor holds every natural number.
LEMMA NatClosed ==
  ASSUME NEW T, 0 \in T, \A n \in Nat : n \in T => n + 1 \in T
  PROVE  Nat \subseteq T
  <1> DEFINE bad == Nat \ T
  <1>1. SUFFICES ASSUME bad # {} PROVE FALSE
    OBVIOUS
  <1>2. \E x \in bad : \A y \in bad : ~(<<y, x>> \in Less)
    <2> HIDE DEF bad
    <2>1. bad \subseteq Nat BY DEF bad
    <2>2. QED BY <1>1, <2>1, NatWF, WFMin
  <1>3. PICK x \in bad : \A y \in bad : ~(<<y, x>> \in Less)
    BY <1>2
  <1>4. x \in Nat /\ x # 0 /\ x - 1 \in Nat /\ x - 1 < x /\ (x - 1) + 1 = x
    OBVIOUS
  <1>5. x - 1 \notin T
    BY <1>4
  <1> DEFINE p == <<x - 1, x>>
  <1>6. p \in Nat \X Nat /\ p[1] = x - 1 /\ p[2] = x
    BY <1>4
  <1>7. p \in Less
    <2> HIDE DEF p
    <2>1. QED BY <1>4, <1>6 DEF Less
  <1>8. QED BY <1>3, <1>4, <1>5, <1>7

\* A family of subsets of a finite set that holds a set whenever it holds what
\* is left of it without a member holds all of them.
LEMMA SubsetsClosed ==
  ASSUME NEW S, IsFiniteSet(S), NEW U, {} \in U,
         \A s \in SUBSET S : s # {} /\ (\A x \in s : s \ {x} \in U) => s \in U
  PROVE  SUBSET S \subseteq U
  <1> DEFINE T == {n \in Nat : \A s \in SUBSET S : Cardinality(s) = n => s \in U}
  <1>1. \A s \in SUBSET S : IsFiniteSet(s) /\ Cardinality(s) \in Nat
    BY FS_Subset, FS_CardinalityType
  <1>2. 0 \in T
    BY <1>1, FS_EmptySet
  <1>3. ASSUME NEW n \in Nat, n \in T PROVE n + 1 \in T
    <2>1. SUFFICES ASSUME NEW s \in SUBSET S, Cardinality(s) = n + 1 PROVE s \in U
      OBVIOUS
    <2>2. s # {}
      <3>1. Cardinality({}) = 0 /\ n + 1 # 0
        BY FS_EmptySet
      <3>2. QED BY <2>1, <3>1
    <2>3. ASSUME NEW x \in s PROVE s \ {x} \in U
      <3>1. Cardinality(s \ {x}) = n
        BY <1>1, <2>1, FS_RemoveElement
      <3>2. QED BY <1>3, <3>1
    <2>4. QED BY <2>2, <2>3
  <1>4. Nat \subseteq T
    <2> HIDE DEF T
    <2>1. QED BY <1>2, <1>3, NatClosed
  <1>5. QED BY <1>1, <1>4

\* A step function is iterated along 0..n.
IsStep(G, n, V) == G \in [(1..n) \X V -> V]
Iterates(f, G, base, n, V) ==
  f \in [0..n -> V] /\ f[0] = base /\ \A i \in 1..n : f[i] = G[<<i, f[i - 1]>>]

LEMMA Iterate ==
  ASSUME NEW n \in Nat, NEW V, NEW base \in V, NEW G, IsStep(G, n, V)
  PROVE  \E f : Iterates(f, G, base, n, V)
  <1> DEFINE Steps(m, f) == f[0] = base /\ \A i \in 1..m : f[i] = G[<<i, f[i - 1]>>]
             T == {m \in Nat : m <= n => \E f \in [0..m -> V] : Steps(m, f)}
  <1>1. 0 \in T
    <2>1. [i \in 0..0 |-> base] \in [0..0 -> V] /\ Steps(0, [i \in 0..0 |-> base])
      OBVIOUS
    <2>2. QED BY <2>1
  <1>2. ASSUME NEW m \in Nat, m \in T PROVE m + 1 \in T
    <2>1. SUFFICES ASSUME m + 1 <= n PROVE \E f \in [0..(m + 1) -> V] : Steps(m + 1, f)
      OBVIOUS
    <2>2. PICK f \in [0..m -> V] : Steps(m, f)
      BY <1>2, <2>1
    <2> DEFINE v == G[<<m + 1, f[m]>>]
               h == [i \in 0..(m + 1) |-> IF i <= m THEN f[i] ELSE v]
    <2>3. v \in V
      <3>1. f[m] \in V /\ m + 1 \in 1..n
        BY <2>1
      <3>2. <<m + 1, f[m]>> \in (1..n) \X V
        BY <3>1
      <3>3. QED BY <3>2 DEF IsStep
    <2>4. h \in [0..(m + 1) -> V]
      <3> HIDE DEF v
      <3>1. QED BY <2>3
    <2>5. h[0] = base
      BY <2>2
    <2>6. ASSUME NEW i \in 1..(m + 1) PROVE h[i] = G[<<i, h[i - 1]>>]
      <3> HIDE DEF v
      <3>1. CASE i <= m
        <4>1. i \in 1..m /\ i - 1 \in 0..m /\ i \in 0..(m + 1) /\ i - 1 \in 0..(m + 1)
          BY <3>1
        <4>2. h[i] = f[i] /\ h[i - 1] = f[i - 1]
          BY <3>1, <4>1
        <4>3. QED BY <2>2, <4>1, <4>2
      <3>2. CASE i = m + 1
        <4>1. i - 1 = m /\ m \in 0..(m + 1) /\ i \in 0..(m + 1) /\ ~(i <= m)
          BY <3>2
        <4>2. h[i] = v /\ h[i - 1] = f[m]
          BY <4>1
        <4>3. QED BY <3>2, <4>2 DEF v
      <3>3. QED BY <3>1, <3>2
    <2>7. QED
      <3> HIDE DEF h
      <3>1. QED BY <2>4, <2>5, <2>6
  <1>3. Nat \subseteq T
    <2> HIDE DEF T
    <2>1. QED BY <1>1, <1>2, NatClosed
  <1>4. QED BY <1>3 DEF Iterates

\* A step function is folded over the subsets of a finite set.
IsFold(f, G, base, pick, S, V) ==
  /\ f \in [SUBSET S -> V]
  /\ \A s \in SUBSET S : f[s] = IF s = {} THEN base ELSE G[<<pick[s], f[s \ {pick[s]}]>>]
Picks(pick, S) == \A s \in SUBSET S : s # {} => pick[s] \in s

LEMMA FoldExists ==
  ASSUME NEW S, IsFiniteSet(S), NEW V, NEW base \in V, NEW G, G \in [S \X V -> V],
         NEW pick, Picks(pick, S)
  PROVE  \E f : IsFold(f, G, base, pick, S, V)
  <1> DEFINE Upto(m) == {s \in SUBSET S : Cardinality(s) <= m}
             Folds(f, D) == \A s \in D :
               f[s] = IF s = {} THEN base ELSE G[<<pick[s], f[s \ {pick[s]}]>>]
             T == {m \in Nat : \E f \in [Upto(m) -> V] : Folds(f, Upto(m))}
  <1>1. \A s \in SUBSET S : IsFiniteSet(s) /\ Cardinality(s) \in Nat
    BY FS_Subset, FS_CardinalityType
  <1>2. 0 \in T
    <2>1. \A s \in Upto(0) : s = {}
      BY <1>1, FS_EmptySet
    <2>2. [s \in Upto(0) |-> base] \in [Upto(0) -> V]
      OBVIOUS
    <2>3. Folds([s \in Upto(0) |-> base], Upto(0))
      BY <2>1
    <2>4. QED BY <2>2, <2>3
  <1>3. ASSUME NEW m \in Nat, m \in T PROVE m + 1 \in T
    <2>1. PICK f \in [Upto(m) -> V] : Folds(f, Upto(m))
      BY <1>3
    <2>2. ASSUME NEW s \in Upto(m + 1), s # {}
          PROVE  pick[s] \in s /\ s \ {pick[s]} \in Upto(m)
      <3>1. pick[s] \in s
        BY <2>2 DEF Picks
      <3>2. Cardinality(s \ {pick[s]}) = Cardinality(s) - 1
        BY <1>1, <3>1, FS_RemoveElement
      <3>3. Cardinality(s) \in Nat /\ Cardinality(s) <= m + 1
        BY <1>1
      <3>4. QED BY <3>1, <3>2, <3>3
    <2>3. Upto(m) \subseteq Upto(m + 1)
      BY <1>1
    <2> DEFINE h == [s \in Upto(m + 1) |->
                       IF s = {} THEN base ELSE G[<<pick[s], f[s \ {pick[s]}]>>]]
    <2> HIDE DEF Upto
    <2>4. h \in [Upto(m + 1) -> V]
      <3>1. ASSUME NEW s \in Upto(m + 1), s # {} PROVE G[<<pick[s], f[s \ {pick[s]}]>>] \in V
        <4>1. pick[s] \in S /\ f[s \ {pick[s]}] \in V
          BY <2>2, <3>1 DEF Upto
        <4>2. <<pick[s], f[s \ {pick[s]}]>> \in S \X V
          BY <4>1
        <4>3. QED BY <4>2
      <3>2. QED BY <3>1
    <2>5. \A s \in Upto(m) : h[s] = f[s]
      BY <2>1, <2>3
    <2>6. Folds(h, Upto(m + 1))
      BY <2>2, <2>5
    <2>7. QED
      <3> HIDE DEF h, Folds
      <3>1. QED BY <2>4, <2>6
  <1>4. Nat \subseteq T
    <2> HIDE DEF T
    <2>1. QED BY <1>2, <1>3, NatClosed
  <1>5. PICK f \in [Upto(Cardinality(S)) -> V] : Folds(f, Upto(Cardinality(S)))
    BY <1>1, <1>4
  <1>6. Upto(Cardinality(S)) = SUBSET S
    BY FS_Subset, FS_CardinalityType
  <1>7. QED BY <1>5, <1>6 DEF IsFold

-----------------------------------------------------------------------------
(* FlattenSeq.                                                              *)

\* The recursion of FlattenSeq: what is made of the first i sequences.
LEMMA FlattenSteps ==
  ASSUME NEW A, NEW seqs \in Seq(Seq(A)), seqs # <<>>
  PROVE  \E f \in [1..Len(seqs) -> Seq(A)] :
           /\ f[1] = seqs[1]
           /\ \A i \in 1..Len(seqs) : i # 1 => f[i] = f[i - 1] \o seqs[i]
           /\ FlattenSeq(seqs) = f[Len(seqs)]
  <1> DEFINE n == Len(seqs)
             V == Seq(A)
             G == [p \in (1..n) \X V |-> IF p[1] = 1 THEN seqs[1] ELSE p[2] \o seqs[p[1]]]
  <1>1. n \in Nat /\ n # 0 /\ \A i \in 1..n : seqs[i] \in V
    OBVIOUS
  <1>2. <<>> \in V
    OBVIOUS
  <1>3. G \in [(1..n) \X V -> V]
    <2>1. ASSUME NEW p \in (1..n) \X V
          PROVE  (IF p[1] = 1 THEN seqs[1] ELSE p[2] \o seqs[p[1]]) \in V
      <3>1. p[1] \in 1..n /\ p[2] \in V /\ 1 \in 1..n
        BY <1>1
      <3>2. seqs[1] \in V /\ seqs[p[1]] \in V
        BY <1>1, <3>1
      <3>3. QED BY <3>1, <3>2
    <2>2. QED BY <2>1
  <1>4. PICK g : Iterates(g, G, <<>>, n, V)
    <2>1. IsStep(G, n, V)
      BY <1>3 DEF IsStep
    <2> HIDE DEF n, V, G
    <2>2. QED BY <1>1, <1>2, <2>1, Iterate
  <1>5. ASSUME NEW i \in 1..n PROVE g[i] = IF i = 1 THEN seqs[i] ELSE g[i - 1] \o seqs[i]
    <2>1. i - 1 \in 0..n
      BY <1>1
    <2>2. g[i - 1] \in V
      BY <1>4, <2>1 DEF Iterates
    <2>3. <<i, g[i - 1]>> \in (1..n) \X V
      BY <2>2
    <2>4. QED BY <1>4, <2>3 DEF Iterates
  <1> DEFINE h == [i \in 1..n |-> g[i]]
  <1>6. h = [i \in 1..n |-> IF i = 1 THEN seqs[i] ELSE h[i - 1] \o seqs[i]]
    <2>1. ASSUME NEW i \in 1..n PROVE h[i] = IF i = 1 THEN seqs[i] ELSE h[i - 1] \o seqs[i]
      <3>1. CASE i = 1
        BY <1>5, <3>1
      <3>2. CASE i # 1
        <4>1. i - 1 \in 1..n
          BY <1>1, <3>2
        <4>2. h[i] = g[i] /\ h[i - 1] = g[i - 1]
          BY <4>1
        <4>3. QED BY <1>5, <3>2, <4>2
      <3>3. QED BY <3>1, <3>2
    <2>2. QED BY <2>1
  <1> DEFINE f == CHOOSE f : f = [i \in 1..n |-> IF i = 1 THEN seqs[i] ELSE f[i - 1] \o seqs[i]]
  <1>7. f = [i \in 1..n |-> IF i = 1 THEN seqs[i] ELSE f[i - 1] \o seqs[i]]
    <2> HIDE DEF h
    <2>1. QED BY <1>6
  <1>8. FlattenSeq(seqs) = f[n]
    BY <1>1 DEF FlattenSeq
  <1> DEFINE T == {m \in Nat : m + 1 <= n => f[m + 1] \in V}
  <1>9. Nat \subseteq T
    <2> HIDE DEF f
    <2>1. 0 \in T
      BY <1>1, <1>7
    <2>2. ASSUME NEW m \in Nat, m \in T PROVE m + 1 \in T
      <3>1. SUFFICES ASSUME (m + 1) + 1 <= n PROVE f[(m + 1) + 1] \in V
        OBVIOUS
      <3> DEFINE k == m + 1
      <3>2. k + 1 \in 1..n /\ k + 1 # 1 /\ (k + 1) - 1 = k
        BY <1>1, <3>1
      <3>3. f[k] \in V
        BY <1>1, <2>2, <3>1
      <3>4. f[k + 1] = f[k] \o seqs[k + 1]
        BY <1>7, <3>2
      <3>5. QED BY <1>1, <3>2, <3>3, <3>4
    <2> HIDE DEF T
    <2>3. QED BY <2>1, <2>2, NatClosed
  <1>10. f \in [1..n -> V]
    <2> HIDE DEF f
    <2>1. ASSUME NEW i \in 1..n PROVE f[i] \in V
      <3>1. i - 1 \in Nat /\ (i - 1) + 1 = i /\ i <= n
        BY <1>1
      <3>2. QED BY <1>9, <3>1
    <2>2. DOMAIN f = 1..n /\ f = [i \in DOMAIN f |-> f[i]]
      BY <1>7
    <2>3. QED BY <2>1, <2>2
  <1>11. QED
    <2> HIDE DEF f
    <2>1. 1 \in 1..n
      BY <1>1
    <2>2. QED BY <1>7, <1>8, <1>10, <2>1

LEMMA RangeOfConcat ==
  ASSUME NEW A, NEW s \in Seq(A), NEW t \in Seq(A)
  PROVE  s \o t \in Seq(A) /\ Range(s \o t) = Range(s) \cup Range(t)
  <1>1. /\ s \o t \in Seq(A) /\ Len(s \o t) = Len(s) + Len(t)
        /\ DOMAIN s = 1..Len(s) /\ DOMAIN t = 1..Len(t) /\ DOMAIN (s \o t) = 1..(Len(s) + Len(t))
        /\ \A i \in 1..(Len(s) + Len(t)) : (s \o t)[i] = IF i <= Len(s) THEN s[i] ELSE t[i - Len(s)]
    OBVIOUS
  <1>2. ASSUME NEW x \in Range(s \o t) PROVE x \in Range(s) \cup Range(t)
    <2>1. PICK i \in 1..(Len(s) + Len(t)) : x = (s \o t)[i]
      BY <1>1 DEF Range
    <2>2. CASE i <= Len(s)
      BY <1>1, <2>1, <2>2 DEF Range
    <2>3. CASE ~(i <= Len(s))
      <3>1. i - Len(s) \in 1..Len(t)
        BY <2>3
      <3>2. QED BY <1>1, <2>1, <2>3, <3>1 DEF Range
    <2>4. QED BY <2>2, <2>3
  <1>3. ASSUME NEW x \in Range(s) PROVE x \in Range(s \o t)
    <2>1. PICK i \in 1..Len(s) : x = s[i]
      BY <1>1, <1>3 DEF Range
    <2>2. i \in 1..(Len(s) + Len(t)) /\ (s \o t)[i] = s[i]
      BY <1>1
    <2>3. QED BY <1>1, <2>1, <2>2 DEF Range
  <1>4. ASSUME NEW x \in Range(t) PROVE x \in Range(s \o t)
    <2>1. PICK i \in 1..Len(t) : x = t[i]
      BY <1>1, <1>4 DEF Range
    <2>2. i + Len(s) \in 1..(Len(s) + Len(t)) /\ ~(i + Len(s) <= Len(s)) /\ (i + Len(s)) - Len(s) = i
      OBVIOUS
    <2>3. (s \o t)[i + Len(s)] = t[i]
      BY <1>1, <2>2
    <2>4. QED BY <1>1, <2>1, <2>2, <2>3 DEF Range
  <1>5. QED BY <1>1, <1>2, <1>3, <1>4

\* What FlattenSeq returns is a sequence of what its sequences hold.
LEMMA FlattenType ==
  ASSUME NEW A, NEW seqs \in Seq(Seq(A))
  PROVE  FlattenSeq(seqs) \in Seq(A)
  <1>1. CASE seqs = <<>>
    BY <1>1 DEF FlattenSeq
  <1>2. CASE seqs # <<>>
    <2>1. PICK f \in [1..Len(seqs) -> Seq(A)] : FlattenSeq(seqs) = f[Len(seqs)]
      BY <1>2, FlattenSteps
    <2>2. Len(seqs) \in 1..Len(seqs)
      BY <1>2
    <2>3. QED BY <2>1, <2>2
  <1>3. QED BY <1>1, <1>2

LEMMA FlattenRange ==
  ASSUME NEW A, NEW seqs \in Seq(Seq(A))
  PROVE  Range(FlattenSeq(seqs)) = UNION {Range(seqs[i]) : i \in DOMAIN seqs}
  <1>1. CASE seqs = <<>>
    <2>1. FlattenSeq(seqs) = <<>> /\ DOMAIN seqs = {}
      BY <1>1 DEF FlattenSeq
    <2>2. QED BY <2>1 DEF Range
  <1>2. CASE seqs # <<>>
    <2> DEFINE n == Len(seqs)
               Upto(m) == UNION {Range(seqs[i]) : i \in 1..m}
    <2>1. n \in Nat /\ n # 0 /\ DOMAIN seqs = 1..n /\ \A i \in 1..n : seqs[i] \in Seq(A)
      BY <1>2
    <2>2. PICK f \in [1..n -> Seq(A)] :
            /\ f[1] = seqs[1]
            /\ \A i \in 1..n : i # 1 => f[i] = f[i - 1] \o seqs[i]
            /\ FlattenSeq(seqs) = f[n]
      BY <1>2, FlattenSteps
    <2> DEFINE U == {m \in Nat : m + 1 <= n => Range(f[m + 1]) = Upto(m + 1)}
    <2>3. 0 \in U
      BY <2>2
    <2>4. ASSUME NEW m \in Nat, m \in U PROVE m + 1 \in U
      <3> DEFINE k == m + 1
      <3>1. SUFFICES ASSUME k + 1 <= n PROVE Range(f[k + 1]) = Upto(k + 1)
        OBVIOUS
      <3>2. k \in 1..n /\ k + 1 \in 1..n /\ k + 1 # 1 /\ (k + 1) - 1 = k /\ 1..(k + 1) = (1..k) \cup {k + 1}
        BY <2>1, <3>1
      <3>3. Range(f[k]) = Upto(k)
        BY <2>4, <3>1, <3>2
      <3> HIDE DEF k
      <3>4. f[k + 1] = f[k] \o seqs[k + 1] /\ f[k] \in Seq(A) /\ seqs[k + 1] \in Seq(A)
        BY <2>1, <2>2, <3>2
      <3>5. Range(f[k + 1]) = Range(f[k]) \cup Range(seqs[k + 1])
        BY <3>4, RangeOfConcat
      <3>6. Upto(k + 1) = Upto(k) \cup Range(seqs[k + 1])
        BY <3>2
      <3>7. QED BY <3>3, <3>5, <3>6
    <2>5. Nat \subseteq U
      <3> HIDE DEF U
      <3>1. QED BY <2>3, <2>4, NatClosed
    <2>6. n - 1 \in Nat /\ (n - 1) + 1 = n
      BY <2>1
    <2>7. Range(f[n]) = Upto(n)
      <3>1. n - 1 \in U
        BY <2>5, <2>6
      <3>2. QED BY <3>1, <2>6
    <2>8. QED BY <2>1, <2>2, <2>7
  <1>3. QED BY <1>1, <1>2

\* A value that two of the sequences hold is twice in what they are flattened to.
Twice(s) == \E p, q \in DOMAIN s : p # q /\ s[p] = s[q]

LEMMA TwiceInConcat ==
  ASSUME NEW A, NEW s \in Seq(A), NEW t \in Seq(A),
         Twice(s) \/ Range(s) \cap Range(t) # {}
  PROVE  Twice(s \o t)
  <1>1. /\ DOMAIN s = 1..Len(s) /\ DOMAIN t = 1..Len(t) /\ DOMAIN (s \o t) = 1..(Len(s) + Len(t))
        /\ \A i \in 1..(Len(s) + Len(t)) : (s \o t)[i] = IF i <= Len(s) THEN s[i] ELSE t[i - Len(s)]
        /\ Len(s) \in Nat /\ Len(t) \in Nat
    OBVIOUS
  <1>2. CASE Twice(s)
    <2>1. PICK p, q \in 1..Len(s) : p # q /\ s[p] = s[q]
      BY <1>1, <1>2 DEF Twice
    <2>2. p \in 1..(Len(s) + Len(t)) /\ q \in 1..(Len(s) + Len(t)) /\ p <= Len(s) /\ q <= Len(s)
      BY <1>1
    <2>3. (s \o t)[p] = (s \o t)[q]
      BY <1>1, <2>1, <2>2
    <2>4. QED BY <1>1, <2>1, <2>2, <2>3 DEF Twice
  <1>3. CASE Range(s) \cap Range(t) # {}
    <2>1. PICK p \in 1..Len(s), q \in 1..Len(t) : s[p] = t[q]
      BY <1>1, <1>3 DEF Range
    <2> DEFINE r == q + Len(s)
    <2>2. p \in 1..(Len(s) + Len(t)) /\ r \in 1..(Len(s) + Len(t)) /\ p <= Len(s) /\ ~(r <= Len(s)) /\ r - Len(s) = q
      BY <1>1
    <2>3. (s \o t)[p] = s[p] /\ (s \o t)[r] = t[q]
      BY <1>1, <2>2
    <2>4. p # r
      BY <2>2
    <2> HIDE DEF r
    <2>5. QED BY <1>1, <2>1, <2>2, <2>3, <2>4 DEF Twice
  <1>4. QED BY <1>2, <1>3

LEMMA FlattenTwice ==
  ASSUME NEW A, NEW seqs \in Seq(Seq(A)), NEW i \in DOMAIN seqs, NEW j \in DOMAIN seqs, i < j,
         Range(seqs[i]) \cap Range(seqs[j]) # {}
  PROVE  Twice(FlattenSeq(seqs))
  <1> DEFINE n == Len(seqs)
  <1>1. n \in Nat /\ DOMAIN seqs = 1..n /\ seqs # <<>> /\ \A k \in 1..n : seqs[k] \in Seq(A)
    OBVIOUS
  <1>2. PICK f \in [1..n -> Seq(A)] :
          /\ f[1] = seqs[1]
          /\ \A k \in 1..n : k # 1 => f[k] = f[k - 1] \o seqs[k]
          /\ FlattenSeq(seqs) = f[n]
    BY <1>1, FlattenSteps
  <1> DEFINE Holds(k) == (i <= k => Range(seqs[i]) \subseteq Range(f[k])) /\ (j <= k => Twice(f[k]))
             U == {m \in Nat : m + 1 <= n => Holds(m + 1)}
  <1>3. 0 \in U
    <2>1. SUFFICES ASSUME 1 <= n PROVE Holds(1)
      OBVIOUS
    <2>2. ~(j <= 1) /\ (i <= 1 => i = 1)
      BY <1>1
    <2>3. QED BY <1>2, <2>2
  <1>4. ASSUME NEW m \in Nat, m \in U PROVE m + 1 \in U
    <2> DEFINE k == m + 1
    <2>1. SUFFICES ASSUME k + 1 <= n PROVE Holds(k + 1)
      OBVIOUS
    <2>2. k \in 1..n /\ k + 1 \in 1..n /\ k + 1 # 1 /\ (k + 1) - 1 = k
      BY <1>1, <2>1
    <2>3. Holds(k)
      BY <1>4, <2>1, <2>2
    <2> HIDE DEF k
    <2>4. f[k + 1] = f[k] \o seqs[k + 1] /\ f[k] \in Seq(A) /\ seqs[k + 1] \in Seq(A)
      BY <1>1, <1>2, <2>2
    <2>5. Range(f[k + 1]) = Range(f[k]) \cup Range(seqs[k + 1])
      BY <2>4, RangeOfConcat
    <2>6. i <= k + 1 => Range(seqs[i]) \subseteq Range(f[k + 1])
      <3>1. i <= k + 1 => i <= k \/ i = k + 1
        BY <1>1, <2>2
      <3>2. QED BY <2>3, <2>5, <3>1
    <2>7. j <= k + 1 => Twice(f[k + 1])
      <3>1. CASE j <= k
        BY <2>3, <2>4, <3>1, TwiceInConcat
      <3>2. CASE j = k + 1
        <4>1. i <= k
          BY <1>1, <2>2, <3>2
        <4>2. Range(f[k]) \cap Range(seqs[k + 1]) # {}
          BY <2>3, <3>2, <4>1
        <4>3. QED BY <2>4, <4>2, TwiceInConcat
      <3>3. j <= k + 1 => j <= k \/ j = k + 1
        BY <1>1, <2>2
      <3>4. QED BY <3>1, <3>2, <3>3
    <2>8. QED BY <2>6, <2>7
  <1>5. Nat \subseteq U
    <2> HIDE DEF U
    <2>1. QED BY <1>3, <1>4, NatClosed
  <1>6. n - 1 \in Nat /\ (n - 1) + 1 = n /\ j <= n
    BY <1>1
  <1>7. Holds(n)
    <2>1. n - 1 \in U
      BY <1>5, <1>6
    <2>2. QED BY <2>1, <1>6
  <1>8. QED BY <1>2, <1>6, <1>7

\* A sequence of as many values as it has places has none of them twice.
LEMMA NoneTwice ==
  ASSUME NEW A, NEW s \in Seq(A), Cardinality(Range(s)) = Len(s)
  PROVE  ~Twice(s)
  <1> DEFINE D == DOMAIN s
             R == Range(s)
  <1>1. D = 1..Len(s) /\ Len(s) \in Nat /\ s = [i \in D |-> s[i]]
    OBVIOUS
  <1>2. IsFiniteSet(D) /\ Cardinality(D) = Len(s)
    <2> DEFINE m == Len(s)
    <2>1. 1 \in Int /\ m \in Int /\ m \in Nat
      BY <1>1
    <2> HIDE DEF m
    <2>2. IsFiniteSet(1..m) /\ Cardinality(1..m) = IF 1 > m THEN 0 ELSE m - 1 + 1
      BY <2>1, FS_Interval
    <2>3. Cardinality(1..m) = m
      BY <2>1, <2>2
    <2>4. QED BY <1>1, <2>2, <2>3 DEF m
  <1>3. s \in Surjection(D, R)
    BY <1>1 DEF Surjection, Range
  <1>4. s \in Injection(D, R)
    <2> HIDE DEF D, R
    <2>1. Cardinality(D) = Cardinality(R)
      BY <1>2 DEF R
    <2>2. QED BY <1>2, <1>3, <2>1, FS_SurjSameCardinalityImpliesInj
  <1>5. QED BY <1>4 DEF Injection, IsInjective, Twice

-----------------------------------------------------------------------------
(* The verdicts of a run: a fold over its checks.                           *)

\* A rule's verdict, with the file of one of the checks.
VerdictIn(F) == [status : Statuses, file : F]
Verdict(cs) == VerdictIn({cs[i].file : i \in DOMAIN cs})
Tables(cs) == UNION {[R -> Verdict(cs)] : R \in SUBSET {cs[i].rule : i \in DOMAIN cs}}

\* What the table of a run's verdicts says of the checks at the places in s.
Tells(cs, s, vs) ==
  /\ DOMAIN vs = {cs[i].rule : i \in s}
  /\ \A r \in DOMAIN vs : vs[r].status = "VERIFIED" =>
       \A i \in s : cs[i].rule = r => cs[i].status = "VERIFIED"
  /\ \A r \in DOMAIN vs : vs[r].file # "" => \E i \in s : cs[i].rule = r /\ cs[i].file = vs[r].file
  /\ \A i \in s : cs[i].file # "" => vs[cs[i].rule].file # ""

\* What a merged verdict owes to the two.
MergedFrom(m, v, o) ==
  /\ m.status = "VERIFIED" => v.status = "VERIFIED" /\ o.status = "VERIFIED"
  /\ m.file = v.file \/ m.file = o.file
  /\ m.file = "" => v.file = "" /\ o.file = ""

VerdictOf(c) == [status |-> c.status, file |-> c.file]

\* What a table with one check more owes to the table without it.
AddedTo(new, c, vs) ==
  /\ DOMAIN new = DOMAIN vs \cup {c.rule}
  /\ \A r \in DOMAIN vs : r # c.rule => new[r] = vs[r]
  /\ c.rule \notin DOMAIN vs => new[c.rule] = VerdictOf(c)
  /\ c.rule \in DOMAIN vs => new[c.rule] = Merge(VerdictOf(c), vs[c.rule])

\* A merged verdict is VERIFIED only if both were, and has a file if either had.
LEMMA MergeTells ==
  ASSUME NEW F, NEW v \in VerdictIn(F), NEW o \in VerdictIn(F)
  PROVE  Merge(v, o) \in VerdictIn(F) /\ MergedFrom(Merge(v, o), v, o)
  <1>1. o # <<>>
    <2>1. DOMAIN o = {"status", "file"} /\ DOMAIN <<>> = {}
      BY DEF VerdictIn
    <2>2. QED BY <2>1
  <1> DEFINE hi == IF Priority[v.status] >= Priority[o.status] THEN v ELSE o
             lo == IF hi = v THEN o ELSE v
  <1>2. Merge(v, o) = [hi EXCEPT !.file = IF hi.file # "" THEN @ ELSE lo.file]
    BY <1>1 DEF Merge
  <1>3. (hi = v /\ lo = o) \/ (hi = o /\ lo = v)
    OBVIOUS
  <1>4. hi.status = "VERIFIED" => lo.status = "VERIFIED"
    <2>1. \A st \in Statuses : Priority[st] \in Nat /\ (Priority[st] = 0 => st = "VERIFIED")
      BY DEF Statuses, Priority
    <2>2. Priority["VERIFIED"] = 0
      BY DEF Priority
    <2>3. v.status \in Statuses /\ o.status \in Statuses
      BY DEF VerdictIn
    <2>4. Priority[hi.status] >= Priority[lo.status]
      BY <2>1, <2>3
    <2>5. QED BY <1>3, <2>1, <2>2, <2>3, <2>4
  <1>5. hi \in VerdictIn(F) /\ lo \in VerdictIn(F)
    BY <1>3
  <1> HIDE DEF hi, lo
  <1>6. CASE hi.file # ""
    <2>1. Merge(v, o) = hi
      BY <1>2, <1>5, <1>6 DEF VerdictIn
    <2>2. QED BY <1>3, <1>4, <1>5, <1>6, <2>1 DEF MergedFrom
  <1>7. CASE hi.file = ""
    <2>1. Merge(v, o) = [hi EXCEPT !.file = lo.file]
      BY <1>2, <1>7
    <2>2. /\ Merge(v, o) \in VerdictIn(F)
          /\ Merge(v, o).status = hi.status /\ Merge(v, o).file = lo.file
      BY <1>5, <2>1 DEF VerdictIn
    <2>3. QED BY <1>3, <1>4, <1>7, <2>2 DEF MergedFrom
  <1>8. QED BY <1>6, <1>7

LEMMA AddCheckType ==
  ASSUME NEW cs, \A i \in DOMAIN cs : cs[i].status \in Statuses,
         NEW x \in DOMAIN cs, NEW vs \in Tables(cs)
  PROVE  AddCheck(cs[x], vs) \in Tables(cs) /\ AddedTo(AddCheck(cs[x], vs), cs[x], vs)
  <1> DEFINE c == cs[x]
             v == VerdictOf(c)
             F == {cs[i].file : i \in DOMAIN cs}
             rules == {cs[i].rule : i \in DOMAIN cs}
             new == AddCheck(c, vs)
  <1>1. PICK R \in SUBSET rules : vs \in [R -> Verdict(cs)]
    BY DEF Tables
  <1>2. v \in Verdict(cs) /\ c.rule \in rules
    BY DEF Verdict, VerdictIn, VerdictOf
  <1>3. DOMAIN vs = R /\ \A r \in R : vs[r] \in Verdict(cs)
    BY <1>1
  <1>4. c.rule \in R => Merge(v, vs[c.rule]) \in Verdict(cs)
    <2> HIDE DEF v, F
    <2>1. ASSUME NEW o \in Verdict(cs) PROVE Merge(v, o) \in Verdict(cs)
      <3>1. v \in VerdictIn(F) /\ o \in VerdictIn(F)
        BY <1>2 DEF Verdict, F
      <3>2. Merge(v, o) \in VerdictIn(F)
        BY <3>1, MergeTells
      <3>3. QED BY <3>2 DEF Verdict, F
    <2>2. QED BY <1>3, <2>1
  <1>5. Merge(v, <<>>) = v
    BY DEF Merge
  <1>6. new = [r \in R \cup {c.rule} |->
                 IF r # c.rule THEN vs[r] ELSE Merge(v, IF r \in R THEN vs[r] ELSE <<>>)]
    BY <1>3 DEF AddCheck, VerdictOf
  <1> HIDE DEF v, c, new
  <1>7. /\ DOMAIN new = R \cup {c.rule}
        /\ \A r \in R : r # c.rule => new[r] = vs[r]
        /\ c.rule \notin R => new[c.rule] = v
        /\ c.rule \in R => new[c.rule] = Merge(v, vs[c.rule])
    BY <1>5, <1>6
  <1>8. \A r \in R \cup {c.rule} : new[r] \in Verdict(cs)
    BY <1>2, <1>3, <1>4, <1>7
  <1>9. new = [r \in R \cup {c.rule} |-> new[r]]
    BY <1>6, <1>7
  <1>10. new \in [R \cup {c.rule} -> Verdict(cs)]
    BY <1>8, <1>9
  <1>11. R \cup {c.rule} \in SUBSET rules
    BY <1>2
  <1>12. new \in Tables(cs)
    BY <1>10, <1>11 DEF Tables
  <1>13. QED BY <1>3, <1>7, <1>12 DEF v, c, new, AddedTo

LEMMA AddCheckTells ==
  ASSUME NEW cs, \A i \in DOMAIN cs : cs[i].status \in Statuses,
         NEW s \in SUBSET DOMAIN cs, NEW x \in s, NEW vs \in Tables(cs), Tells(cs, s \ {x}, vs)
  PROVE  Tells(cs, s, AddCheck(cs[x], vs))
  <1> DEFINE c == cs[x]
             v == VerdictOf(c)
             new == AddCheck(c, vs)
             F == {cs[i].file : i \in DOMAIN cs}
  <1>1. /\ DOMAIN new = DOMAIN vs \cup {c.rule}
        /\ \A r \in DOMAIN vs : r # c.rule => new[r] = vs[r]
        /\ c.rule \notin DOMAIN vs => new[c.rule] = v
        /\ c.rule \in DOMAIN vs => new[c.rule] = Merge(v, vs[c.rule])
    <2>1. x \in DOMAIN cs
      OBVIOUS
    <2>2. AddedTo(AddCheck(cs[x], vs), cs[x], vs)
      BY <2>1, AddCheckType
    <2>3. QED BY <2>2 DEF AddedTo
  <1>2. v.status = c.status /\ v.file = c.file /\ v \in VerdictIn(F)
    BY DEF VerdictIn, VerdictOf
  <1>3. c.rule \in DOMAIN vs =>
          /\ new[c.rule].status = "VERIFIED" => c.status = "VERIFIED" /\ vs[c.rule].status = "VERIFIED"
          /\ new[c.rule].file = c.file \/ new[c.rule].file = vs[c.rule].file
          /\ new[c.rule].file = "" => c.file = "" /\ vs[c.rule].file = ""
    <2>1. SUFFICES ASSUME c.rule \in DOMAIN vs
          PROVE  /\ new[c.rule].status = "VERIFIED" => c.status = "VERIFIED" /\ vs[c.rule].status = "VERIFIED"
                 /\ new[c.rule].file = c.file \/ new[c.rule].file = vs[c.rule].file
                 /\ new[c.rule].file = "" => c.file = "" /\ vs[c.rule].file = ""
      OBVIOUS
    <2>2. vs[c.rule] \in VerdictIn(F)
      BY <2>1 DEF Tables, Verdict
    <2> HIDE DEF c, v, new, F
    <2>3. new[c.rule] = Merge(v, vs[c.rule])
      BY <1>1, <2>1
    <2>4. MergedFrom(Merge(v, vs[c.rule]), v, vs[c.rule])
      BY <1>2, <2>2, MergeTells
    <2>5. QED BY <1>2, <2>3, <2>4 DEF MergedFrom
  <1>4. /\ DOMAIN vs = {cs[i].rule : i \in s \ {x}}
        /\ \A r \in DOMAIN vs : vs[r].status = "VERIFIED" =>
             \A i \in s \ {x} : cs[i].rule = r => cs[i].status = "VERIFIED"
        /\ \A r \in DOMAIN vs : vs[r].file # "" =>
             \E i \in s \ {x} : cs[i].rule = r /\ cs[i].file = vs[r].file
        /\ \A i \in s \ {x} : cs[i].file # "" => vs[cs[i].rule].file # ""
    BY DEF Tells
  <1> HIDE DEF v, new
  <1>5. DOMAIN new = {cs[i].rule : i \in s}
    <2>1. {cs[i].rule : i \in s} = {cs[i].rule : i \in s \ {x}} \cup {cs[x].rule}
      OBVIOUS
    <2>2. QED BY <1>1, <1>4, <2>1
  <1>6. ASSUME NEW r \in DOMAIN new, new[r].status = "VERIFIED", NEW i \in s, cs[i].rule = r
        PROVE  cs[i].status = "VERIFIED"
    <2>1. CASE r # c.rule
      BY <1>1, <1>4, <1>6, <2>1
    <2>2. CASE r = c.rule /\ r \in DOMAIN vs
      BY <1>3, <1>4, <1>6, <2>2
    <2>3. CASE r = c.rule /\ r \notin DOMAIN vs
      <3>1. i = x
        BY <1>4, <1>6, <2>3
      <3>2. QED BY <1>1, <1>2, <1>6, <2>3, <3>1
    <2>4. QED BY <2>1, <2>2, <2>3
  <1>7. ASSUME NEW r \in DOMAIN new, new[r].file # ""
        PROVE  \E i \in s : cs[i].rule = r /\ cs[i].file = new[r].file
    <2>1. CASE r # c.rule
      <3>1. r \in DOMAIN vs /\ new[r] = vs[r]
        BY <1>1, <2>1
      <3>2. \E i \in s \ {x} : cs[i].rule = r /\ cs[i].file = vs[r].file
        BY <1>4, <1>7, <3>1
      <3>3. QED BY <3>1, <3>2
    <2>2. CASE r = c.rule /\ r \in DOMAIN vs
      <3>1. CASE new[r].file = c.file
        BY <2>2, <3>1
      <3>2. CASE new[r].file = vs[r].file
        <4>1. \E i \in s \ {x} : cs[i].rule = r /\ cs[i].file = vs[r].file
          BY <1>4, <1>7, <2>2, <3>2
        <4>2. QED BY <3>2, <4>1
      <3>3. QED BY <1>3, <2>2, <3>1, <3>2
    <2>3. CASE r = c.rule /\ r \notin DOMAIN vs
      BY <1>1, <1>2, <2>3
    <2>4. QED BY <2>1, <2>2, <2>3
  <1>8. ASSUME NEW i \in s, cs[i].file # "" PROVE new[cs[i].rule].file # ""
    <2>1. CASE cs[i].rule # c.rule
      <3>1. i \in s \ {x} /\ cs[i].rule \in DOMAIN vs
        BY <1>4, <2>1
      <3>2. QED BY <1>1, <1>4, <1>8, <2>1, <3>1
    <2>2. CASE cs[i].rule = c.rule /\ c.rule \in DOMAIN vs
      <3>1. CASE i = x
        BY <1>3, <1>8, <2>2, <3>1
      <3>2. CASE i # x
        <4>1. vs[c.rule].file # ""
          BY <1>4, <1>8, <2>2, <3>2
        <4>2. QED BY <1>3, <2>2, <4>1
      <3>3. QED BY <3>1, <3>2
    <2>3. CASE cs[i].rule = c.rule /\ c.rule \notin DOMAIN vs
      <3>1. i = x
        <4>1. i # x => cs[i].rule \in DOMAIN vs
          BY <1>4
        <4>2. QED BY <2>3, <4>1
      <3>2. QED BY <1>1, <1>2, <1>8, <2>3, <3>1
    <2>4. QED BY <2>1, <2>2, <2>3
  <1>9. QED BY <1>5, <1>6, <1>7, <1>8 DEF Tells, new

\* The verdicts of a run tell of all of its checks.
LEMMA VerdictsTell ==
  ASSUME NEW cs, ChecksOk(cs)
  PROVE  Tells(cs, DOMAIN cs, Verdicts(cs))
  <1> DEFINE D == DOMAIN cs
             V == Tables(cs)
             base == [r \in {} |-> <<>>]
             pick == [s \in SUBSET D |-> CHOOSE x \in s : TRUE]
             G == [p \in D \X V |-> AddCheck(cs[p[1]], p[2])]
  <1>1. /\ D = 1..Len(cs) /\ Len(cs) \in Nat
        /\ \A i \in D : cs[i].status \in Statuses
    <2>1. cs \in Seq(Range(cs)) /\ \A i \in DOMAIN cs : cs[i].status \in Statuses
      BY DEF ChecksOk
    <2>2. D = 1..Len(cs) /\ Len(cs) \in Nat
      BY <2>1
    <2>3. QED BY <2>1, <2>2
  <1>2. IsFiniteSet(D)
    <2>1. 1 \in Int /\ Len(cs) \in Int
      BY <1>1
    <2>2. QED BY <1>1, <2>1, FS_Interval
  <1>3. base \in V
    <2>1. base \in [{} -> Verdict(cs)] /\ {} \in SUBSET {cs[i].rule : i \in DOMAIN cs}
      OBVIOUS
    <2>2. QED BY <2>1 DEF Tables
  <1>4. G \in [D \X V -> V]
    <2>1. ASSUME NEW p \in D \X V PROVE AddCheck(cs[p[1]], p[2]) \in V
      <3>1. p[1] \in DOMAIN cs /\ p[2] \in Tables(cs)
        OBVIOUS
      <3>2. QED BY <1>1, <3>1, AddCheckType
    <2> HIDE DEF V, D
    <2>2. QED BY <2>1
  <1>5. Picks(pick, D)
    <2>1. ASSUME NEW s \in SUBSET D, s # {} PROVE pick[s] \in s
      <3>1. pick[s] = CHOOSE x \in s : TRUE
        OBVIOUS
      <3>2. QED BY <2>1, <3>1
    <2>2. QED BY <2>1 DEF Picks
  <1>6. PICK f : IsFold(f, G, base, pick, D, V)
    <2> HIDE DEF D, V, base, pick, G
    <2>1. QED BY <1>2, <1>3, <1>4, <1>5, FoldExists
  <1>7. ASSUME NEW s \in SUBSET D, s # {}
        PROVE  /\ pick[s] \in s /\ f[s \ {pick[s]}] \in V
               /\ f[s] = AddCheck(cs[pick[s]], f[s \ {pick[s]}])
    <2>1. pick[s] \in s
      BY <1>5, <1>7 DEF Picks
    <2> HIDE DEF pick
    <2>2. s \ {pick[s]} \in SUBSET D
      OBVIOUS
    <2>3. f[s \ {pick[s]}] \in V
      BY <1>6, <2>2 DEF IsFold
    <2> DEFINE p == <<pick[s], f[s \ {pick[s]}]>>
    <2>4. f[s] = G[p]
      BY <1>6, <1>7 DEF IsFold
    <2>5. p \in D \X V /\ p[1] = pick[s] /\ p[2] = f[s \ {pick[s]}]
      BY <2>1, <2>3
    <2> HIDE DEF p
    <2>6. G[p] = AddCheck(cs[p[1]], p[2])
      BY <2>5
    <2>7. QED BY <2>1, <2>3, <2>4, <2>5, <2>6
  <1> DEFINE iter == CHOOSE iter : iter = [s \in SUBSET D |->
               IF s = {} THEN base
               ELSE AddCheck(cs[CHOOSE x \in s : TRUE], iter[s \ {CHOOSE x \in s : TRUE}])]
  <1>8. f = [s \in SUBSET D |->
               IF s = {} THEN base
               ELSE AddCheck(cs[CHOOSE x \in s : TRUE], f[s \ {CHOOSE x \in s : TRUE}])]
    <2>1. f = [s \in SUBSET D |-> f[s]]
      BY <1>6 DEF IsFold
    <2>2. ASSUME NEW s \in SUBSET D
          PROVE  f[s] = IF s = {} THEN base
                        ELSE AddCheck(cs[CHOOSE x \in s : TRUE], f[s \ {CHOOSE x \in s : TRUE}])
      <3>1. pick[s] = CHOOSE x \in s : TRUE
        OBVIOUS
      <3>2. CASE s = {}
        <4>1. f[s] = base
          BY <1>6, <3>2 DEF IsFold
        <4>2. QED BY <3>2, <4>1
      <3>3. CASE s # {}
        BY <1>7, <3>1, <3>3
      <3>4. QED BY <3>2, <3>3
    <2> HIDE DEF base
    <2>3. QED BY <2>1, <2>2
  <1>9. iter = [s \in SUBSET D |->
               IF s = {} THEN base
               ELSE AddCheck(cs[CHOOSE x \in s : TRUE], iter[s \ {CHOOSE x \in s : TRUE}])]
    <2> HIDE DEF D, base
    <2>1. QED BY <1>8
  <1>10. Verdicts(cs) = iter[D]
    BY DEF Verdicts, FoldSeq, FoldFunction, FoldFunctionOnSet, MapThenFoldSet
  <1> DEFINE U == {s \in SUBSET D : iter[s] \in V /\ Tells(cs, s, iter[s])}
  <1>11. {} \in U
    <2>1. iter[{}] = base
      <3> HIDE DEF iter, base
      <3>1. QED BY <1>9
    <2>2. Tells(cs, {}, base)
      BY DEF Tells
    <2>3. QED BY <1>3, <2>1, <2>2
  <1>12. ASSUME NEW s \in SUBSET D, s # {}, \A x \in s : s \ {x} \in U PROVE s \in U
    <2> DEFINE x == CHOOSE x \in s : TRUE
    <2>1. x \in s
      BY <1>12
    <2> HIDE DEF iter
    <2>2. iter[s] = AddCheck(cs[x], iter[s \ {x}])
      BY <1>9, <1>12
    <2> HIDE DEF x
    <2>3. iter[s \ {x}] \in V /\ Tells(cs, s \ {x}, iter[s \ {x}])
      BY <1>12, <2>1
    <2> DEFINE vs == iter[s \ {x}]
    <2> HIDE DEF vs
    <2>4. vs \in Tables(cs) /\ Tells(cs, s \ {x}, vs) /\ iter[s] = AddCheck(cs[x], vs)
      BY <2>2, <2>3 DEF vs
    <2>5. x \in DOMAIN cs
      BY <2>1
    <2>6. AddCheck(cs[x], vs) \in Tables(cs)
      BY <1>1, <2>4, <2>5, AddCheckType
    <2>7. Tells(cs, s, AddCheck(cs[x], vs))
      BY <1>1, <2>1, <2>4, AddCheckTells
    <2>8. QED BY <2>4, <2>6, <2>7
  <1>13. SUBSET D \subseteq U
    <2>1. \A s \in SUBSET D : s # {} /\ (\A x \in s : s \ {x} \in U) => s \in U
      BY <1>12
    <2> HIDE DEF D, U
    <2>2. QED BY <1>2, <1>11, <2>1, SubsetsClosed
  <1>14. D \in U
    BY <1>13
  <1>15. QED BY <1>10, <1>14

-----------------------------------------------------------------------------
(* The properties of a report.                                              *)

\* A set of places has a first and a last one.
LEMMA FirstOf ==
  ASSUME NEW U, U \subseteq Nat, U # {}
  PROVE  \E i \in U : \A j \in U : i <= j
  <1>1. SUFFICES ASSUME \A i \in U : \E j \in U : ~(i <= j) PROVE FALSE
    OBVIOUS
  <1> DEFINE T == {m \in Nat : \A j \in U : m <= j}
  <1>2. 0 \in T
    OBVIOUS
  <1>3. ASSUME NEW m \in Nat, m \in T PROVE m + 1 \in T
    <2>1. m \notin U
      BY <1>1, <1>3
    <2>2. ASSUME NEW j \in U PROVE m + 1 <= j
      <3>1. m <= j /\ m # j /\ j \in Nat
        BY <1>3, <2>1
      <3>2. QED BY <3>1
    <2>3. QED BY <2>2
  <1>4. Nat \subseteq T
    <2> HIDE DEF T
    <2>1. QED BY <1>2, <1>3, NatClosed
  <1>5. PICK i \in U : TRUE
    OBVIOUS
  <1>6. i + 1 \in T
    BY <1>4
  <1>7. QED BY <1>5, <1>6

LEMMA LastOf ==
  ASSUME NEW n \in Nat, NEW U, U \subseteq 1..n, U # {}
  PROVE  \E i \in U : \A j \in (i + 1)..n : j \notin U
  <1> DEFINE B == {n - i : i \in U}
  <1>1. B \subseteq Nat /\ B # {}
    <2>1. ASSUME NEW i \in U PROVE n - i \in Nat
      <3>1. i \in 1..n
        OBVIOUS
      <3>2. QED BY <3>1
    <2>2. QED BY <2>1
  <1>2. PICK b \in B : \A c \in B : b <= c
    <2> HIDE DEF B
    <2>1. QED BY <1>1, FirstOf
  <1>3. PICK i \in U : b = n - i
    BY <1>2
  <1>4. ASSUME NEW j \in (i + 1)..n, j \in U PROVE FALSE
    <2>1. n - j \in B
      BY <1>4
    <2>2. n - i <= n - j
      BY <1>2, <1>3, <2>1
    <2>3. QED BY <2>2
  <1>5. QED BY <1>4

LEMMA InputsFacts ==
  ASSUME inputs \in Components
  PROVE  /\ InputsOk(inputs) /\ GroupingsOk(inputs)
         /\ DOMAIN inputs = 1..Len(inputs) /\ Len(inputs) \in Nat
         /\ \A k \in 1..Len(inputs) :
              DOMAIN inputs[k].props = 1..Len(inputs[k].props) /\ Len(inputs[k].props) \in Nat
  <1>1. InputsOk(inputs) /\ GroupingsOk(inputs)
    BY ReportAssumption
  <1>2. inputs \in Seq(Range(inputs))
    BY <1>1 DEF InputsOk
  <1>3. DOMAIN inputs = 1..Len(inputs) /\ Len(inputs) \in Nat
    BY <1>2
  <1>4. ASSUME NEW k \in 1..Len(inputs)
        PROVE  DOMAIN inputs[k].props = 1..Len(inputs[k].props) /\ Len(inputs[k].props) \in Nat
    <2>1. inputs[k].props \in Seq(Range(inputs[k].props))
      BY <1>1, <1>3 DEF InputsOk
    <2>2. QED BY <2>1
  <1>5. QED BY <1>1, <1>3, <1>4

\* The property that an input has for one of its titles, if it is formalized.
IsFormalized(k, t) ==
  t \in Range(inputs[k].props) /\ Ran(k) /\ ~Skipped(k, t) /\ Mapped(k, t)
Entry(k, t) ==
  [key |-> <<inputs[k].name, t>>, refs |-> {Ref(k, r) : r \in inputs[k].result.rules[t]}]
FormalEntries == UNION {{Entry(k, t) : t \in Range(inputs[k].props)} : k \in 1..Len(inputs)}

LEMMA FunctionSeq ==
  ASSUME NEW n \in Nat, NEW A, NEW f, f \in [1..n -> A]
  PROVE  f \in Seq(A) /\ DOMAIN f = 1..n /\ Len(f) = n
  OBVIOUS

LEMMA OneRange ==
  ASSUME NEW x
  PROVE  Range(<<x>>) = {x} /\ Range(<<>>) = {}
  BY DEF Range

LEMMA PropertiesMade ==
  ASSUME inputs \in Components
  PROVE  /\ Properties \in Seq(FormalEntries)
         /\ Range(Properties) = UNION {{Entry(k, t) : t \in {t \in Range(inputs[k].props) : IsFormalized(k, t)}} :
                                        k \in 1..Len(inputs)}
  <1> DEFINE n == Len(inputs)
             Of(k) == [i \in DOMAIN inputs[k].props |-> Formalized(k, inputs[k].props[i])]
             Here(k) == {Entry(k, t) : t \in {t \in Range(inputs[k].props) : IsFormalized(k, t)}}
             all == [k \in 1..n |-> FlattenSeq(Of(k))]
  <1>1. n \in Nat /\ \A k \in 1..n : DOMAIN inputs[k].props = 1..Len(inputs[k].props) /\ Len(inputs[k].props) \in Nat
    BY InputsFacts
  <1>2. ASSUME NEW k \in 1..n, NEW t \in Range(inputs[k].props)
        PROVE  /\ Formalized(k, t) \in Seq(FormalEntries)
               /\ Range(Formalized(k, t)) = IF IsFormalized(k, t) THEN {Entry(k, t)} ELSE {}
    <2>1. Formalized(k, t) = IF IsFormalized(k, t) THEN <<Entry(k, t)>> ELSE <<>>
      BY DEF Formalized, IsFormalized, Entry
    <2>2. Entry(k, t) \in FormalEntries
      BY DEF FormalEntries
    <2>3. CASE IsFormalized(k, t)
      <3>1. <<Entry(k, t)>> \in Seq(FormalEntries)
        BY <2>2
      <3>2. QED BY <2>1, <2>3, <3>1, OneRange
    <2>4. CASE ~IsFormalized(k, t)
      <3>1. <<>> \in Seq(FormalEntries)
        OBVIOUS
      <3>2. QED BY <2>1, <2>4, <3>1, OneRange
    <2>5. QED BY <2>3, <2>4
  <1>3. ASSUME NEW k \in 1..n
        PROVE  FlattenSeq(Of(k)) \in Seq(FormalEntries) /\ Range(FlattenSeq(Of(k))) = Here(k)
    <2> DEFINE m == Len(inputs[k].props)
    <2>1. m \in Nat /\ DOMAIN inputs[k].props = 1..m
      BY <1>1
    <2>2. \A i \in 1..m : inputs[k].props[i] \in Range(inputs[k].props)
      BY <2>1 DEF Range
    <2>3. Of(k) \in [1..m -> Seq(FormalEntries)]
      BY <1>2, <2>1, <2>2
    <2>4. Of(k) \in Seq(Seq(FormalEntries)) /\ DOMAIN Of(k) = 1..m
      <3> HIDE DEF Of, m
      <3>1. QED BY <2>1, <2>3, FunctionSeq
    <2>5. FlattenSeq(Of(k)) \in Seq(FormalEntries)
      BY <2>4, FlattenType
    <2>6. Range(FlattenSeq(Of(k))) = UNION {Range(Of(k)[i]) : i \in DOMAIN Of(k)}
      BY <2>4, FlattenRange
    <2>7. \A i \in 1..m : Of(k)[i] = Formalized(k, inputs[k].props[i])
      BY <2>1
    <2>8. \A t \in Range(inputs[k].props) : \E i \in 1..m : t = inputs[k].props[i]
      BY <2>1 DEF Range
    <2> HIDE DEF Of, m
    <2>9. ASSUME NEW e \in Range(FlattenSeq(Of(k))) PROVE e \in Here(k)
      <3>1. PICK i \in 1..m : e \in Range(Of(k)[i])
        BY <2>4, <2>6
      <3> DEFINE t == inputs[k].props[i]
      <3>2. t \in Range(inputs[k].props) /\ e \in Range(Formalized(k, t))
        BY <2>2, <2>7, <3>1
      <3>3. IsFormalized(k, t) /\ e = Entry(k, t)
        BY <1>2, <3>2
      <3>4. QED BY <3>2, <3>3
    <2>10. ASSUME NEW e \in Here(k) PROVE e \in Range(FlattenSeq(Of(k)))
      <3>1. PICK t \in Range(inputs[k].props) : IsFormalized(k, t) /\ e = Entry(k, t)
        OBVIOUS
      <3>2. PICK i \in 1..m : t = inputs[k].props[i]
        BY <2>8
      <3>3. e \in Range(Of(k)[i])
        BY <1>2, <2>7, <3>1, <3>2
      <3>4. QED BY <2>4, <2>6, <3>3
    <2>11. QED BY <2>5, <2>9, <2>10
  <1>4. all \in [1..n -> Seq(FormalEntries)]
    BY <1>3
  <1>5. all \in Seq(Seq(FormalEntries)) /\ DOMAIN all = 1..n
    <2> HIDE DEF all, n
    <2>1. QED BY <1>1, <1>4, FunctionSeq
  <1>6. Properties = FlattenSeq(all)
    BY DEF Properties
  <1>7. FlattenSeq(all) \in Seq(FormalEntries)
    BY <1>5, FlattenType
  <1>8. Range(FlattenSeq(all)) = UNION {Range(all[k]) : k \in DOMAIN all}
    BY <1>5, FlattenRange
  <1>9. \A k \in 1..n : Range(all[k]) = Here(k)
    BY <1>3
  <1>10. UNION {Range(all[k]) : k \in DOMAIN all} = UNION {Here(k) : k \in 1..n}
    <2> HIDE DEF all, Here, n
    <2>1. QED BY <1>5, <1>9
  <1>11. QED BY <1>6, <1>7, <1>8, <1>10

LEMMA PropertyFacts ==
  ASSUME inputs \in Components
  PROVE  /\ \A p \in Range(Properties) : \E k \in 1..Len(inputs) : \E t \in Range(inputs[k].props) :
              IsFormalized(k, t) /\ p = Entry(k, t)
         /\ \A k \in 1..Len(inputs) : \A t \in Range(inputs[k].props) :
              IsFormalized(k, t) => Entry(k, t) \in Range(Properties)
  BY PropertiesMade

\* A key belongs to one input, and to one entry.
LEMMA KeyFacts ==
  ASSUME inputs \in Components, NEW k \in 1..Len(inputs), NEW t
  PROVE  /\ <<inputs[k].name, t>> \in Keys <=> IsFormalized(k, t)
         /\ \A p \in Range(Properties) : p.key = <<inputs[k].name, t>> => p = Entry(k, t)
  <1>1. ASSUME NEW p \in Range(Properties), p.key = <<inputs[k].name, t>>
        PROVE  IsFormalized(k, t) /\ p = Entry(k, t)
    <2>1. PICK l \in 1..Len(inputs) : \E u \in Range(inputs[l].props) : IsFormalized(l, u) /\ p = Entry(l, u)
      BY PropertyFacts
    <2>2. PICK u \in Range(inputs[l].props) : IsFormalized(l, u) /\ p = Entry(l, u)
      BY <2>1
    <2>3. p.key = <<inputs[l].name, u>>
      BY <2>2 DEF Entry
    <2>4. inputs[l].name = inputs[k].name /\ u = t
      BY <1>1, <2>3
    <2>5. l = k
      BY <2>4, InputsFacts DEF InputsOk
    <2>6. QED BY <2>2, <2>4, <2>5
  <1>2. ASSUME IsFormalized(k, t) PROVE <<inputs[k].name, t>> \in Keys
    <2>1. Entry(k, t) \in Range(Properties)
      BY <1>2, PropertyFacts DEF IsFormalized
    <2>2. Entry(k, t).key = <<inputs[k].name, t>>
      BY DEF Entry
    <2>3. QED BY <2>1, <2>2 DEF Keys
  <1>3. <<inputs[k].name, t>> \in Keys => \E p \in Range(Properties) : p.key = <<inputs[k].name, t>>
    BY DEF Keys
  <1>4. QED BY <1>1, <1>2, <1>3

LEMMA ByKeyFacts ==
  ASSUME inputs \in Components, NEW p \in Range(Properties)
  PROVE  p.key \in Keys /\ ByKey(p.key) = p
  <1> DEFINE n == Len(Properties)
             U == {i \in 1..n : Properties[i].key = p.key}
  <1>1. Properties \in Seq(FormalEntries)
    BY PropertiesMade
  <1>2. DOMAIN Properties = 1..n /\ n \in Nat
    BY <1>1
  <1>3. p.key \in Keys
    BY DEF Keys
  <1>4. U # {} /\ U \subseteq 1..n
    BY <1>2 DEF Range
  <1>5. \E i \in U : \A j \in (i + 1)..n : j \notin U
    <2> HIDE DEF U, n
    <2>1. QED BY <1>2, <1>4, LastOf
  <1>6. \E i \in DOMAIN Properties : Properties[i].key = p.key /\ \A j \in (i + 1)..n : Properties[j].key # p.key
    <2>1. PICK i \in U : \A j \in (i + 1)..n : j \notin U
      BY <1>5
    <2>2. \A j \in (i + 1)..n : j \in 1..n
      BY <1>2, <2>1
    <2>3. QED BY <1>2, <2>1, <2>2
  <1> DEFINE last == CHOOSE i \in DOMAIN Properties :
                       Properties[i].key = p.key /\ \A j \in (i + 1)..n : Properties[j].key # p.key
  <1>7. last \in DOMAIN Properties /\ Properties[last].key = p.key
    BY <1>6
  <1>8. ByKey(p.key) = Properties[last]
    BY DEF ByKey
  <1> HIDE DEF last
  <1>9. Properties[last] \in Range(Properties)
    BY <1>7 DEF Range
  <1>10. PICK k \in 1..Len(inputs) : \E t \in Range(inputs[k].props) : p = Entry(k, t)
    BY PropertyFacts
  <1>11. PICK t \in Range(inputs[k].props) : p = Entry(k, t)
    BY <1>10
  <1>12. p.key = <<inputs[k].name, t>>
    BY <1>11 DEF Entry
  <1>13. Properties[last] = Entry(k, t)
    BY <1>7, <1>9, <1>12, KeyFacts
  <1>14. QED BY <1>3, <1>8, <1>11, <1>13

-----------------------------------------------------------------------------
(* The groups of a report.                                                  *)

\* The members of a grouping's groups, whatever they are.
MembersOf(drafts) == UNION {Range(drafts[g]) : g \in DOMAIN drafts}

IsGrouping(drafts) ==
  /\ drafts \in Seq(Range(drafts))
  /\ \A g \in DOMAIN drafts : drafts[g] \in Seq(Range(drafts[g]))

LEMMA SeqOfMore ==
  ASSUME NEW R, NEW A, R \subseteq A, NEW s \in Seq(R)
  PROVE  s \in Seq(A)
  <1>1. Len(s) \in Nat /\ s \in [1..Len(s) -> R]
    OBVIOUS
  <1>2. s \in [1..Len(s) -> A]
    BY <1>1
  <1>3. QED BY <1>1, <1>2, FunctionSeq

LEMMA GroupingFlat ==
  ASSUME NEW drafts, IsGrouping(drafts)
  PROVE  /\ drafts \in Seq(Seq(MembersOf(drafts)))
         /\ FlattenSeq(drafts) \in Seq(MembersOf(drafts))
         /\ Range(FlattenSeq(drafts)) = MembersOf(drafts)
  <1> DEFINE n == Len(drafts)
             A == MembersOf(drafts)
  <1>1. n \in Nat /\ DOMAIN drafts = 1..n /\ drafts = [g \in 1..n |-> drafts[g]]
    <2>1. drafts \in Seq(Range(drafts))
      BY DEF IsGrouping
    <2>2. QED BY <2>1
  <1>2. ASSUME NEW g \in 1..n PROVE drafts[g] \in Seq(A)
    <2> DEFINE s == drafts[g]
    <2>1. s \in Seq(Range(s)) /\ Range(s) \subseteq A
      BY <1>1 DEF IsGrouping, MembersOf
    <2> HIDE DEF s, A
    <2>2. s \in Seq(A)
      BY <2>1, SeqOfMore
    <2>3. QED BY <2>2 DEF s
  <1>3. drafts \in [1..n -> Seq(A)]
    BY <1>1, <1>2
  <1>4. drafts \in Seq(Seq(A))
    <2> HIDE DEF n, A
    <2>1. QED BY <1>1, <1>3, FunctionSeq
  <1>5. FlattenSeq(drafts) \in Seq(A)
    BY <1>4, FlattenType
  <1>6. Range(FlattenSeq(drafts)) = UNION {Range(drafts[g]) : g \in DOMAIN drafts}
    BY <1>4, FlattenRange
  <1>7. QED BY <1>4, <1>5, <1>6 DEF MembersOf

\* Of a grouping that validates, a key is in one group at most.
LEMMA ValidFacts ==
  ASSUME NEW drafts, IsGrouping(drafts), Valid(drafts)
  PROVE  /\ MembersOf(drafts) \subseteq Keys
         /\ \A g, h \in DOMAIN drafts : \A key : key \in Range(drafts[g]) /\ key \in Range(drafts[h]) => g = h
  <1>1. MembersOf(drafts) \subseteq Keys /\ Cardinality(Range(FlattenSeq(drafts))) = Len(FlattenSeq(drafts))
    BY GroupingFlat DEF Valid
  <1>2. ~Twice(FlattenSeq(drafts))
    BY <1>1, GroupingFlat, NoneTwice
  <1>3. ASSUME NEW g \in DOMAIN drafts, NEW h \in DOMAIN drafts, g < h,
               Range(drafts[g]) \cap Range(drafts[h]) # {}
        PROVE  FALSE
    <2>1. Twice(FlattenSeq(drafts))
      BY <1>3, GroupingFlat, FlattenTwice
    <2>2. QED BY <1>2, <2>1
  <1>4. \A g, h \in DOMAIN drafts : g \in Nat /\ h \in Nat
    <2>1. drafts \in Seq(Range(drafts))
      BY DEF IsGrouping
    <2>2. QED BY <2>1
  <1>5. ASSUME NEW g \in DOMAIN drafts, NEW h \in DOMAIN drafts, NEW key,
               key \in Range(drafts[g]), key \in Range(drafts[h])
        PROVE  g = h
    <2>1. g < h \/ h < g \/ g = h
      BY <1>4
    <2>2. Range(drafts[g]) \cap Range(drafts[h]) # {}
      BY <1>5
    <2>3. QED BY <1>3, <2>1, <2>2
  <1>6. QED BY <1>1, <1>5

\* The drafts of the model and the fallback are groupings.
LEMMA UsedIsGrouping ==
  ASSUME inputs \in Components, NEW drafts \in Groupings(Keys) \cup {BuildFallbackGrouping}
  PROVE  IsGrouping(drafts) /\ IsGrouping(BuildFallbackGrouping)
  <1>1. Keys \in SUBSET UNION {{inputs[k].name} \X Range(inputs[k].props) : k \in DOMAIN inputs}
    <2>1. ASSUME NEW key \in Keys
          PROVE  key \in UNION {{inputs[k].name} \X Range(inputs[k].props) : k \in DOMAIN inputs}
      <3>1. PICK p \in Range(Properties) : key = p.key
        BY DEF Keys
      <3>2. PICK k \in 1..Len(inputs) : \E t \in Range(inputs[k].props) : p = Entry(k, t)
        BY PropertyFacts
      <3>3. PICK t \in Range(inputs[k].props) : p = Entry(k, t)
        BY <3>2
      <3>4. key = <<inputs[k].name, t>> /\ k \in DOMAIN inputs
        BY <3>1, <3>3, InputsFacts DEF Entry
      <3>5. QED BY <3>4
    <2>2. QED BY <2>1
  <1>2. ASSUME drafts \in Groupings(Keys) PROVE IsGrouping(drafts)
    BY <1>1, <1>2, InputsFacts DEF GroupingsOk, IsGrouping
  <1>3. IsGrouping(BuildFallbackGrouping)
    <2> DEFINE all == [i \in DOMAIN Properties |-> Properties[i].key]
               n == Len(Properties)
    <2>1. Properties \in Seq(FormalEntries)
      BY PropertiesMade
    <2>2. DOMAIN Properties = 1..n /\ n \in Nat
      BY <2>1
    <2>3. all \in [1..n -> Range(all)]
      BY <2>2 DEF Range
    <2>4. all \in Seq(Range(all))
      <3> HIDE DEF all, n
      <3>1. QED BY <2>2, <2>3, FunctionSeq
    <2>5. BuildFallbackGrouping = <<all>>
      BY DEF BuildFallbackGrouping
    <2> HIDE DEF all
    <2>6. Range(<<all>>) = {all} /\ DOMAIN <<all>> = {1} /\ <<all>>[1] = all
      BY OneRange
    <2>7. <<all>> \in Seq(Range(<<all>>))
      BY <2>6
    <2>8. QED BY <2>4, <2>5, <2>6, <2>7 DEF IsGrouping
  <1>4. QED BY <1>2, <1>3

-----------------------------------------------------------------------------
(* What is fetched.                                                         *)

InputsInv ==
  /\ inputs \in Components
  /\ DOMAIN checks = 1..Len(inputs)
  /\ \A k \in 1..Len(inputs) :
       checks[k] = <<>> \/ (Ran(k) /\ inputs[k].link /\ checks[k] \in RunsOf(inputs[k]))

LEMMA InputsInit == Init => InputsInv
  <1>1. SUFFICES ASSUME Init PROVE InputsInv
    OBVIOUS
  <1>2. checks \in [1..Len(inputs) -> {<<>>}] /\ inputs \in Components
    BY <1>1 DEF Init
  <1>3. QED BY <1>2 DEF InputsInv

LEMMA InputsStep == InputsInv /\ [Next]_vars => InputsInv'
  <1>1. SUFFICES ASSUME InputsInv, [Next]_vars PROVE InputsInv'
    OBVIOUS
  <1>2. ASSUME NEW k \in 1..Len(inputs), FetchVerdicts(k) PROVE InputsInv'
    <2>1. PICK cs \in RunsOf(inputs[k]) : checks' = [checks EXCEPT ![k] = cs]
      BY <1>2 DEF FetchVerdicts
    <2>2. Ran(k) /\ inputs[k].link /\ inputs' = inputs
      BY <1>2 DEF FetchVerdicts
    <2>3. DOMAIN checks' = 1..Len(inputs)
      BY <1>1, <2>1 DEF InputsInv
    <2>4. ASSUME NEW l \in 1..Len(inputs)
          PROVE  checks'[l] = <<>> \/ (Ran(l)' /\ inputs'[l].link /\ checks'[l] \in RunsOf(inputs'[l]))
      <3>1. CASE l = k
        <4>1. checks'[l] = cs
          BY <1>1, <2>1, <3>1 DEF InputsInv
        <4>2. QED BY <2>2, <3>1, <4>1 DEF Ran
      <3>2. CASE l # k
        <4>1. checks'[l] = checks[l]
          BY <1>1, <2>1, <3>2 DEF InputsInv
        <4>2. QED BY <1>1, <2>2, <4>1 DEF InputsInv, Ran
      <3>3. QED BY <3>1, <3>2
    <2>5. QED BY <1>1, <2>2, <2>3, <2>4 DEF InputsInv
  <1>3. CASE UNCHANGED <<inputs, checks>>
    BY <1>1, <1>3 DEF InputsInv, Ran
  <1>4. QED BY <1>1, <1>2, <1>3 DEF Next, BuildReport, vars

-----------------------------------------------------------------------------
(* The properties of a report, said of the report, the inputs and the       *)
(* checks it was made from.                                                 *)

HomesOf(rep, key) == {g \in DOMAIN rep.groups : key \in Range(rep.groups[g].members)}

Answers(result, t) == result.generated => t \in result.skipped \/ t \in DOMAIN result.rules

LEMMA AnswersMeans ==
  ASSUME NEW k, NEW t
  PROVE  Answered(k, t) <=> Answers(inputs[k].result, t)
  BY DEF Answered, Answers, Ran, Skipped, Mapped

IsPartition(rep, in) ==
  /\ \A k \in 1..Len(in) : \A t \in Range(in[k].props) :
       Cardinality(HomesOf(rep, <<in[k].name, t>>))
         + (IF <<in[k].name, t>> \in rep.missing THEN 1 ELSE 0)
         + (IF <<in[k].name, t>> \in rep.skipped THEN 1 ELSE 0)
         + (IF in[k].name \in rep.gaveUp THEN 1 ELSE 0)
       = IF Answers(in[k].result, t) THEN 1 ELSE 0
  /\ \A g \in DOMAIN rep.groups : Range(rep.groups[g].members) \subseteq {p.key : p \in rep.properties}

LEMMA PartitionedMeans == PropertiesPartitioned <=> (Built => IsPartition(report, inputs))
  BY AnswersMeans DEF PropertiesPartitioned, IsPartition, HomesOf

LEMMA ReportParts ==
  ASSUME NEW drafts
  PROVE  LET rep == AutoProverReport(drafts)
         IN  /\ DOMAIN rep.groups = DOMAIN drafts
             /\ \A g \in DOMAIN drafts :
                  /\ rep.groups[g].members = drafts[g]
                  /\ rep.groups[g].status =
                       AggregateStatus({StatusOf(ref) : ref \in UNION {ByKey(k).refs : k \in Range(drafts[g]) \cap Keys}})
             /\ rep.properties = Range(Properties)
             /\ rep.skipped = SkippedClaims /\ rep.gaveUp = GaveUp
             /\ rep.missing = Keys \ Range(FlattenSeq(drafts))
  <1> DEFINE rep == AutoProverReport(drafts)
  <1>1. /\ rep.groups = BuildGroups(drafts) /\ rep.properties = Range(Properties)
        /\ rep.skipped = SkippedClaims /\ rep.gaveUp = GaveUp
        /\ rep.missing = Keys \ Range(FlattenSeq(drafts))
    BY DEF AutoProverReport
  <1>2. /\ DOMAIN BuildGroups(drafts) = DOMAIN drafts
        /\ \A g \in DOMAIN drafts :
             /\ BuildGroups(drafts)[g].members = drafts[g]
             /\ BuildGroups(drafts)[g].status =
                  AggregateStatus({StatusOf(ref) : ref \in UNION {ByKey(k).refs : k \in Range(drafts[g]) \cap Keys}})
    BY DEF BuildGroups
  <1> HIDE DEF rep
  <1>3. QED BY <1>1, <1>2 DEF rep

\* What is published was made from a grouping that validates.
LEMMA BuiltFrom ==
  ASSUME inputs \in Components, BuildReport, Built'
  PROVE  \E drafts : IsGrouping(drafts) /\ Valid(drafts) /\ report' = AutoProverReport(drafts)
  <1>1. PICK drafts \in Groupings(Keys) \cup {BuildFallbackGrouping} :
          LET used == IF Accept(drafts) THEN drafts ELSE BuildFallbackGrouping
          IN  /\ stage' = IF Valid(used) THEN "built" ELSE "failed"
              /\ report' = IF Valid(used) THEN AutoProverReport(used) ELSE <<>>
    BY DEF BuildReport
  <1> DEFINE used == IF Accept(drafts) THEN drafts ELSE BuildFallbackGrouping
  <1>2. IsGrouping(used)
    BY UsedIsGrouping
  <1> HIDE DEF used
  <1>3. /\ stage' = IF Valid(used) THEN "built" ELSE "failed"
        /\ report' = IF Valid(used) THEN AutoProverReport(used) ELSE <<>>
    BY <1>1 DEF used
  <1>4. Valid(used)
    BY <1>3 DEF Built
  <1>5. QED BY <1>2, <1>3, <1>4

LEMMA ReportIsPartition ==
  ASSUME inputs \in Components, NEW drafts, IsGrouping(drafts), Valid(drafts)
  PROVE  IsPartition(AutoProverReport(drafts), inputs)
  <1> DEFINE rep == AutoProverReport(drafts)
  <1>1. /\ DOMAIN rep.groups = DOMAIN drafts
        /\ \A g \in DOMAIN drafts : rep.groups[g].members = drafts[g]
        /\ rep.properties = Range(Properties)
        /\ rep.skipped = SkippedClaims /\ rep.gaveUp = GaveUp
        /\ rep.missing = Keys \ MembersOf(drafts)
    BY ReportParts, GroupingFlat
  <1>2. /\ MembersOf(drafts) \subseteq Keys
        /\ \A g, h \in DOMAIN drafts : \A key : key \in Range(drafts[g]) /\ key \in Range(drafts[h]) => g = h
    BY ValidFacts
  <1>3. /\ DOMAIN inputs = 1..Len(inputs)
        /\ \A k, l \in DOMAIN inputs : inputs[k].name = inputs[l].name => k = l
    BY InputsFacts DEF InputsOk
  <1> HIDE DEF rep
  <1>4. ASSUME NEW k \in 1..Len(inputs), NEW t \in Range(inputs[k].props)
        PROVE  Cardinality(HomesOf(rep, <<inputs[k].name, t>>))
                 + (IF <<inputs[k].name, t>> \in rep.missing THEN 1 ELSE 0)
                 + (IF <<inputs[k].name, t>> \in rep.skipped THEN 1 ELSE 0)
                 + (IF inputs[k].name \in rep.gaveUp THEN 1 ELSE 0)
               = IF Answers(inputs[k].result, t) THEN 1 ELSE 0
    <2> DEFINE key == <<inputs[k].name, t>>
               homes == HomesOf(rep, key)
    <2>1. key \in Keys <=> Ran(k) /\ ~Skipped(k, t) /\ Mapped(k, t)
      BY KeyFacts DEF IsFormalized
    <2>2. Answers(inputs[k].result, t) <=> (Ran(k) => Skipped(k, t) \/ Mapped(k, t))
      BY DEF Answers, Ran, Skipped, Mapped
    <2>3. key \in rep.skipped <=> Ran(k) /\ Skipped(k, t)
      <3>1. ASSUME key \in SkippedClaims PROVE Ran(k) /\ Skipped(k, t)
        <4>1. PICK l \in 1..Len(inputs) : key \in {<<inputs[l].name, u>> : u \in {u \in Range(inputs[l].props) : Ran(l) /\ Skipped(l, u)}}
          BY <3>1 DEF SkippedClaims
        <4>2. PICK u \in Range(inputs[l].props) : Ran(l) /\ Skipped(l, u) /\ key = <<inputs[l].name, u>>
          BY <4>1
        <4>3. u = t /\ inputs[l].name = inputs[k].name
          BY <4>2
        <4>4. l = k
          BY <1>3, <4>3
        <4>5. QED BY <4>2, <4>3, <4>4
      <3>2. ASSUME Ran(k), Skipped(k, t) PROVE key \in SkippedClaims
        BY <3>2 DEF SkippedClaims
      <3>3. QED BY <1>1, <3>1, <3>2
    <2>4. inputs[k].name \in rep.gaveUp <=> ~Ran(k)
      <3>1. ASSUME inputs[k].name \in GaveUp PROVE ~Ran(k)
        <4>1. PICK l \in 1..Len(inputs) : ~Ran(l) /\ inputs[k].name = inputs[l].name
          BY <3>1 DEF GaveUp
        <4>2. QED BY <1>3, <4>1
      <3>2. ~Ran(k) => inputs[k].name \in GaveUp
        BY DEF GaveUp
      <3>3. QED BY <1>1, <3>1, <3>2
    <2> HIDE DEF key
    <2>5. homes = {g \in DOMAIN drafts : key \in Range(drafts[g])}
      BY <1>1 DEF HomesOf
    <2>6. CASE key \in MembersOf(drafts)
      <3>1. PICK g \in DOMAIN drafts : key \in Range(drafts[g])
        BY <2>6 DEF MembersOf
      <3>2. homes = {g}
        BY <1>2, <2>5, <3>1
      <3>3. Cardinality(homes) = 1
        BY <3>2, FS_Singleton
      <3>4. key \in Keys
        BY <1>2, <2>6
      <3>5. key \notin rep.missing /\ key \notin rep.skipped /\ inputs[k].name \notin rep.gaveUp
        BY <1>1, <2>1, <2>3, <2>4, <2>6, <3>4
      <3>6. QED BY <2>1, <2>2, <3>3, <3>4, <3>5 DEF key
    <2>7. CASE key \notin MembersOf(drafts)
      <3>1. homes = {}
        BY <2>5, <2>7 DEF MembersOf
      <3>2. Cardinality(homes) = 0
        BY <3>1, FS_EmptySet
      <3>3. key \in rep.missing <=> key \in Keys
        BY <1>1, <2>7
      <3>4. CASE ~Ran(k)
        BY <2>1, <2>2, <2>3, <2>4, <3>2, <3>3, <3>4 DEF key
      <3>5. CASE Ran(k) /\ Skipped(k, t)
        BY <2>1, <2>2, <2>3, <2>4, <3>2, <3>3, <3>5 DEF key
      <3>6. CASE Ran(k) /\ ~Skipped(k, t)
        BY <2>1, <2>2, <2>3, <2>4, <3>2, <3>3, <3>6 DEF key
      <3>7. QED BY <3>4, <3>5, <3>6
    <2>8. QED BY <2>6, <2>7
  <1>5. ASSUME NEW g \in DOMAIN rep.groups
        PROVE  Range(rep.groups[g].members) \subseteq {p.key : p \in rep.properties}
    BY <1>1, <1>2, <1>5 DEF MembersOf, Keys
  <1>6. QED BY <1>4, <1>5 DEF IsPartition, rep

\* Whatever the authors published and the model groups, a property is in a report
\* once, unless its author's result says nothing of it (collect.py, coverage.py).
THEOREM EveryPropertyIsReported == Spec => []PropertiesPartitioned
  <1> DEFINE Inv == InputsInv /\ (Built => IsPartition(report, inputs))
  <1>1. Init => Inv
    <2>1. Init => ~Built
      BY DEF Init, Built
    <2>2. QED BY <2>1, InputsInit
  <1>2. Inv /\ [Next]_vars => Inv'
    <2>1. SUFFICES ASSUME Inv, [Next]_vars PROVE (Built => IsPartition(report, inputs))'
      BY InputsStep
    <2>2. ASSUME NEW k \in 1..Len(inputs), FetchVerdicts(k) PROVE ~Built'
      BY <2>2 DEF FetchVerdicts, Built
    <2>3. CASE BuildReport
      <3>1. SUFFICES ASSUME Built' PROVE IsPartition(report', inputs')
        OBVIOUS
      <3>2. PICK drafts : IsGrouping(drafts) /\ Valid(drafts) /\ report' = AutoProverReport(drafts)
        BY <2>1, <2>3, <3>1, BuiltFrom DEF InputsInv
      <3>3. IsPartition(AutoProverReport(drafts), inputs) /\ inputs' = inputs
        BY <2>1, <2>3, <3>2, ReportIsPartition DEF InputsInv, BuildReport
      <3>4. QED BY <3>2, <3>3
    <2>4. CASE UNCHANGED vars
      BY <2>1, <2>4 DEF vars, Built
    <2>5. QED BY <2>1, <2>2, <2>3, <2>4 DEF Next
  <1>3. Inv => PropertiesPartitioned
    BY PartitionedMeans
  <1>4. QED BY <1>1, <1>2, <1>3, PTL DEF Spec

-----------------------------------------------------------------------------
(* What is called verified.                                                 *)

LEMMA NoPlaces == DOMAIN <<>> = {}
  OBVIOUS

\* The identity of a rule, with the file it is found in.
IsRef(ref) == ref[1] # "" /\ ref = <<ref[1], ref[2]>>

IsHonest(rep, in, cs) ==
  \A g \in DOMAIN rep.groups : rep.groups[g].status = "VERIFIED" =>
    \A p \in rep.properties : p.key \in Range(rep.groups[g].members) =>
      \A ref \in p.refs :
        \E k \in 1..Len(in) :
          /\ \E i \in DOMAIN cs[k] : cs[k][i].rule = ref[2]
          /\ \A i \in DOMAIN cs[k] : cs[k][i].rule = ref[2] => cs[k][i].status = "VERIFIED"
          /\ \A l \in 1..(k - 1) : \A i \in DOMAIN cs[l] :
               ~(cs[l][i].rule = ref[2] /\ cs[l][i].file = ref[1])

LEMMA HonestMeans == VerifiedHonest <=> (Built => IsHonest(report, inputs, checks))
  BY DEF VerifiedHonest, IsHonest

LEMMA AllVerified ==
  ASSUME NEW statuses, AggregateStatus(statuses) = "VERIFIED"
  PROVE  statuses = {"VERIFIED"}
  <1>1. "VERIFIED" # "VIOLATED" /\ "VERIFIED" # "NO_RESULTS" /\ "VERIFIED" # "PARTIAL"
    OBVIOUS
  <1>2. QED BY <1>1 DEF AggregateStatus

\* What the verdicts of an input tell of the checks fetched for it.
LEMMA VerdictsOfInput ==
  ASSUME InputsInv, NEW k \in 1..Len(inputs)
  PROVE  /\ checks[k] = <<>> \/ (Ran(k) /\ inputs[k].link)
         /\ ChecksOk(checks[k])
         /\ checks[k] # <<>> => Tells(checks[k], DOMAIN checks[k], VerdictsOf(k))
         /\ checks[k] = <<>> => DOMAIN VerdictsOf(k) = {}
  <1>1. ChecksOk(<<>>)
    BY DEF ChecksOk, Range
  <1>2. checks[k] = <<>> \/ (Ran(k) /\ inputs[k].link /\ checks[k] \in RunsOf(inputs[k]))
    BY DEF InputsInv
  <1>3. ChecksOk(checks[k])
    <2>1. k \in DOMAIN inputs /\ InputsOk(inputs)
      BY InputsFacts DEF InputsInv
    <2>2. QED BY <1>1, <1>2, <2>1 DEF InputsOk
  <1>4. Tells(checks[k], DOMAIN checks[k], Verdicts(checks[k]))
    BY <1>3, VerdictsTell
  <1>5. checks[k] # <<>> => VerdictsOf(k) = Verdicts(checks[k])
    BY <1>2 DEF VerdictsOf
  <1>6. ASSUME checks[k] = <<>> PROVE DOMAIN VerdictsOf(k) = {}
    <2>1. CASE Ran(k) /\ inputs[k].link
      <3>1. VerdictsOf(k) = Verdicts(checks[k])
        BY <2>1 DEF VerdictsOf
      <3>2. DOMAIN Verdicts(checks[k]) = {checks[k][i].rule : i \in DOMAIN checks[k]}
        BY <1>4 DEF Tells
      <3>3. DOMAIN checks[k] = {}
        BY <1>6
      <3>4. QED BY <3>1, <3>2, <3>3
    <2>2. CASE ~(Ran(k) /\ inputs[k].link)
      <3>1. VerdictsOf(k) = [r \in {} |-> <<>>]
        BY <2>2 DEF VerdictsOf
      <3>2. QED BY <3>1
    <2>3. QED BY <2>1, <2>2
  <1>7. QED BY <1>2, <1>3, <1>4, <1>5, <1>6

\* The verdict of a rule of a run is found under the place of each of its checks.
LEMMA CheckIsFound ==
  ASSUME InputsInv, NEW l \in 1..Len(inputs), NEW i \in DOMAIN checks[l], NEW ref,
         checks[l][i].rule = ref[2], checks[l][i].file = ref[1], IsRef(ref)
  PROVE  ref \in RefsOf(l)
  <1> DEFINE cs == checks[l]
             vs == VerdictsOf(l)
             r == ref[2]
  <1>1. cs # <<>>
    <2>1. i \in DOMAIN checks[l]
      OBVIOUS
    <2>2. QED BY <2>1, NoPlaces
  <1>2. ChecksOk(cs) /\ Tells(cs, DOMAIN cs, vs)
    BY <1>1, VerdictsOfInput
  <1> HIDE DEF cs, vs
  <1>3. i \in DOMAIN cs /\ cs[i].rule = r /\ cs[i].file = ref[1]
    BY DEF cs
  <1>4. r \in DOMAIN vs /\ vs[r].file # ""
    BY <1>2, <1>3 DEF Tells, IsRef
  <1>5. PICK j \in DOMAIN cs : cs[j].rule = r /\ cs[j].file = vs[r].file
    BY <1>2, <1>4 DEF Tells
  <1>6. vs[r].file = ref[1]
    BY <1>2, <1>3, <1>4, <1>5 DEF ChecksOk, IsRef
  <1>7. Ref(l, r) = ref
    BY <1>4, <1>6 DEF Ref, vs, IsRef
  <1>8. QED BY <1>4, <1>7 DEF RefsOf, vs

LEMMA RefHasFile ==
  ASSUME inputs \in Components, NEW k \in 1..Len(inputs), NEW r
  PROVE  IsRef(Ref(k, r)) /\ Ref(k, r)[2] = r
  <1> DEFINE f == IF r \in DOMAIN VerdictsOf(k) /\ VerdictsOf(k)[r].file # ""
                  THEN VerdictsOf(k)[r].file ELSE inputs[k].file
  <1>1. Ref(k, r) = <<f, r>>
    BY DEF Ref
  <1>2. inputs[k].file # ""
    BY InputsFacts DEF InputsOk
  <1>3. f # ""
    BY <1>2
  <1> HIDE DEF f
  <1>4. Ref(k, r)[1] = f /\ Ref(k, r)[2] = r
    BY <1>1
  <1>5. QED BY <1>1, <1>3, <1>4 DEF IsRef

\* A status of VERIFIED is that of the first run that names the rule.
LEMMA VerifiedRef ==
  ASSUME InputsInv, NEW ref, IsRef(ref), StatusOf(ref) = "VERIFIED"
  PROVE  \E k \in 1..Len(inputs) :
           /\ \E i \in DOMAIN checks[k] : checks[k][i].rule = ref[2]
           /\ \A i \in DOMAIN checks[k] : checks[k][i].rule = ref[2] => checks[k][i].status = "VERIFIED"
           /\ \A l \in 1..(k - 1) : \A i \in DOMAIN checks[l] :
                ~(checks[l][i].rule = ref[2] /\ checks[l][i].file = ref[1])
  <1> DEFINE n == Len(inputs)
             first == CHOOSE k \in 1..n : ref \in RefsOf(k) /\ \A l \in 1..(k - 1) : ref \notin RefsOf(l)
             U == {k \in 1..n : ref \in RefsOf(k)}
  <1>1. \E k \in 1..n : ref \in RefsOf(k)
    BY DEF StatusOf
  <1>2. StatusOf(ref) = VerdictsOf(first)[ref[2]].status
    BY <1>1 DEF StatusOf
  <1>3. n \in Nat
    BY InputsFacts DEF InputsInv
  <1>4. \E k \in 1..n : ref \in RefsOf(k) /\ \A l \in 1..(k - 1) : ref \notin RefsOf(l)
    <2>1. U # {} /\ U \subseteq Nat
      BY <1>1
    <2>2. PICK k \in U : \A l \in U : k <= l
      <3> HIDE DEF U
      <3>1. QED BY <2>1, FirstOf
    <2>3. ASSUME NEW l \in 1..(k - 1) PROVE ref \notin RefsOf(l)
      <3>1. l \in 1..n /\ ~(k <= l)
        BY <1>3
      <3>2. QED BY <2>2, <3>1
    <2>4. QED BY <2>2, <2>3
  <1>5. /\ first \in 1..n /\ ref \in RefsOf(first)
        /\ \A l \in 1..(first - 1) : ref \notin RefsOf(l)
    BY <1>4
  <1> HIDE DEF first
  <1>6. PICK k \in 1..n : k = first
    BY <1>5
  <1> DEFINE cs == checks[k]
             vs == VerdictsOf(k)
  <1>7. PICK r \in DOMAIN vs : ref = Ref(k, r)
    BY <1>5, <1>6 DEF RefsOf
  <1>8. r = ref[2]
    BY <1>7, RefHasFile DEF InputsInv
  <1>9. Tells(cs, DOMAIN cs, vs)
    BY <1>7, VerdictsOfInput
  <1>10. vs[ref[2]].status = "VERIFIED"
    BY <1>2, <1>6
  <1> HIDE DEF cs, vs
  <1>11. /\ \E i \in DOMAIN cs : cs[i].rule = ref[2]
         /\ \A i \in DOMAIN cs : cs[i].rule = ref[2] => cs[i].status = "VERIFIED"
    <2>1. ref[2] \in DOMAIN vs
      BY <1>7, <1>8
    <2> DEFINE rule == ref[2]
    <2>2. rule \in DOMAIN vs /\ vs[rule].status = "VERIFIED"
      BY <1>10, <2>1
    <2>3. DOMAIN vs = {cs[i].rule : i \in DOMAIN cs}
      BY <1>9 DEF Tells
    <2> HIDE DEF rule
    <2>4. /\ \E i \in DOMAIN cs : cs[i].rule = rule
          /\ \A i \in DOMAIN cs : cs[i].rule = rule => cs[i].status = "VERIFIED"
      <3>1. \E i \in DOMAIN cs : cs[i].rule = rule
        BY <2>2, <2>3
      <3>2. QED BY <1>9, <2>2, <3>1 DEF Tells
    <2>5. QED BY <2>4 DEF rule
  <1>12. ASSUME NEW l \in 1..(k - 1), NEW i \in DOMAIN checks[l],
                checks[l][i].rule = ref[2], checks[l][i].file = ref[1]
         PROVE  FALSE
    <2>1. l \in 1..n
      BY <1>3
    <2>2. ref \in RefsOf(l)
      BY <1>12, <2>1, CheckIsFound
    <2>3. QED BY <1>5, <1>6, <2>2
  <1>13. QED BY <1>11, <1>12 DEF cs

LEMMA ReportIsHonest ==
  ASSUME InputsInv, NEW drafts
  PROVE  IsHonest(AutoProverReport(drafts), inputs, checks)
  <1> DEFINE rep == AutoProverReport(drafts)
             Refs(g) == UNION {ByKey(k).refs : k \in Range(drafts[g]) \cap Keys}
  <1>1. /\ DOMAIN rep.groups = DOMAIN drafts
        /\ \A g \in DOMAIN drafts :
             /\ rep.groups[g].members = drafts[g]
             /\ rep.groups[g].status = AggregateStatus({StatusOf(ref) : ref \in Refs(g)})
        /\ rep.properties = Range(Properties)
    BY ReportParts
  <1>2. inputs \in Components
    BY DEF InputsInv
  <1> HIDE DEF rep
  <1>3. SUFFICES ASSUME NEW g \in DOMAIN rep.groups, rep.groups[g].status = "VERIFIED",
                        NEW p \in rep.properties, p.key \in Range(rep.groups[g].members),
                        NEW ref \in p.refs
                 PROVE  IsRef(ref) /\ StatusOf(ref) = "VERIFIED"
    BY VerifiedRef DEF IsHonest, rep
  <1>4. p \in Range(Properties) /\ g \in DOMAIN drafts /\ p.key \in Range(drafts[g])
    BY <1>1, <1>3
  <1>5. p.key \in Keys /\ ByKey(p.key) = p
    BY <1>2, <1>4, ByKeyFacts
  <1>6. ref \in Refs(g)
    BY <1>4, <1>5
  <1>7. {StatusOf(x) : x \in Refs(g)} = {"VERIFIED"}
    <2> HIDE DEF Refs
    <2>1. AggregateStatus({StatusOf(x) : x \in Refs(g)}) = "VERIFIED"
      BY <1>1, <1>3, <1>4
    <2>2. QED BY <2>1, AllVerified
  <1>8. StatusOf(ref) = "VERIFIED"
    BY <1>6, <1>7
  <1>9. PICK k \in 1..Len(inputs) : \E t \in Range(inputs[k].props) : p = Entry(k, t)
    BY <1>2, <1>4, PropertyFacts
  <1>10. PICK t \in Range(inputs[k].props) : p = Entry(k, t)
    BY <1>9
  <1>11. PICK r : ref = Ref(k, r)
    BY <1>10 DEF Entry
  <1>12. QED BY <1>2, <1>8, <1>11, RefHasFile

\* A group that a report calls verified was: by every check of its rules that the
\* first run to name them made (collect.py, grouping.py).
THEOREM VerifiedMeansVerified == Spec => []VerifiedHonest
  <1> DEFINE Inv == InputsInv /\ (Built => IsHonest(report, inputs, checks))
  <1>1. Init => Inv
    <2>1. Init => ~Built
      BY DEF Init, Built
    <2>2. QED BY <2>1, InputsInit
  <1>2. Inv /\ [Next]_vars => Inv'
    <2>1. SUFFICES ASSUME Inv, [Next]_vars PROVE (Built => IsHonest(report, inputs, checks))'
      BY InputsStep
    <2>2. ASSUME NEW k \in 1..Len(inputs), FetchVerdicts(k) PROVE ~Built'
      BY <2>2 DEF FetchVerdicts, Built
    <2>3. CASE BuildReport
      <3>1. SUFFICES ASSUME Built' PROVE IsHonest(report', inputs', checks')
        OBVIOUS
      <3>2. PICK drafts : report' = AutoProverReport(drafts)
        BY <2>1, <2>3, <3>1, BuiltFrom DEF InputsInv
      <3>3. IsHonest(AutoProverReport(drafts), inputs, checks) /\ inputs' = inputs /\ checks' = checks
        BY <2>1, <2>3, <3>2, ReportIsHonest DEF BuildReport
      <3>4. QED BY <3>2, <3>3
    <2>4. CASE UNCHANGED vars
      BY <2>1, <2>4 DEF vars, Built
    <2>5. QED BY <2>1, <2>2, <2>3, <2>4 DEF Next
  <1>3. Inv => VerifiedHonest
    BY HonestMeans
  <1>4. QED BY <1>1, <1>2, <1>3, PTL DEF Spec

-----------------------------------------------------------------------------
(* Sequences built one by one, and the fold that runs the printer's         *)
(* instructions.                                                            *)

LEMMA MaxOf ==
  ASSUME NEW n \in Nat, NEW s, s \subseteq 0..n, s # {}
  PROVE  \E x \in s : \A y \in s : y <= x
  <1> DEFINE T == {m \in Nat : \A r \in SUBSET (0..m) : r # {} => \E x \in r : \A y \in r : y <= x}
  <1>1. 0 \in T
    <2>1. ASSUME NEW r \in SUBSET (0..0), r # {} PROVE \E x \in r : \A y \in r : y <= x
      <3>1. PICK x \in r : x \in 0..0
        BY <2>1
      <3>2. \A y \in r : y <= x
        BY <3>1
      <3>3. QED BY <3>2
    <2>2. QED BY <2>1
  <1>2. ASSUME NEW m \in Nat, m \in T PROVE m + 1 \in T
    <2>1. ASSUME NEW r \in SUBSET (0..(m + 1)), r # {} PROVE \E x \in r : \A y \in r : y <= x
      <3>1. CASE m + 1 \in r
        <4>1. \A y \in r : y <= m + 1
          OBVIOUS
        <4>2. QED BY <3>1, <4>1
      <3>2. CASE m + 1 \notin r
        <4>1. r \in SUBSET (0..m)
          BY <3>2
        <4>2. QED BY <1>2, <2>1, <4>1
      <3>3. QED BY <3>1, <3>2
    <2>2. QED BY <2>1
  <1>3. Nat \subseteq T
    <2> HIDE DEF T
    <2>1. QED BY <1>1, <1>2, NatClosed
  <1>4. QED BY <1>3

\* A set with the empty sequence that is closed under Append holds every sequence.
LEMMA SeqClosed ==
  ASSUME NEW A, NEW T, <<>> \in T, \A s \in Seq(A), x \in A : s \in T => Append(s, x) \in T
  PROVE  Seq(A) \subseteq T
  <1> DEFINE U == {n \in Nat : \A s \in Seq(A) : Len(s) = n => s \in T}
  <1>1. 0 \in U
    <2>1. \A s \in Seq(A) : Len(s) = 0 => s = <<>>
      OBVIOUS
    <2>2. QED BY <2>1
  <1>2. ASSUME NEW n \in Nat, n \in U PROVE n + 1 \in U
    <2>1. SUFFICES ASSUME NEW s \in Seq(A), Len(s) = n + 1 PROVE s \in T
      OBVIOUS
    <2> DEFINE r == SubSeq(s, 1, n)
    <2>2. r \in Seq(A) /\ Len(r) = n /\ s[n + 1] \in A /\ s = Append(r, s[n + 1])
      BY <2>1
    <2>3. QED BY <1>2, <2>2
  <1>3. Nat \subseteq U
    <2> HIDE DEF U
    <2>1. QED BY <1>1, <1>2, NatClosed
  <1>4. \A s \in Seq(A) : Len(s) \in Nat
    OBVIOUS
  <1>5. QED BY <1>3, <1>4

LEMMA ConcatAssoc ==
  ASSUME NEW A, NEW s \in Seq(A), NEW t \in Seq(A), NEW u \in Seq(A)
  PROVE  (s \o t) \o u = s \o (t \o u)
  OBVIOUS

LEMMA FlattenAppend ==
  ASSUME NEW A, NEW seqs \in Seq(Seq(A)), NEW x \in Seq(A)
  PROVE  FlattenSeq(Append(seqs, x)) = FlattenSeq(seqs) \o x
  <1> DEFINE n == Len(seqs)
             more == Append(seqs, x)
  <1>1. /\ n \in Nat /\ more \in Seq(Seq(A)) /\ Len(more) = n + 1 /\ more[n + 1] = x /\ more # <<>>
        /\ \A i \in 1..n : more[i] = seqs[i]
    OBVIOUS
  <1> HIDE DEF more
  <1>2. PICK g \in [1..Len(more) -> Seq(A)] :
           /\ g[1] = more[1]
           /\ \A i \in 1..Len(more) : i # 1 => g[i] = g[i - 1] \o more[i]
           /\ FlattenSeq(more) = g[Len(more)]
    BY <1>1, FlattenSteps
  <1>3. CASE seqs = <<>>
    <2>1. n = 0 /\ FlattenSeq(seqs) = <<>>
      BY <1>3 DEF FlattenSeq
    <2>2. FlattenSeq(more) = x
      BY <1>1, <1>2, <2>1
    <2>3. <<>> \o x = x
      OBVIOUS
    <2>4. QED BY <2>1, <2>2, <2>3 DEF more
  <1>4. CASE seqs # <<>>
    <2>1. PICK f \in [1..n -> Seq(A)] :
             /\ f[1] = seqs[1]
             /\ \A i \in 1..n : i # 1 => f[i] = f[i - 1] \o seqs[i]
             /\ FlattenSeq(seqs) = f[n]
      BY <1>4, FlattenSteps
    <2>2. n # 0
      BY <1>4
    <2> DEFINE T == {m \in Nat : m + 1 <= n => g[m + 1] = f[m + 1]}
    <2>3. 0 \in T
      <3>1. 1 \in 1..n
        BY <1>1, <2>2
      <3>2. QED BY <1>1, <1>2, <2>1, <3>1
    <2>4. ASSUME NEW m \in Nat, m \in T PROVE m + 1 \in T
      <3> DEFINE k == m + 1
      <3>1. SUFFICES ASSUME k + 1 <= n PROVE g[k + 1] = f[k + 1]
        OBVIOUS
      <3>2. k + 1 \in 1..n /\ k + 1 \in 1..Len(more) /\ k + 1 # 1 /\ (k + 1) - 1 = k /\ g[k] = f[k]
        BY <1>1, <2>4, <3>1
      <3> HIDE DEF k
      <3>3. f[k + 1] = f[k] \o seqs[k + 1] /\ g[k + 1] = g[k] \o more[k + 1]
        BY <1>2, <2>1, <3>2
      <3>4. QED BY <1>1, <3>2, <3>3
    <2>5. Nat \subseteq T
      <3> HIDE DEF T
      <3>1. QED BY <2>3, <2>4, NatClosed
    <2>6. n - 1 \in Nat /\ (n - 1) + 1 = n
      BY <1>1, <2>2
    <2>10. n - 1 \in T
      BY <2>5, <2>6
    <2>7. n + 1 \in 1..Len(more) /\ (n + 1) - 1 = n /\ n + 1 # 1 /\ g[n] = f[n]
      BY <1>1, <2>2, <2>6, <2>10
    <2>8. g[n + 1] = g[n] \o more[n + 1]
      BY <1>2, <2>7
    <2>9. QED BY <1>1, <1>2, <2>1, <2>7, <2>8 DEF more
  <1>5. QED BY <1>3, <1>4

\* What instructions make of a state of the builders.
Run(s, P) == FoldLeft(Exec, s, P)

LEMMA LargestOf ==
  ASSUME NEW n \in Nat, NEW s, s \subseteq 1..n, s # {}
  PROVE  Max(s) \in s /\ \A y \in s : y <= Max(s)
  <1>1. s \subseteq 0..n
    OBVIOUS
  <1>2. PICK x \in s : \A y \in s : y <= x
    BY <1>1, MaxOf
  <1>3. \A y \in s : x >= y
    BY <1>1, <1>2
  <1>4. Max(s) \in s /\ \A y \in s : Max(s) >= y
    BY <1>3 DEF Max
  <1>5. QED BY <1>1, <1>4

\* The recursion of FoldLeft runs over sets of places.
RunsOver(f, s, P, n) ==
  f = [S \in SUBSET (1..n) |-> IF S = {} THEN s ELSE Exec(f[S \ {Max(S)}], P[Max(S)])]

LEMMA RunExists ==
  ASSUME NEW s, NEW P, NEW n \in Nat
  PROVE  \E f : RunsOver(f, s, P, n)
  <1> DEFINE T == {m \in Nat : \E f : RunsOver(f, s, P, m)}
  <1>1. 0 \in T
    <2> DEFINE f == [S \in SUBSET (1..0) |-> s]
    <2>1. \A S \in SUBSET (1..0) : S = {}
      OBVIOUS
    <2>2. f = [S \in SUBSET (1..0) |-> IF S = {} THEN s ELSE Exec(f[S \ {Max(S)}], P[Max(S)])]
      BY <2>1
    <2>3. RunsOver(f, s, P, 0)
      BY <2>2 DEF RunsOver
    <2>4. QED BY <2>3
  <1>2. ASSUME NEW m \in Nat, m \in T PROVE m + 1 \in T
    <2>1. PICK f : RunsOver(f, s, P, m)
      BY <1>2
    <2> DEFINE h == [S \in SUBSET (1..(m + 1)) |-> IF S = {} THEN s ELSE Exec(f[S \ {Max(S)}], P[Max(S)])]
    <2>2. ASSUME NEW S \in SUBSET (1..(m + 1)), S # {}
          PROVE  S \ {Max(S)} \in SUBSET (1..m) /\ S \ {Max(S)} \in SUBSET (1..(m + 1))
      <3>1. m + 1 \in Nat /\ S \subseteq 1..(m + 1)
        OBVIOUS
      <3>2. Max(S) \in S /\ \A y \in S : y <= Max(S)
        BY <2>2, <3>1, LargestOf
      <3>3. ASSUME NEW y \in S \ {Max(S)} PROVE y \in 1..m
        <4>1. y \in 1..(m + 1) /\ Max(S) \in 1..(m + 1) /\ y <= Max(S) /\ y # Max(S)
          BY <3>1, <3>2
        <4>2. QED BY <4>1
      <3>4. QED BY <3>1, <3>3
    <2>3. ASSUME NEW S \in SUBSET (1..m) PROVE h[S] = f[S]
      <3>1. S \in SUBSET (1..(m + 1))
        OBVIOUS
      <3>2. f[S] = IF S = {} THEN s ELSE Exec(f[S \ {Max(S)}], P[Max(S)])
        BY <2>1 DEF RunsOver
      <3>3. h[S] = IF S = {} THEN s ELSE Exec(f[S \ {Max(S)}], P[Max(S)])
        BY <3>1
      <3>4. QED BY <3>2, <3>3
    <2>4. ASSUME NEW S \in SUBSET (1..(m + 1))
          PROVE  h[S] = IF S = {} THEN s ELSE Exec(h[S \ {Max(S)}], P[Max(S)])
      <3>1. CASE S = {}
        BY <3>1
      <3>2. CASE S # {}
        <4>1. h[S \ {Max(S)}] = f[S \ {Max(S)}]
          BY <2>2, <2>3, <3>2
        <4>2. h[S] = Exec(f[S \ {Max(S)}], P[Max(S)])
          BY <3>2
        <4>3. QED BY <3>2, <4>1, <4>2
      <3>3. QED BY <3>1, <3>2
    <2>5. h = [S \in SUBSET (1..(m + 1)) |-> IF S = {} THEN s ELSE Exec(h[S \ {Max(S)}], P[Max(S)])]
      <3>1. h = [S \in SUBSET (1..(m + 1)) |-> h[S]]
        OBVIOUS
      <3> HIDE DEF h
      <3>2. QED BY <2>4, <3>1
    <2>6. RunsOver(h, s, P, m + 1)
      <3> HIDE DEF h
      <3>1. QED BY <2>5 DEF RunsOver
    <2>7. QED BY <2>6
  <1>3. Nat \subseteq T
    <2> HIDE DEF T
    <2>1. QED BY <1>1, <1>2, NatClosed
  <1>4. QED BY <1>3

LEMMA RunFold ==
  ASSUME NEW s, NEW A, NEW P \in Seq(A)
  PROVE  \E f : RunsOver(f, s, P, Len(P)) /\ Run(s, P) = f[1..Len(P)]
  <1> DEFINE n == Len(P)
             iter == CHOOSE f : RunsOver(f, s, P, n)
  <1>1. n \in Nat /\ DOMAIN P = 1..n
    OBVIOUS
  <1>2. RunsOver(iter, s, P, n)
    <2>1. \E f : RunsOver(f, s, P, n)
      BY <1>1, RunExists
    <2>2. QED BY <2>1
  <1>3. Run(s, P) = iter[1..n]
    BY <1>1 DEF Run, FoldLeft, MapThenFoldSet, RunsOver
  <1> HIDE DEF iter
  <1>4. QED BY <1>2, <1>3

LEMMA UptoMax ==
  ASSUME NEW n \in Nat
  PROVE  1..(n + 1) # {} /\ Max(1..(n + 1)) = n + 1 /\ (1..(n + 1)) \ {n + 1} = 1..n /\ 1..0 = {}
  <1> DEFINE S == 1..(n + 1)
  <1>1. n + 1 \in S
    OBVIOUS
  <1>2. n + 1 \in Nat /\ S \subseteq 1..(n + 1) /\ S # {}
    BY <1>1
  <1>3. Max(S) \in S /\ \A y \in S : y <= Max(S)
    <2> HIDE DEF S
    <2>1. QED BY <1>2, LargestOf
  <1>4. Max(S) = n + 1
    BY <1>1, <1>3
  <1>5. S \ {n + 1} = 1..n
    OBVIOUS
  <1>6. QED BY <1>2, <1>4, <1>5

\* Instructions are run one after another.
LEMMA RunNone ==
  ASSUME NEW s PROVE Run(s, <<>>) = s
  <1>1. <<>> \in Seq({}) /\ Len(<<>>) = 0
    OBVIOUS
  <1>2. PICK f : RunsOver(f, s, <<>>, 0) /\ Run(s, <<>>) = f[1..0]
    BY <1>1, RunFold
  <1>3. 1..0 = {} /\ {} \in SUBSET (1..0)
    OBVIOUS
  <1>4. QED BY <1>2, <1>3 DEF RunsOver

LEMMA RunMore ==
  ASSUME NEW s, NEW A, NEW P \in Seq(A), NEW i \in A
  PROVE  Run(s, Append(P, i)) = Exec(Run(s, P), i)
  <1> DEFINE n == Len(P)
             more == Append(P, i)
  <1>1. /\ n \in Nat /\ more \in Seq(A) /\ Len(more) = n + 1 /\ more[n + 1] = i
        /\ \A k \in 1..n : more[k] = P[k]
    OBVIOUS
  <1> HIDE DEF more
  <1>2. PICK f : RunsOver(f, s, P, n) /\ Run(s, P) = f[1..n]
    BY RunFold
  <1>3. PICK g : RunsOver(g, s, more, n + 1) /\ Run(s, more) = g[1..(n + 1)]
    BY <1>1, RunFold
  <1> DEFINE T == {m \in Nat : m <= n => g[1..m] = f[1..m]}
  <1>4. 0 \in T
    <2>1. 1..0 = {} /\ {} \in SUBSET (1..n) /\ {} \in SUBSET (1..(n + 1))
      OBVIOUS
    <2>2. f[{}] = s /\ g[{}] = s
      BY <1>2, <1>3, <2>1 DEF RunsOver
    <2>3. QED BY <2>1, <2>2
  <1>5. ASSUME NEW m \in Nat, m \in T PROVE m + 1 \in T
    <2>1. SUFFICES ASSUME m + 1 <= n PROVE g[1..(m + 1)] = f[1..(m + 1)]
      OBVIOUS
    <2> DEFINE S == 1..(m + 1)
    <2>2. S # {} /\ Max(S) = m + 1 /\ S \ {m + 1} = 1..m
      BY UptoMax
    <2>3. S \in SUBSET (1..n) /\ S \in SUBSET (1..(n + 1)) /\ m + 1 \in 1..n /\ g[1..m] = f[1..m]
      BY <1>1, <1>5, <2>1
    <2> HIDE DEF S
    <2>4. f[S] = Exec(f[S \ {Max(S)}], P[Max(S)]) /\ g[S] = Exec(g[S \ {Max(S)}], more[Max(S)])
      BY <1>2, <1>3, <2>2, <2>3 DEF RunsOver
    <2>5. QED BY <1>1, <2>2, <2>3, <2>4 DEF S
  <1>6. Nat \subseteq T
    <2> HIDE DEF T
    <2>1. QED BY <1>4, <1>5, NatClosed
  <1>7. g[1..n] = f[1..n]
    BY <1>1, <1>6
  <1>8. g[1..(n + 1)] = Exec(g[1..n], more[n + 1])
    <2> DEFINE S == 1..(n + 1)
    <2>1. S # {} /\ Max(S) = n + 1 /\ S \ {n + 1} = 1..n /\ S \in SUBSET (1..(n + 1))
      BY <1>1, UptoMax
    <2> HIDE DEF S
    <2>2. g[S] = Exec(g[S \ {Max(S)}], more[Max(S)])
      BY <1>3, <2>1 DEF RunsOver
    <2>3. QED BY <2>1, <2>2 DEF S
  <1>9. QED BY <1>1, <1>2, <1>3, <1>7, <1>8 DEF more

LEMMA RunConcat ==
  ASSUME NEW s, NEW A, NEW P \in Seq(A), NEW Q \in Seq(A)
  PROVE  Run(s, P \o Q) = Run(Run(s, P), Q)
  <1> DEFINE T == {q \in Seq(A) : Run(s, P \o q) = Run(Run(s, P), q)}
  <1>1. <<>> \in T
    <2>1. P \o <<>> = P /\ <<>> \in Seq(A)
      OBVIOUS
    <2>2. QED BY <2>1, RunNone
  <1>2. ASSUME NEW q \in Seq(A), NEW x \in A, q \in T PROVE Append(q, x) \in T
    <2>1. P \o Append(q, x) = Append(P \o q, x) /\ P \o q \in Seq(A) /\ Append(q, x) \in Seq(A)
      OBVIOUS
    <2>2. Run(s, Append(P \o q, x)) = Exec(Run(s, P \o q), x)
      BY <2>1, RunMore
    <2>3. Run(Run(s, P), Append(q, x)) = Exec(Run(Run(s, P), q), x)
      BY RunMore
    <2>4. QED BY <1>2, <2>1, <2>2, <2>3
  <1>3. Seq(A) \subseteq T
    <2> HIDE DEF T
    <2>1. QED BY <1>1, <1>2, SeqClosed
  <1>4. QED BY <1>3

-----------------------------------------------------------------------------
(* The builders: what each instruction does to the innermost one.           *)

\* The tokens of the text, and what an instruction is.
Literals ==
  {"(", ")", ",", "->", ".", ";", "=", "=>", "ALWAYS", "C", "C._", "CALL", "DISPATCH", "INDEX",
    "KEY", "NONDET", "S", "Sload", "Sstore", "[", "]", "_._", "address", "assert", "assuming",
    "axiom", "constructor", "default", "definition", "e", "else", "env", "external", "f",
    "fallback", "filtered", "function", "g", "ghost", "havoc", "hook", "i", "if", "in", "invariant",
    "k", "m", "message", "methods", "old", "persistent", "preserved", "r", "rc", "require",
    "requireInvariant", "reset_storage", "return", "returns", "revert", "rule", "satisfy", "slot",
    "sort", "uint256", "unresolved", "v", "with", "{", "}"}
Words == Literals \cup UNION {Range(e) : e \in Exps}
Toks == Seq(Words)
Kinds == {"line", "open", "append", "close", "indent", "dedent"}
Instructions == [do : Kinds, toks : Toks]
BufferLines == [indent : Nat, toks : Toks]
BuilderStates == [indent : Nat, buffer : Seq(BufferLines), open : BOOLEAN, pieces : Toks]
St(bs, b, r) == [builders |-> Append(bs, b), raised |-> r]

LEMMA InstructionTypes ==
  ASSUME NEW t \in Toks
  PROVE  /\ Line(t) \in Instructions /\ Piece(t) \in Instructions
         /\ Line(t).toks = t /\ Piece(t).toks = t
  BY DEF Line, Piece, Instructions, Kinds

LEMMA MarkTypes ==
  /\ Open \in Instructions /\ Close \in Instructions /\ Indent \in Instructions /\ Dedent \in Instructions
  /\ Open.toks = <<>> /\ Close.toks = <<>> /\ Indent.toks = <<>> /\ Dedent.toks = <<>>
  <1>1. <<>> \in Toks
    BY DEF Toks
  <1>2. QED BY <1>1 DEF Open, Close, Indent, Dedent, Instructions, Kinds

LEMMA StackTop ==
  ASSUME NEW bs \in Seq(BuilderStates), NEW b \in BuilderStates, NEW new \in BuilderStates
  PROVE  /\ Len(Append(bs, b)) = Len(bs) + 1 /\ Append(bs, b)[Len(bs) + 1] = b
         /\ [Append(bs, b) EXCEPT ![Len(bs) + 1] = new] = Append(bs, new)
         /\ SubSeq(Append(bs, b), 1, Len(bs)) = bs
  <1> DEFINE n == Len(bs)
             s == Append(bs, b)
             t == Append(bs, new)
  <1>1. /\ n \in Nat /\ s \in Seq(BuilderStates) /\ Len(s) = n + 1 /\ s[n + 1] = b
        /\ DOMAIN s = 1..(n + 1) /\ \A i \in 1..n : s[i] = bs[i]
    OBVIOUS
  <1>2. t \in Seq(BuilderStates) /\ DOMAIN t = 1..(n + 1) /\ t[n + 1] = new /\ \A i \in 1..n : t[i] = bs[i]
    OBVIOUS
  <1>3. SubSeq(s, 1, n) = bs
    OBVIOUS
  <1> HIDE DEF s, t
  <1> DEFINE e == [s EXCEPT ![n + 1] = new]
  <1>4. DOMAIN e = 1..(n + 1) /\ e[n + 1] = new /\ \A i \in 1..n : e[i] = bs[i]
    BY <1>1
  <1>5. e = [i \in 1..(n + 1) |-> e[i]] /\ t = [i \in 1..(n + 1) |-> t[i]]
    <2>1. e = [i \in DOMAIN e |-> e[i]]
      OBVIOUS
    <2>2. t = [i \in DOMAIN t |-> t[i]]
      BY <1>2
    <2> HIDE DEF e
    <2>3. QED BY <1>2, <1>4, <2>1, <2>2
  <1>6. e = t
    <2> HIDE DEF e
    <2>1. ASSUME NEW i \in 1..(n + 1) PROVE e[i] = t[i]
      <3>1. i = n + 1 \/ i \in 1..n
        BY <1>1
      <3>2. QED BY <1>2, <1>4, <3>1
    <2>2. QED BY <1>5, <2>1
  <1>7. QED BY <1>1, <1>3, <1>6 DEF s, t

LEMMA BuilderTypes ==
  ASSUME NEW b \in BuilderStates, NEW t \in Toks
  PROVE  /\ Put(b, t) \in BuilderStates /\ Flush(b) \in BuilderStates /\ Builder(b.indent + 1) \in BuilderStates
         /\ [b EXCEPT !.pieces = @ \o t] \in BuilderStates /\ [b EXCEPT !.open = TRUE] \in BuilderStates
         /\ [Flush(b) EXCEPT !.open = FALSE] \in BuilderStates
         /\ \A ls \in Seq(BufferLines) : [b EXCEPT !.buffer = @ \o ls] \in BuilderStates
  <1>1. b.indent \in Nat /\ b.buffer \in Seq(BufferLines) /\ b.open \in BOOLEAN /\ b.pieces \in Toks
    BY DEF BuilderStates
  <1>2. \A u \in Toks : Put(b, u) \in BuilderStates
    <2>1. ASSUME NEW u \in Toks PROVE Append(b.buffer, [indent |-> b.indent, toks |-> u]) \in Seq(BufferLines)
      <3>1. [indent |-> b.indent, toks |-> u] \in BufferLines
        BY <1>1 DEF BufferLines
      <3>2. QED BY <1>1, <3>1
    <2>2. QED BY <2>1 DEF Put, BuilderStates
  <1>3. <<>> \in Toks /\ \A u \in Toks : b.pieces \o u \in Toks
    BY <1>1 DEF Toks
  <1>4. Flush(b) \in BuilderStates
    <2>1. \A c \in BuilderStates : [c EXCEPT !.pieces = <<>>] \in BuilderStates
      BY <1>3 DEF BuilderStates
    <2>2. QED BY <1>1, <1>2, <2>1 DEF Flush
  <1>5. Builder(b.indent + 1) \in BuilderStates
    <2>1. <<>> \in Seq(BufferLines) /\ b.indent + 1 \in Nat
      BY <1>1
    <2>2. QED BY <1>3, <2>1 DEF Builder, BuilderStates
  <1>6. [b EXCEPT !.pieces = @ \o t] \in BuilderStates /\ [b EXCEPT !.open = TRUE] \in BuilderStates
    BY <1>3 DEF BuilderStates
  <1>7. [Flush(b) EXCEPT !.open = FALSE] \in BuilderStates
    BY <1>4 DEF BuilderStates
  <1>8. ASSUME NEW ls \in Seq(BufferLines) PROVE [b EXCEPT !.buffer = @ \o ls] \in BuilderStates
    <2>1. b.buffer \o ls \in Seq(BufferLines)
      BY <1>1
    <2>2. QED BY <2>1 DEF BuilderStates
  <1>9. QED BY <1>2, <1>4, <1>5, <1>6, <1>7, <1>8

LEMMA StTop ==
  ASSUME NEW bs \in Seq(BuilderStates), NEW b \in BuilderStates, NEW r, NEW s, s = St(bs, b, r)
  PROVE  /\ s.builders = Append(bs, b) /\ Len(s.builders) = Len(bs) + 1 /\ s.raised = r
         /\ s.builders[Len(s.builders)] = b
  <1>1. s.builders = Append(bs, b) /\ s.raised = r
    BY DEF St
  <1>2. Len(Append(bs, b)) = Len(bs) + 1 /\ Append(bs, b)[Len(bs) + 1] = b
    BY StackTop
  <1>3. QED BY <1>1, <1>2

LEMMA StReplace ==
  ASSUME NEW bs \in Seq(BuilderStates), NEW b \in BuilderStates, NEW r, NEW s, s = St(bs, b, r),
         NEW new \in BuilderStates
  PROVE  [s EXCEPT !.builders[Len(s.builders)] = new] = St(bs, new, r)
  <1> DEFINE more == [s.builders EXCEPT ![Len(s.builders)] = new]
  <1>1. s.builders = Append(bs, b) /\ Len(s.builders) = Len(bs) + 1 /\ s.raised = r
    BY StTop
  <1>2. more = Append(bs, new)
    BY <1>1, StackTop
  <1>3. [s EXCEPT !.builders[Len(s.builders)] = new] = [s EXCEPT !.builders = more]
    OBVIOUS
  <1> HIDE DEF more
  <1>4. [s EXCEPT !.builders = more] = [builders |-> more, raised |-> r]
    BY DEF St
  <1>5. QED BY <1>2, <1>3, <1>4 DEF St

LEMMA ExecLine ==
  ASSUME NEW bs \in Seq(BuilderStates), NEW b \in BuilderStates, NEW r, NEW t \in Toks
  PROVE  Exec(St(bs, b, r), Line(t)) = St(bs, Put(b, t), r)
  <1>1. SUFFICES ASSUME NEW s, s = St(bs, b, r) PROVE Exec(s, Line(t)) = St(bs, Put(b, t), r)
    OBVIOUS
  <1>2. s.builders[Len(s.builders)] = b
    BY <1>1, StTop
  <1>3. Line(t).do = "line" /\ Line(t).toks = t
    BY DEF Line
  <1>4. Exec(s, Line(t)) = [s EXCEPT !.builders[Len(s.builders)] = Put(s.builders[Len(s.builders)], Line(t).toks)]
    BY <1>3 DEF Exec
  <1> DEFINE new == Put(b, t)
  <1>5. Exec(s, Line(t)) = [s EXCEPT !.builders[Len(s.builders)] = new]
    BY <1>2, <1>3, <1>4
  <1>6. new \in BuilderStates
    BY BuilderTypes
  <1>7. Exec(s, Line(t)) = St(bs, new, r)
    <2> HIDE DEF new
    <2>1. QED BY <1>1, <1>5, <1>6, StReplace
  <1>8. QED BY <1>7

LEMMA ExecPiece ==
  ASSUME NEW bs \in Seq(BuilderStates), NEW b \in BuilderStates, NEW r, NEW t \in Toks
  PROVE  Exec(St(bs, b, r), Piece(t)) = St(bs, [b EXCEPT !.pieces = @ \o t], r)
  <1>1. SUFFICES ASSUME NEW s, s = St(bs, b, r) PROVE Exec(s, Piece(t)) = St(bs, [b EXCEPT !.pieces = @ \o t], r)
    OBVIOUS
  <1>2. s.builders[Len(s.builders)] = b
    BY <1>1, StTop
  <1>3. Piece(t).do = "append" /\ Piece(t).toks = t
    BY DEF Piece
  <1>4. Exec(s, Piece(t)) =
          [s EXCEPT !.builders[Len(s.builders)] = [s.builders[Len(s.builders)] EXCEPT !.pieces = @ \o Piece(t).toks]]
    BY <1>3 DEF Exec
  <1> DEFINE new == [b EXCEPT !.pieces = @ \o t]
  <1>5. Exec(s, Piece(t)) = [s EXCEPT !.builders[Len(s.builders)] = new]
    BY <1>2, <1>3, <1>4
  <1>6. new \in BuilderStates
    BY BuilderTypes
  <1>7. Exec(s, Piece(t)) = St(bs, new, r)
    <2> HIDE DEF new
    <2>1. QED BY <1>1, <1>5, <1>6, StReplace
  <1>8. QED BY <1>7

LEMMA ExecOpen ==
  ASSUME NEW bs \in Seq(BuilderStates), NEW b \in BuilderStates, NEW r, ~b.open, r \in BOOLEAN
  PROVE  Exec(St(bs, b, r), Open) = St(bs, [b EXCEPT !.open = TRUE], r)
  <1>1. SUFFICES ASSUME NEW s, s = St(bs, b, r) PROVE Exec(s, Open) = St(bs, [b EXCEPT !.open = TRUE], r)
    OBVIOUS
  <1>2. s.builders[Len(s.builders)] = b /\ s.raised = r
    BY <1>1, StTop
  <1>3. Open.do = "open"
    BY DEF Open
  <1> DEFINE now == [s EXCEPT !.builders[Len(s.builders)] = [s.builders[Len(s.builders)] EXCEPT !.open = TRUE]]
  <1>4. Exec(s, Open) = [now EXCEPT !.raised = @ \/ s.builders[Len(s.builders)].open]
    BY <1>3 DEF Exec
  <1> DEFINE new == [b EXCEPT !.open = TRUE]
  <1>5. now = St(bs, new, r)
    <2>1. now = [s EXCEPT !.builders[Len(s.builders)] = new]
      BY <1>2
    <2>2. new \in BuilderStates
      <3>1. <<>> \in Toks
        BY DEF Toks
      <3>2. QED BY <3>1, BuilderTypes
    <2> HIDE DEF now, new
    <2>3. QED BY <1>1, <2>1, <2>2, StReplace
  <1> HIDE DEF now
  <1>6. [now EXCEPT !.raised = r] = now /\ now.raised = r
    <2>1. \A x : [[builders |-> x, raised |-> r] EXCEPT !.raised = r] = [builders |-> x, raised |-> r]
      OBVIOUS
    <2> HIDE DEF new
    <2>2. now = [builders |-> Append(bs, new), raised |-> r]
      BY <1>5 DEF St
    <2>3. QED BY <2>1, <2>2
  <1>7. (now.raised \/ s.builders[Len(s.builders)].open) = r
    BY <1>2, <1>6
  <1>8. QED BY <1>4, <1>5, <1>6, <1>7

LEMMA ExecClose ==
  ASSUME NEW bs \in Seq(BuilderStates), NEW b \in BuilderStates, NEW r
  PROVE  Exec(St(bs, b, r), Close) = St(bs, [Flush(b) EXCEPT !.open = FALSE], r)
  <1>1. SUFFICES ASSUME NEW s, s = St(bs, b, r) PROVE Exec(s, Close) = St(bs, [Flush(b) EXCEPT !.open = FALSE], r)
    OBVIOUS
  <1>2. s.builders[Len(s.builders)] = b
    BY <1>1, StTop
  <1>3. Close.do = "close"
    BY DEF Close
  <1>4. Exec(s, Close) =
          [s EXCEPT !.builders[Len(s.builders)] = [Flush(s.builders[Len(s.builders)]) EXCEPT !.open = FALSE]]
    BY <1>3 DEF Exec
  <1> DEFINE new == [Flush(b) EXCEPT !.open = FALSE]
  <1>5. Exec(s, Close) = [s EXCEPT !.builders[Len(s.builders)] = new]
    BY <1>2, <1>4
  <1>6. new \in BuilderStates
    <2>1. <<>> \in Toks
      BY DEF Toks
    <2>2. QED BY <2>1, BuilderTypes
  <1>7. Exec(s, Close) = St(bs, new, r)
    <2> HIDE DEF new
    <2>1. QED BY <1>1, <1>5, <1>6, StReplace
  <1>8. QED BY <1>7

LEMMA ExecIndent ==
  ASSUME NEW bs \in Seq(BuilderStates), NEW b \in BuilderStates, NEW r
  PROVE  Exec(St(bs, b, r), Indent) = St(Append(bs, Flush(b)), Builder(b.indent + 1), r)
  <1>1. SUFFICES ASSUME NEW s, s = St(bs, b, r)
                 PROVE  Exec(s, Indent) = St(Append(bs, Flush(b)), Builder(b.indent + 1), r)
    OBVIOUS
  <1>2. s.builders[Len(s.builders)] = b /\ s.builders = Append(bs, b) /\ Len(s.builders) = Len(bs) + 1 /\ s.raised = r
    BY <1>1, StTop
  <1>3. Indent.do = "indent"
    BY DEF Indent
  <1> DEFINE outer == [s.builders EXCEPT ![Len(s.builders)] = StartNested(s.builders[Len(s.builders)])]
             all == Append(outer, Builder(s.builders[Len(s.builders)].indent + 1))
  <1>4. Exec(s, Indent) = [s EXCEPT !.builders = all]
    BY <1>3 DEF Exec
  <1>5. outer = Append(bs, Flush(b))
    <2>1. outer = [Append(bs, b) EXCEPT ![Len(bs) + 1] = Flush(b)]
      BY <1>2 DEF StartNested
    <2>2. Flush(b) \in BuilderStates
      <3>1. <<>> \in Toks
        BY DEF Toks
      <3>2. QED BY <3>1, BuilderTypes
    <2> HIDE DEF outer
    <2>3. QED BY <2>1, <2>2, StackTop
  <1>6. all = Append(Append(bs, Flush(b)), Builder(b.indent + 1))
    <2> HIDE DEF outer
    <2>1. QED BY <1>2, <1>5
  <1> HIDE DEF all
  <1>7. [s EXCEPT !.builders = all] = [builders |-> all, raised |-> r]
    BY <1>1 DEF St
  <1>8. QED BY <1>4, <1>6, <1>7 DEF St

LEMMA ExecDedent ==
  ASSUME NEW bs \in Seq(BuilderStates), NEW c \in BuilderStates, NEW b \in BuilderStates, NEW r
  PROVE  Exec(St(Append(bs, c), b, r), Dedent) = St(bs, [c EXCEPT !.buffer = @ \o b.buffer], r)
  <1>0. Append(bs, c) \in Seq(BuilderStates)
    OBVIOUS
  <1>1. SUFFICES ASSUME NEW outer \in Seq(BuilderStates), outer = Append(bs, c), NEW s, s = St(outer, b, r)
                 PROVE  Exec(s, Dedent) = St(bs, [c EXCEPT !.buffer = @ \o b.buffer], r)
    BY <1>0
  <1> DEFINE n == Len(s.builders)
             top == s.builders[n]
             kept == SubSeq(s.builders, 1, n - 1)
             new == [c EXCEPT !.buffer = @ \o b.buffer]
  <1>2. Len(bs) \in Nat /\ Len(outer) = Len(bs) + 1 /\ outer[Len(bs) + 1] = c
    BY <1>1
  <1>3. top = b /\ s.builders = Append(outer, b) /\ n = Len(outer) + 1
    <2>1. s = St(outer, b, r)
      BY <1>1
    <2>2. QED BY <2>1, StTop
  <1>4. kept = outer /\ n - 1 = Len(bs) + 1
    <2>1. SubSeq(Append(outer, b), 1, Len(outer)) = outer
      BY <1>1, StackTop
    <2>2. n - 1 = Len(outer) /\ Len(outer) = Len(bs) + 1
      BY <1>2, <1>3
    <2>3. QED BY <1>3, <2>1, <2>2
  <1>5. Dedent.do = "dedent"
    BY DEF Dedent
  <1>6. Exec(s, Dedent) = [s EXCEPT !.builders = [kept EXCEPT ![n - 1].buffer = @ \o top.buffer]]
    BY <1>5 DEF Exec
  <1> HIDE DEF top, n, kept
  <1>7. [kept EXCEPT ![n - 1].buffer = @ \o top.buffer] = [outer EXCEPT ![Len(bs) + 1].buffer = @ \o b.buffer]
    BY <1>3, <1>4
  <1>8. [outer EXCEPT ![Len(bs) + 1].buffer = @ \o b.buffer] = [outer EXCEPT ![Len(bs) + 1] = new]
    BY <1>2
  <1>9. [outer EXCEPT ![Len(bs) + 1] = new] = Append(bs, new)
    <2>1. b.buffer \in Seq(BufferLines) /\ <<>> \in Toks
      BY DEF BuilderStates, Toks
    <2>2. new \in BuilderStates
      BY <2>1, BuilderTypes
    <2> HIDE DEF new
    <2>3. QED BY <1>1, <2>2, StackTop
  <1> HIDE DEF new
  <1>10. \A all : [s EXCEPT !.builders = all] = [builders |-> all, raised |-> r]
    BY <1>1 DEF St
  <1>11. Exec(s, Dedent) = [builders |-> Append(bs, new), raised |-> r]
    BY <1>6, <1>7, <1>8, <1>9, <1>10
  <1>12. QED BY <1>11 DEF St, new

-----------------------------------------------------------------------------
(* Texts and how many braces and brackets they leave open.                  *)

Places(t, S) == {i \in DOMAIN t : t[i] \in S}

LEMMA PlacesFinite ==
  ASSUME NEW A, NEW t \in Seq(A), NEW S
  PROVE  IsFiniteSet(Places(t, S)) /\ Cardinality(Places(t, S)) \in Nat
  <1>1. DOMAIN t = 1..Len(t) /\ Len(t) \in Nat
    OBVIOUS
  <1>2. IsFiniteSet(1..Len(t))
    BY <1>1, FS_Interval
  <1>3. Places(t, S) \subseteq 1..Len(t)
    BY <1>1 DEF Places
  <1>4. QED BY <1>2, <1>3, FS_Subset, FS_CardinalityType

LEMMA PlacesAppend ==
  ASSUME NEW A, NEW t \in Seq(A), NEW x \in A, NEW S
  PROVE  Cardinality(Places(Append(t, x), S)) = Cardinality(Places(t, S)) + IF x \in S THEN 1 ELSE 0
  <1> DEFINE n == Len(t)
             more == Append(t, x)
  <1>1. /\ n \in Nat /\ DOMAIN t = 1..n /\ DOMAIN more = 1..(n + 1) /\ more[n + 1] = x
        /\ \A i \in 1..n : more[i] = t[i]
    OBVIOUS
  <1> HIDE DEF more
  <1>2. IsFiniteSet(Places(t, S)) /\ Cardinality(Places(t, S)) \in Nat /\ n + 1 \notin Places(t, S)
    <2>1. n + 1 \notin Places(t, S)
      BY <1>1 DEF Places
    <2>2. QED BY <2>1, PlacesFinite
  <1>3. CASE x \in S
    <2>1. Places(more, S) = Places(t, S) \cup {n + 1}
      BY <1>1, <1>3 DEF Places
    <2>2. QED BY <1>2, <1>3, <2>1, FS_AddElement DEF more
  <1>4. CASE x \notin S
    <2>1. Places(more, S) = Places(t, S)
      BY <1>1, <1>4 DEF Places
    <2>2. QED BY <1>2, <1>4, <2>1 DEF more
  <1>5. QED BY <1>3, <1>4

LEMMA ToksAssoc ==
  ASSUME NEW s \in Toks, NEW t \in Toks, NEW u \in Toks
  PROVE  (s \o t) \o u = s \o (t \o u)
  BY ConcatAssoc DEF Toks

LEMMA ToksConcat ==
  ASSUME NEW s \in Toks, NEW t \in Toks
  PROVE  s \o t \in Toks
  BY DEF Toks

Delta(x) == (IF x \in Openers THEN 1 ELSE 0) - (IF x \in Closers THEN 1 ELSE 0)

LEMMA DepthAppend ==
  ASSUME NEW A, NEW t \in Seq(A), NEW x \in A
  PROVE  Depth(t) \in Int /\ Delta(x) \in Int /\ Depth(Append(t, x)) = Depth(t) + Delta(x)
  <1>1. \A u : Depth(u) = Cardinality(Places(u, Openers)) - Cardinality(Places(u, Closers))
    BY DEF Depth, Places
  <1>2. Cardinality(Places(t, Openers)) \in Nat /\ Cardinality(Places(t, Closers)) \in Nat
    BY PlacesFinite
  <1>3. /\ Cardinality(Places(Append(t, x), Openers)) =
             Cardinality(Places(t, Openers)) + IF x \in Openers THEN 1 ELSE 0
        /\ Cardinality(Places(Append(t, x), Closers)) =
             Cardinality(Places(t, Closers)) + IF x \in Closers THEN 1 ELSE 0
    BY PlacesAppend
  <1>4. QED BY <1>1, <1>2, <1>3 DEF Delta

\* A text without braces and brackets leaves none open.
LEMMA DepthFlat ==
  ASSUME NEW t, \A i \in DOMAIN t : t[i] \notin Openers \cup Closers
  PROVE  Depth(t) = 0
  <1>1. {i \in DOMAIN t : t[i] \in Openers} = {} /\ {i \in DOMAIN t : t[i] \in Closers} = {}
    OBVIOUS
  <1>2. QED BY <1>1, FS_EmptySet DEF Depth

LEMMA DepthNone == Depth(<<>>) = 0
  BY DepthFlat

LEMMA DepthConcat ==
  ASSUME NEW A, NEW t \in Seq(A), NEW u \in Seq(A)
  PROVE  Depth(t \o u) = Depth(t) + Depth(u) /\ Depth(t) \in Int /\ Depth(u) \in Int
  <1> DEFINE T == {v \in Seq(A) : Depth(t \o v) = Depth(t) + Depth(v) /\ Depth(v) \in Int}
  <1>1. Depth(t) \in Int
    <2>1. CASE t = <<>>
      BY <2>1, DepthNone
    <2>2. CASE t # <<>>
      <3>1. t[1] \in A
        BY <2>2
      <3>2. QED BY <3>1, DepthAppend
    <2>3. QED BY <2>1, <2>2
  <1>2. <<>> \in T
    <2>1. t \o <<>> = t /\ <<>> \in Seq(A)
      OBVIOUS
    <2>2. QED BY <1>1, <2>1, DepthNone
  <1>3. ASSUME NEW v \in Seq(A), NEW x \in A, v \in T PROVE Append(v, x) \in T
    <2>1. t \o Append(v, x) = Append(t \o v, x) /\ t \o v \in Seq(A) /\ Append(v, x) \in Seq(A)
      OBVIOUS
    <2>2. Depth(Append(t \o v, x)) = Depth(t \o v) + Delta(x) /\ Delta(x) \in Int
      BY <2>1, DepthAppend
    <2>3. Depth(Append(v, x)) = Depth(v) + Delta(x)
      BY DepthAppend
    <2>4. Depth(t \o v) = Depth(t) + Depth(v) /\ Depth(v) \in Int
      BY <1>3
    <2>5. Depth(t \o Append(v, x)) = Depth(t) + Depth(Append(v, x)) /\ Depth(Append(v, x)) \in Int
      BY <1>1, <2>1, <2>2, <2>3, <2>4
    <2>6. QED BY <2>1, <2>5
  <1>4. Seq(A) \subseteq T
    <2> HIDE DEF T
    <2>1. QED BY <1>2, <1>3, SeqClosed
  <1>5. QED BY <1>1, <1>4

LEMMA DepthOne ==
  ASSUME NEW x
  PROVE  Depth(<<x>>) = Delta(x) /\ Delta(x) \in Int
  <1>1. <<>> \in Seq({x}) /\ x \in {x} /\ Append(<<>>, x) = <<x>>
    OBVIOUS
  <1>2. Depth(<<x>>) = Depth(<<>>) + Delta(x) /\ Delta(x) \in Int
    BY <1>1, DepthAppend
  <1>3. QED BY <1>2, DepthNone

\* What a sequence of instructions or lines holds.
LEMMA WrittenMore ==
  ASSUME NEW A, \A a \in A : a.toks \in Toks, NEW s \in Seq(A), NEW x \in A
  PROVE  Written(s) \in Toks /\ Written(Append(s, x)) = Written(s) \o x.toks /\ Written(<<>>) = <<>>
  <1> DEFINE each == [i \in DOMAIN s |-> s[i].toks]
             more == [i \in DOMAIN Append(s, x) |-> Append(s, x)[i].toks]
  <1>1. DOMAIN s = 1..Len(s) /\ Len(s) \in Nat /\ \A i \in 1..Len(s) : s[i] \in A
    OBVIOUS
  <1>2. each \in Seq(Toks) /\ Len(each) = Len(s) /\ DOMAIN each = 1..Len(s)
    BY <1>1
  <1>3. more = Append(each, x.toks)
    <2>1. /\ DOMAIN Append(s, x) = 1..(Len(s) + 1) /\ Append(s, x)[Len(s) + 1] = x
          /\ \A i \in 1..Len(s) : Append(s, x)[i] = s[i]
      OBVIOUS
    <2>2. x.toks \in Toks
      OBVIOUS
    <2> DEFINE f == Append(each, x.toks)
    <2>3. /\ f \in Seq(Toks) /\ DOMAIN f = 1..(Len(s) + 1) /\ f[Len(s) + 1] = x.toks
          /\ \A i \in 1..Len(s) : f[i] = each[i]
      <3> HIDE DEF each
      <3>1. QED BY <1>2, <2>2
    <2>4. f = [i \in 1..(Len(s) + 1) |-> f[i]]
      <3> HIDE DEF f
      <3>1. f = [i \in DOMAIN f |-> f[i]]
        BY <2>3
      <3>2. QED BY <2>3, <3>1
    <2>5. ASSUME NEW i \in 1..(Len(s) + 1) PROVE f[i] = Append(s, x)[i].toks
      <3>1. CASE i = Len(s) + 1
        <4> HIDE DEF f
        <4>1. QED BY <2>1, <2>3, <3>1
      <3>2. CASE i # Len(s) + 1
        <4>1. i \in 1..Len(s)
          BY <1>1, <3>2
        <4>2. each[i] = s[i].toks
          BY <1>1, <4>1
        <4> HIDE DEF f, each
        <4>3. QED BY <2>1, <2>3, <4>1, <4>2
      <3>3. QED BY <3>1, <3>2
    <2> HIDE DEF f
    <2>6. QED BY <2>1, <2>4, <2>5 DEF f
  <1>4. Written(s) = FlattenSeq(each) /\ Written(Append(s, x)) = FlattenSeq(more)
    BY DEF Written
  <1>5. Written(<<>>) = <<>>
    <2>1. [i \in DOMAIN <<>> |-> <<>>[i].toks] = <<>>
      OBVIOUS
    <2>2. FlattenSeq(<<>>) = <<>>
      BY DEF FlattenSeq
    <2>3. QED BY <2>1, <2>2 DEF Written
  <1> HIDE DEF each, more
  <1>6. FlattenSeq(each) \in Toks /\ FlattenSeq(Append(each, x.toks)) = FlattenSeq(each) \o x.toks
    BY <1>2, FlattenType, FlattenAppend DEF Toks
  <1>7. QED BY <1>3, <1>4, <1>5, <1>6

LEMMA WrittenNone == Written(<<>>) = <<>>
  <1>1. [i \in DOMAIN <<>> |-> <<>>[i].toks] = <<>>
    OBVIOUS
  <1>2. FlattenSeq(<<>>) = <<>>
    BY DEF FlattenSeq
  <1>3. QED BY <1>1, <1>2 DEF Written

LEMMA WrittenType ==
  ASSUME NEW A, \A a \in A : a.toks \in Toks, NEW s \in Seq(A)
  PROVE  Written(s) \in Toks
  <1>1. CASE s = <<>>
    <2>1. <<>> \in Toks
      BY DEF Toks
    <2>2. QED BY <1>1, <2>1, WrittenNone
  <1>2. CASE s # <<>>
    <2>1. s[1] \in A
      BY <1>2
    <2>2. QED BY <2>1, WrittenMore
  <1>3. QED BY <1>1, <1>2

LEMMA WrittenConcat ==
  ASSUME NEW A, \A a \in A : a.toks \in Toks, NEW s \in Seq(A), NEW t \in Seq(A)
  PROVE  Written(s \o t) = Written(s) \o Written(t)
  <1> DEFINE T == {v \in Seq(A) : Written(s \o v) = Written(s) \o Written(v)}
  <1>1. Written(s) \in Toks
    BY WrittenType
  <1>2. <<>> \in T
    <2>1. s \o <<>> = s /\ <<>> \in Seq(A) /\ Written(s) \o <<>> = Written(s)
      BY <1>1 DEF Toks
    <2>2. QED BY <2>1, WrittenNone
  <1>3. ASSUME NEW v \in Seq(A), NEW x \in A, v \in T PROVE Append(v, x) \in T
    <2>1. s \o Append(v, x) = Append(s \o v, x) /\ s \o v \in Seq(A) /\ Append(v, x) \in Seq(A)
      OBVIOUS
    <2>2. Written(Append(s \o v, x)) = Written(s \o v) \o x.toks /\ Written(Append(v, x)) = Written(v) \o x.toks
      BY <2>1, WrittenMore
    <2>3. Written(v) \in Toks /\ x.toks \in Toks
      BY WrittenType
    <2>4. (Written(s) \o Written(v)) \o x.toks = Written(s) \o (Written(v) \o x.toks)
      <3>1. \A p, q, r \in Toks : (p \o q) \o r = p \o (q \o r)
        BY ToksAssoc
      <3>2. QED BY <1>1, <2>3, <3>1
    <2>5. QED BY <1>3, <2>1, <2>2, <2>4
  <1>4. Seq(A) \subseteq T
    <2> HIDE DEF T
    <2>1. QED BY <1>2, <1>3, SeqClosed
  <1>5. QED BY <1>4

LEMMA WrittenOne ==
  ASSUME NEW x, x.toks \in Toks
  PROVE  Written(<<x>>) = x.toks
  <1>1. <<>> \in Seq({x}) /\ x \in {x} /\ Append(<<>>, x) = <<x>> /\ \A a \in {x} : a.toks \in Toks
    OBVIOUS
  <1>2. Written(<<x>>) = Written(<<>>) \o x.toks
    BY <1>1, WrittenMore
  <1>3. <<>> \o x.toks = x.toks
    BY DEF Toks
  <1>4. QED BY <1>2, <1>3, WrittenNone

-----------------------------------------------------------------------------
(* Lines that are indented by what is open, and the programs that print     *)
(* such lines wherever they are run.                                        *)

Closes(t) == IF t[1] \in Closers THEN 1 ELSE 0
Even(ls, d) ==
  \A k \in DOMAIN ls : ls[k].indent = d + Depth(Texts(SubSeq(ls, 1, k - 1))) - Closes(ls[k].toks)
\* From the depth d the lines go to the depth e.
Laid(ls, d, e) == ls \in Seq(BufferLines) /\ d + Depth(Texts(ls)) = e /\ Even(ls, d)

LEMMA TextsFacts ==
  /\ \A a \in BufferLines : a.toks \in Toks
  /\ \A ls : Texts(ls) = Written(ls)
  /\ \A a \in Instructions : a.toks \in Toks
  BY DEF BufferLines, Instructions, Texts, Written

LEMMA DepthOfTexts ==
  ASSUME NEW ls \in Seq(BufferLines)
  PROVE  Texts(ls) \in Toks /\ Depth(Texts(ls)) \in Int
  <1>1. Texts(ls) \in Toks
    BY TextsFacts, WrittenType
  <1>2. QED BY <1>1, DepthConcat DEF Toks

LEMMA PrefixOfConcat ==
  ASSUME NEW A, NEW s \in Seq(A), NEW t \in Seq(A), NEW k \in 1..(Len(s) + Len(t))
  PROVE  /\ k <= Len(s) => SubSeq(s \o t, 1, k - 1) = SubSeq(s, 1, k - 1)
         /\ k > Len(s) => SubSeq(s \o t, 1, k - 1) = s \o SubSeq(t, 1, k - Len(s) - 1)
  <1> DEFINE n == Len(s)
             c == s \o t
             p == SubSeq(c, 1, k - 1)
  <1>1. /\ n \in Nat /\ Len(t) \in Nat /\ c \in Seq(A) /\ Len(c) = n + Len(t)
        /\ \A i \in 1..(n + Len(t)) : c[i] = IF i <= n THEN s[i] ELSE t[i - n]
    OBVIOUS
  <1> HIDE DEF c
  <1>2. p \in Seq(A) /\ Len(p) = k - 1 /\ \A i \in 1..(k - 1) : p[i] = c[i]
    BY <1>1
  <1> HIDE DEF p
  <1>3. CASE k <= n
    <2> DEFINE q == SubSeq(s, 1, k - 1)
    <2>1. q \in Seq(A) /\ Len(q) = k - 1 /\ \A i \in 1..(k - 1) : q[i] = s[i]
      BY <1>3
    <2> HIDE DEF q
    <2>2. \A i \in 1..(k - 1) : c[i] = s[i]
      BY <1>1, <1>3
    <2>3. p = q
      BY <1>2, <2>1, <2>2
    <2>4. QED BY <1>3, <2>3 DEF p, q, c
  <1>4. CASE k > n
    <2> DEFINE u == SubSeq(t, 1, k - n - 1)
               q == s \o u
    <2>1. u \in Seq(A) /\ Len(u) = k - n - 1 /\ \A i \in 1..(k - n - 1) : u[i] = t[i]
      BY <1>1, <1>4
    <2> HIDE DEF u
    <2>2. q \in Seq(A) /\ Len(q) = k - 1 /\ \A i \in 1..(k - 1) : q[i] = IF i <= n THEN s[i] ELSE u[i - n]
      BY <1>1, <1>4, <2>1
    <2> HIDE DEF q
    <2>3. ASSUME NEW i \in 1..(k - 1) PROVE p[i] = q[i]
      <3>1. i \in 1..(n + Len(t))
        BY <1>1
      <3>2. CASE i <= n
        BY <1>1, <1>2, <2>2, <3>1, <3>2
      <3>3. CASE ~(i <= n)
        <4>1. i - n \in 1..(k - n - 1)
          BY <1>1, <3>3
        <4>2. p[i] = t[i - n] /\ q[i] = u[i - n] /\ u[i - n] = t[i - n]
          BY <1>1, <1>2, <2>1, <2>2, <3>1, <3>3, <4>1
        <4>3. QED BY <4>2
      <3>4. QED BY <3>2, <3>3
    <2>4. p = q
      BY <1>2, <2>2, <2>3
    <2>5. QED BY <1>1, <1>4, <2>4 DEF p, q, u, c
  <1>5. QED BY <1>1, <1>3, <1>4 DEF p, c

LEMMA LaidConcat ==
  ASSUME NEW l, NEW m, NEW d \in Int, NEW e \in Int, NEW f \in Int, Laid(l, d, e), Laid(m, e, f)
  PROVE  Laid(l \o m, d, f)
  <1> DEFINE c == l \o m
             n == Len(l)
  <1>1. l \in Seq(BufferLines) /\ m \in Seq(BufferLines)
    BY DEF Laid
  <1>2. /\ n \in Nat /\ Len(m) \in Nat /\ c \in Seq(BufferLines) /\ DOMAIN c = 1..(n + Len(m))
        /\ DOMAIN l = 1..n /\ DOMAIN m = 1..Len(m)
        /\ \A i \in 1..(n + Len(m)) : c[i] = IF i <= n THEN l[i] ELSE m[i - n]
    BY <1>1
  <1>3. ASSUME NEW u \in Seq(BufferLines), NEW v \in Seq(BufferLines)
        PROVE  /\ Depth(Texts(u \o v)) = Depth(Texts(u)) + Depth(Texts(v))
               /\ Depth(Texts(u)) \in Int /\ Depth(Texts(v)) \in Int
    <2>1. Texts(u \o v) = Texts(u) \o Texts(v)
      BY TextsFacts, WrittenConcat
    <2>2. Texts(u) \in Toks /\ Texts(v) \in Toks
      BY DepthOfTexts
    <2>3. QED BY <2>1, <2>2, DepthConcat DEF Toks
  <1>4. d + Depth(Texts(c)) = f
    <2>1. d + Depth(Texts(l)) = e /\ e + Depth(Texts(m)) = f
      BY DEF Laid
    <2>2. Depth(Texts(c)) = Depth(Texts(l)) + Depth(Texts(m)) /\ Depth(Texts(l)) \in Int /\ Depth(Texts(m)) \in Int
      BY <1>1, <1>3
    <2>3. QED BY <2>1, <2>2
  <1>5. ASSUME NEW k \in 1..(n + Len(m))
        PROVE  c[k].indent = d + Depth(Texts(SubSeq(c, 1, k - 1))) - Closes(c[k].toks)
    <2>1. CASE k <= n
      <3>1. k \in DOMAIN l /\ c[k] = l[k] /\ SubSeq(c, 1, k - 1) = SubSeq(l, 1, k - 1)
        BY <1>1, <1>2, <2>1, PrefixOfConcat
      <3>2. l[k].indent = d + Depth(Texts(SubSeq(l, 1, k - 1))) - Closes(l[k].toks)
        BY <3>1 DEF Laid, Even
      <3>3. QED BY <3>1, <3>2
    <2>2. CASE ~(k <= n)
      <3> DEFINE j == k - n
                 v == SubSeq(m, 1, j - 1)
      <3>1. j \in 1..Len(m) /\ k > n /\ c[k] = m[j] /\ j \in DOMAIN m
        BY <1>2, <2>2
      <3>2. SubSeq(c, 1, k - 1) = l \o v
        BY <1>1, <1>2, <3>1, PrefixOfConcat
      <3>3. v \in Seq(BufferLines)
        BY <1>1, <3>1
      <3>4. m[j].indent = e + Depth(Texts(v)) - Closes(m[j].toks)
        BY <3>1 DEF Laid, Even
      <3> HIDE DEF j, v
      <3>5. /\ Depth(Texts(l \o v)) = Depth(Texts(l)) + Depth(Texts(v))
            /\ Depth(Texts(l)) \in Int /\ Depth(Texts(v)) \in Int
        BY <1>1, <1>3, <3>3
      <3>6. d + Depth(Texts(l)) = e
        BY DEF Laid
      <3>7. Closes(m[j].toks) \in Int
        BY DEF Closes
      <3> DEFINE before == SubSeq(c, 1, k - 1)
                 x == c[k]
      <3>8. before = l \o v /\ x = m[j]
        BY <3>1, <3>2
      <3> HIDE DEF before, x
      <3>9. x.indent = d + Depth(Texts(before)) - Closes(x.toks)
        BY <3>4, <3>5, <3>6, <3>7, <3>8
      <3>10. QED BY <3>9 DEF before, x
    <2>3. QED BY <2>1, <2>2
  <1>6. Even(c, d)
    BY <1>2, <1>5 DEF Even
  <1> HIDE DEF c
  <1>7. Laid(c, d, f)
    BY <1>2, <1>4, <1>6 DEF Laid
  <1>8. QED BY <1>7 DEF c

LEMMA LaidNone ==
  ASSUME NEW d \in Int
  PROVE  Laid(<<>>, d, d)
  <1>1. <<>> \in Seq(BufferLines) /\ Texts(<<>>) = <<>>
    BY TextsFacts, WrittenNone
  <1>2. QED BY <1>1, DepthNone DEF Laid, Even

LEMMA LaidOne ==
  ASSUME NEW t \in Toks, NEW k \in Nat
  PROVE  Laid(<<[indent |-> k, toks |-> t]>>, k + Closes(t), k + Closes(t) + Depth(t))
  <1> DEFINE l == [indent |-> k, toks |-> t]
             ls == <<l>>
  <1>1. l \in BufferLines /\ l.toks = t /\ l.indent = k
    BY DEF BufferLines
  <1> HIDE DEF l
  <1>2. ls \in Seq(BufferLines) /\ DOMAIN ls = {1} /\ ls[1] = l /\ SubSeq(ls, 1, 0) = <<>>
    BY <1>1
  <1>3. Texts(ls) = t /\ Texts(<<>>) = <<>>
    BY <1>1, TextsFacts, WrittenNone, WrittenOne
  <1>4. Closes(t) \in Int /\ Depth(t) \in Int /\ Depth(<<>>) = 0
    BY DepthConcat, DepthNone DEF Closes, Toks
  <1> HIDE DEF ls
  <1>5. ls[1].indent = (k + Closes(t)) + Depth(Texts(SubSeq(ls, 1, 1 - 1))) - Closes(ls[1].toks)
    <2>1. SubSeq(ls, 1, 1 - 1) = <<>>
      BY <1>2
    <2>2. ls[1].indent = k /\ ls[1].toks = t /\ Depth(Texts(SubSeq(ls, 1, 1 - 1))) = 0
      <3>1. Depth(Texts(SubSeq(ls, 1, 1 - 1))) = Depth(Texts(<<>>))
        BY <2>1
      <3>2. QED BY <1>1, <1>2, <1>3, <1>4, <3>1
    <2>3. QED BY <1>4, <2>2
  <1>6. Even(ls, k + Closes(t))
    BY <1>2, <1>5 DEF Even
  <1>7. Laid(ls, k + Closes(t), k + Closes(t) + Depth(t))
    BY <1>2, <1>3, <1>6 DEF Laid
  <1>8. QED BY <1>7 DEF ls, l

\* A builder with more lines.
With(b, ls) == [b EXCEPT !.buffer = @ \o ls]
Closed(b) == ~b.open /\ b.pieces = <<>>
LineAt(k, t) == [indent |-> k, toks |-> t]

LEMMA WithFacts ==
  ASSUME NEW b \in BuilderStates, NEW l \in Seq(BufferLines)
  PROVE  /\ With(b, l) \in BuilderStates /\ With(b, l).indent = b.indent
         /\ With(b, l).open = b.open /\ With(b, l).pieces = b.pieces
         /\ b.indent \in Nat /\ b.pieces \in Toks /\ b.open \in BOOLEAN
  <1>1. b.buffer \in Seq(BufferLines) /\ b.indent \in Nat /\ b.pieces \in Toks /\ b.open \in BOOLEAN
    BY DEF BuilderStates
  <1>2. b.buffer \o l \in Seq(BufferLines)
    BY <1>1
  <1>3. With(b, l) \in BuilderStates
    BY <1>2 DEF With, BuilderStates
  <1>4. With(b, l).indent = b.indent /\ With(b, l).open = b.open /\ With(b, l).pieces = b.pieces
    BY DEF With, BuilderStates
  <1>5. QED BY <1>1, <1>3, <1>4

LEMMA WithMore ==
  ASSUME NEW b \in BuilderStates, NEW l \in Seq(BufferLines), NEW m \in Seq(BufferLines)
  PROVE  With(With(b, l), m) = With(b, l \o m)
  <1>1. b.buffer \in Seq(BufferLines)
    BY DEF BuilderStates
  <1>2. (b.buffer \o l) \o m = b.buffer \o (l \o m)
    <2>1. \A x \in Seq(BufferLines) : (x \o l) \o m = x \o (l \o m)
      BY ConcatAssoc
    <2>2. QED BY <1>1, <2>1
  <1>3. With(With(b, l), m) = [b EXCEPT !.buffer = (b.buffer \o l) \o m]
    BY DEF With, BuilderStates
  <1>4. QED BY <1>2, <1>3 DEF With

LEMMA WithNone ==
  ASSUME NEW b \in BuilderStates
  PROVE  With(b, <<>>) = b
  <1>1. b.buffer \o <<>> = b.buffer
    BY DEF BuilderStates
  <1>2. [b EXCEPT !.buffer = b.buffer] = b
    BY DEF BuilderStates
  <1>3. QED BY <1>1, <1>2 DEF With

LEMMA LineAtType ==
  ASSUME NEW k \in Nat, NEW t \in Toks
  PROVE  LineAt(k, t) \in BufferLines /\ <<LineAt(k, t)>> \in Seq(BufferLines) /\ Texts(<<LineAt(k, t)>>) = t
  <1>1. LineAt(k, t) \in BufferLines /\ LineAt(k, t).toks = t
    BY DEF LineAt, BufferLines
  <1>2. QED BY <1>1, TextsFacts, WrittenOne

LEMMA PutLine ==
  ASSUME NEW b \in BuilderStates, NEW t \in Toks
  PROVE  Put(b, t) = With(b, <<LineAt(b.indent, t)>>)
  <1>1. b.buffer \in Seq(BufferLines) /\ b.indent \in Nat
    BY DEF BuilderStates
  <1>2. LineAt(b.indent, t) \in BufferLines
    BY <1>1, LineAtType
  <1>3. Append(b.buffer, LineAt(b.indent, t)) = b.buffer \o <<LineAt(b.indent, t)>>
    BY <1>1, <1>2
  <1>4. QED BY <1>3 DEF Put, With, LineAt

LEMMA RunOne ==
  ASSUME NEW s, NEW i
  PROVE  Run(s, <<i>>) = Exec(s, i)
  <1>1. \E A, P : P \in Seq(A) /\ i \in A /\ P = <<>> /\ Append(P, i) = <<i>>
    <2>1. <<>> \in Seq({i}) /\ i \in {i} /\ Append(<<>>, i) = <<i>>
      OBVIOUS
    <2>2. QED BY <2>1
  <1>2. Run(s, <<i>>) = Exec(Run(s, <<>>), i)
    <2>1. PICK A, P : P \in Seq(A) /\ i \in A /\ P = <<>> /\ Append(P, i) = <<i>>
      BY <1>1
    <2>2. Run(s, Append(P, i)) = Exec(Run(s, P), i)
      BY <2>1, RunMore
    <2>3. QED BY <2>1, <2>2
  <1>3. QED BY <1>2, RunNone

\* What the instructions print: their own text, on lines that take the depth from d
\* to e, wherever they are run.
PrintsOn(P, d, e, bs, b, r) ==
  \E ls : /\ Laid(ls, b.indent + d, b.indent + e)
          /\ Texts(ls) = Written(P)
          /\ Run(St(bs, b, r), P) = St(bs, With(b, ls), r)
Prints(P, d, e) ==
  /\ P \in Seq(Instructions)
  /\ \A bs \in Seq(BuilderStates), b \in BuilderStates, r \in BOOLEAN : Closed(b) => PrintsOn(P, d, e, bs, b, r)

LEMMA PrintsNone ==
  ASSUME NEW d \in Int
  PROVE  Prints(<<>>, d, d)
  <1>1. <<>> \in Seq(Instructions)
    OBVIOUS
  <1>2. ASSUME NEW bs \in Seq(BuilderStates), NEW b \in BuilderStates, NEW r \in BOOLEAN
        PROVE  PrintsOn(<<>>, d, d, bs, b, r)
    <2>1. b.indent + d \in Int
      <3>1. b.indent \in Nat
        BY DEF BuilderStates
      <3>2. QED BY <3>1
    <2>2. Laid(<<>>, b.indent + d, b.indent + d)
      BY <2>1, LaidNone
    <2>3. Texts(<<>>) = Written(<<>>)
      BY TextsFacts
    <2>4. Run(St(bs, b, r), <<>>) = St(bs, With(b, <<>>), r)
      BY RunNone, WithNone
    <2>5. QED BY <2>2, <2>3, <2>4 DEF PrintsOn
  <1>3. QED BY <1>1, <1>2 DEF Prints

LEMMA PrintsConcat ==
  ASSUME NEW P, NEW Q, NEW d \in Int, NEW e \in Int, NEW f \in Int, Prints(P, d, e), Prints(Q, e, f)
  PROVE  Prints(P \o Q, d, f)
  <1>1. P \in Seq(Instructions) /\ Q \in Seq(Instructions) /\ P \o Q \in Seq(Instructions)
    BY DEF Prints
  <1>2. ASSUME NEW bs \in Seq(BuilderStates), NEW b \in BuilderStates, NEW r \in BOOLEAN, Closed(b)
        PROVE  PrintsOn(P \o Q, d, f, bs, b, r)
    <2>1. PICK l : /\ Laid(l, b.indent + d, b.indent + e) /\ Texts(l) = Written(P)
                   /\ Run(St(bs, b, r), P) = St(bs, With(b, l), r)
      BY <1>2 DEF Prints, PrintsOn
    <2>2. l \in Seq(BufferLines)
      BY <2>1 DEF Laid
    <2> DEFINE c == With(b, l)
    <2>3. c \in BuilderStates /\ c.indent = b.indent /\ Closed(c) /\ b.indent \in Nat
      BY <1>2, <2>2, WithFacts DEF Closed
    <2>4. PICK m : /\ Laid(m, c.indent + e, c.indent + f) /\ Texts(m) = Written(Q)
                   /\ Run(St(bs, c, r), Q) = St(bs, With(c, m), r)
      <3> HIDE DEF c
      <3>1. QED BY <2>3 DEF Prints, PrintsOn
    <2>5. m \in Seq(BufferLines)
      BY <2>4 DEF Laid
    <2>6. Laid(l \o m, b.indent + d, b.indent + f)
      <3>1. Laid(m, b.indent + e, b.indent + f)
        <4> HIDE DEF c
        <4>1. QED BY <2>3, <2>4
      <3>2. b.indent + d \in Int /\ b.indent + e \in Int /\ b.indent + f \in Int
        BY <2>3
      <3>3. QED BY <2>1, <3>1, <3>2, LaidConcat
    <2>7. Texts(l \o m) = Written(P \o Q)
      <3>1. Written(l \o m) = Written(l) \o Written(m)
        BY <2>2, <2>5, TextsFacts, WrittenConcat
      <3>2. Written(P \o Q) = Written(P) \o Written(Q)
        BY <1>1, TextsFacts, WrittenConcat
      <3>3. QED BY <2>1, <2>4, <3>1, <3>2, TextsFacts
    <2>8. Run(St(bs, b, r), P \o Q) = St(bs, With(b, l \o m), r)
      <3>1. Run(St(bs, b, r), P \o Q) = Run(Run(St(bs, b, r), P), Q)
        BY <1>1, RunConcat
      <3>2. With(c, m) = With(b, l \o m)
        BY <2>2, <2>5, WithMore
      <3> HIDE DEF c
      <3>3. Run(St(bs, b, r), P) = St(bs, c, r)
        BY <2>1 DEF c
      <3>4. QED BY <2>4, <3>1, <3>2, <3>3
    <2>9. QED BY <2>6, <2>7, <2>8 DEF PrintsOn
  <1>3. QED BY <1>1, <1>2 DEF Prints

LEMMA PrintsLine ==
  ASSUME NEW t \in Toks
  PROVE  Prints(<<Line(t)>>, Closes(t), Closes(t) + Depth(t))
  <1>1. Line(t) \in Instructions /\ Line(t).toks = t /\ <<Line(t)>> \in Seq(Instructions)
    BY InstructionTypes
  <1>2. ASSUME NEW bs \in Seq(BuilderStates), NEW b \in BuilderStates, NEW r \in BOOLEAN
        PROVE  PrintsOn(<<Line(t)>>, Closes(t), Closes(t) + Depth(t), bs, b, r)
    <2> DEFINE ls == <<LineAt(b.indent, t)>>
    <2>1. b.indent \in Nat /\ Closes(t) \in Int /\ Depth(t) \in Int
      BY DepthConcat DEF BuilderStates, Closes, Toks
    <2>2. Laid(ls, b.indent + Closes(t), b.indent + (Closes(t) + Depth(t)))
      <3>1. Laid(ls, b.indent + Closes(t), b.indent + Closes(t) + Depth(t))
        BY <2>1, LaidOne DEF LineAt
      <3> HIDE DEF ls
      <3>2. b.indent + Closes(t) + Depth(t) = b.indent + (Closes(t) + Depth(t))
        BY <2>1
      <3>3. QED BY <3>1, <3>2
    <2>3. Texts(ls) = Written(<<Line(t)>>)
      BY <1>1, <2>1, LineAtType, WrittenOne
    <2>4. Run(St(bs, b, r), <<Line(t)>>) = St(bs, With(b, ls), r)
      BY RunOne, ExecLine, PutLine
    <2> HIDE DEF ls
    <2>5. QED BY <2>2, <2>3, <2>4 DEF PrintsOn
  <1>3. QED BY <1>1, <1>2 DEF Prints

LEMMA PrintsFlatten ==
  ASSUME NEW seqs \in Seq(Seq(Instructions)), NEW d \in Int, \A i \in DOMAIN seqs : Prints(seqs[i], d, d)
  PROVE  Prints(FlattenSeq(seqs), d, d)
  <1> DEFINE All == {P \in Seq(Instructions) : Prints(P, d, d)}
             T == {s \in Seq(All) : s \in Seq(Seq(Instructions)) /\ Prints(FlattenSeq(s), d, d)}
  <1>1. <<>> \in T
    <2>1. FlattenSeq(<<>>) = <<>>
      BY DEF FlattenSeq
    <2>2. <<>> \in Seq(All) /\ <<>> \in Seq(Seq(Instructions))
      OBVIOUS
    <2> HIDE DEF All
    <2>3. QED BY <2>1, <2>2, PrintsNone
  <1>2. ASSUME NEW s \in Seq(All), NEW P \in All, s \in T PROVE Append(s, P) \in T
    <2>1. P \in Seq(Instructions) /\ Prints(P, d, d) /\ s \in Seq(Seq(Instructions)) /\ Prints(FlattenSeq(s), d, d)
      BY <1>2
    <2>2. FlattenSeq(Append(s, P)) = FlattenSeq(s) \o P
      BY <2>1, FlattenAppend
    <2>3. Prints(FlattenSeq(s) \o P, d, d)
      BY <2>1, PrintsConcat
    <2>4. Append(s, P) \in Seq(All) /\ Append(s, P) \in Seq(Seq(Instructions))
      <3> HIDE DEF All, T
      <3>1. QED BY <1>2, <2>1
    <2> HIDE DEF All
    <2>5. QED BY <2>2, <2>3, <2>4
  <1>3. Seq(All) \subseteq T
    <2> HIDE DEF T, All
    <2>1. QED BY <1>1, <1>2, SeqClosed
  <1>4. seqs \in Seq(All)
    <2>1. \A i \in 1..Len(seqs) : seqs[i] \in All
      OBVIOUS
    <2> HIDE DEF All
    <2>2. QED BY <2>1
  <1>5. QED BY <1>3, <1>4

\* Nested instructions print their lines one level deeper, after what is there of a
\* line that is open.
LEMMA NestedFacts ==
  ASSUME NEW Q \in Seq(Instructions)
  PROVE  Nested(Q) \in Seq(Instructions) /\ Written(Nested(Q)) = Written(Q)
  <1>1. Indent \in Instructions /\ Dedent \in Instructions /\ Indent.toks = <<>> /\ Dedent.toks = <<>>
    BY MarkTypes
  <1> DEFINE in == <<Indent>>
             out == <<Dedent>>
  <1>2. in \in Seq(Instructions) /\ out \in Seq(Instructions)
    BY <1>1
  <1>4. Written(in) = <<>> /\ Written(out) = <<>>
    <2>1. <<>> \in Toks
      BY DEF Toks
    <2>2. QED BY <1>1, <2>1, WrittenOne
  <1>0. Nested(Q) = (in \o Q) \o out
    BY DEF Nested
  <1> HIDE DEF in, out
  <1>3. in \o Q \in Seq(Instructions) /\ (in \o Q) \o out \in Seq(Instructions)
    BY <1>2
  <1>5. Written((in \o Q) \o out) = (Written(in) \o Written(Q)) \o Written(out)
    <2> DEFINE m == in \o Q
    <2>1. Written(m) = Written(in) \o Written(Q)
      BY <1>2, TextsFacts, WrittenConcat
    <2>2. m \in Seq(Instructions)
      BY <1>3
    <2> HIDE DEF m
    <2>3. Written(m \o out) = Written(m) \o Written(out)
      BY <1>2, <2>2, TextsFacts, WrittenConcat
    <2>4. QED BY <2>1, <2>3 DEF m
  <1>6. Written(Q) \in Toks
    BY TextsFacts, WrittenType
  <1>7. (<<>> \o Written(Q)) \o <<>> = Written(Q)
    BY <1>6 DEF Toks
  <1>8. QED BY <1>0, <1>3, <1>4, <1>5, <1>7

LEMMA ExecDedentWith ==
  ASSUME NEW bs \in Seq(BuilderStates), NEW c \in BuilderStates, NEW b \in BuilderStates, NEW r
  PROVE  Exec(St(Append(bs, c), b, r), Dedent) = St(bs, With(c, b.buffer), r)
  BY ExecDedent DEF With

LEMMA RunNested ==
  ASSUME NEW Q, Prints(Q, 0, 0), NEW bs \in Seq(BuilderStates), NEW b \in BuilderStates, NEW r \in BOOLEAN
  PROVE  \E ls : /\ Laid(ls, b.indent + 1, b.indent + 1) /\ Texts(ls) = Written(Q)
                 /\ Run(St(bs, b, r), Nested(Q)) = St(bs, With(Flush(b), ls), r)
  <1> DEFINE outer == Append(bs, Flush(b))
             c == Builder(b.indent + 1)
  <1>1. Q \in Seq(Instructions) /\ <<Indent>> \in Seq(Instructions) /\ <<Dedent>> \in Seq(Instructions)
        /\ <<Indent>> \o Q \in Seq(Instructions)
    <2>1. Q \in Seq(Instructions)
      BY DEF Prints
    <2>2. Indent \in Instructions /\ Dedent \in Instructions
      BY MarkTypes
    <2>3. QED BY <2>1, <2>2
  <1>2. Flush(b) \in BuilderStates /\ c \in BuilderStates
    <2>1. <<>> \in Toks
      BY DEF Toks
    <2>2. QED BY <2>1, BuilderTypes
  <1>3. outer \in Seq(BuilderStates)
    BY <1>2
  <1>4. c.indent = b.indent + 1 /\ Closed(c) /\ c.buffer = <<>> /\ b.indent \in Nat
    BY DEF Builder, Closed, BuilderStates
  <1>5. Run(St(bs, b, r), <<Indent>>) = St(outer, c, r)
    BY RunOne, ExecIndent
  <1> HIDE DEF outer, c
  <1>6. PICK ls : /\ Laid(ls, c.indent + 0, c.indent + 0) /\ Texts(ls) = Written(Q)
                  /\ Run(St(outer, c, r), Q) = St(outer, With(c, ls), r)
    BY <1>2, <1>3, <1>4 DEF Prints, PrintsOn
  <1>7. ls \in Seq(BufferLines)
    BY <1>6 DEF Laid
  <1>8. Run(St(bs, b, r), Nested(Q)) = Run(Run(Run(St(bs, b, r), <<Indent>>), Q), <<Dedent>>)
    <2> DEFINE in == <<Indent>>
               out == <<Dedent>>
               s == St(bs, b, r)
    <2>1. Nested(Q) = (in \o Q) \o out /\ in \in Seq(Instructions) /\ out \in Seq(Instructions)
      BY <1>1 DEF Nested
    <2> HIDE DEF in, out, s
    <2> DEFINE m == in \o Q
    <2>2. m \in Seq(Instructions)
      BY <1>1, <2>1
    <2>3. Run(s, m) = Run(Run(s, in), Q)
      BY <1>1, <2>1, RunConcat
    <2> HIDE DEF m
    <2>4. Run(s, m \o out) = Run(Run(s, m), out)
      BY <2>1, <2>2, RunConcat
    <2>5. QED BY <2>1, <2>3, <2>4 DEF in, out, s, m
  <1>9. Run(St(bs, b, r), Nested(Q)) = Exec(St(outer, With(c, ls), r), Dedent)
    BY <1>5, <1>6, <1>8, RunOne
  <1>10. With(c, ls) \in BuilderStates /\ With(c, ls).buffer = ls
    <2>1. With(c, ls).buffer = c.buffer \o ls
      BY <1>2 DEF With, BuilderStates
    <2>2. c.buffer \o ls = ls
      BY <1>4, <1>7
    <2>3. QED BY <1>2, <1>7, <2>1, <2>2, WithFacts
  <1>11. Exec(St(outer, With(c, ls), r), Dedent) = St(bs, With(Flush(b), ls), r)
    <2> DEFINE inner == With(c, ls)
    <2>1. inner \in BuilderStates /\ inner.buffer = ls
      BY <1>10
    <2> HIDE DEF inner
    <2>2. Exec(St(Append(bs, Flush(b)), inner, r), Dedent) = St(bs, With(Flush(b), inner.buffer), r)
      BY <1>2, <2>1, ExecDedentWith
    <2>3. QED BY <2>1, <2>2 DEF outer, inner
  <1>12. Laid(ls, b.indent + 1, b.indent + 1)
    <2>1. c.indent + 0 = b.indent + 1
      BY <1>4
    <2>2. QED BY <1>6, <2>1
  <1>13. QED BY <1>6, <1>9, <1>11, <1>12

LEMMA PrintsNested ==
  ASSUME NEW Q, Prints(Q, 0, 0)
  PROVE  Prints(Nested(Q), 1, 1)
  <1>1. Q \in Seq(Instructions)
    BY DEF Prints
  <1>2. ASSUME NEW bs \in Seq(BuilderStates), NEW b \in BuilderStates, NEW r \in BOOLEAN, Closed(b)
        PROVE  PrintsOn(Nested(Q), 1, 1, bs, b, r)
    <2>1. PICK ls : /\ Laid(ls, b.indent + 1, b.indent + 1) /\ Texts(ls) = Written(Q)
                    /\ Run(St(bs, b, r), Nested(Q)) = St(bs, With(Flush(b), ls), r)
      BY RunNested
    <2>2. Flush(b) = b
      BY <1>2 DEF Closed, Flush
    <2>3. Written(Nested(Q)) = Written(Q)
      BY <1>1, NestedFacts
    <2>4. QED BY <2>1, <2>2, <2>3 DEF PrintsOn
  <1>3. QED BY <1>1, <1>2, NestedFacts DEF Prints

\* The pieces of a line.
Pieces == {Piece(t) : t \in Toks}
WithPieces(b, t) == [b EXCEPT !.pieces = @ \o t]

LEMMA PieceFacts ==
  /\ \A t \in Toks : Piece(t) \in Pieces /\ <<Piece(t)>> \in Seq(Pieces) /\ Written(<<Piece(t)>>) = t
  /\ \A p \in Pieces : p.toks \in Toks
  /\ \A A \in Seq(Pieces) : A \in Seq(Instructions) /\ Written(A) \in Toks
  <1>1. \A p \in Pieces : p \in Instructions /\ p.toks \in Toks
    BY InstructionTypes DEF Pieces
  <1>2. ASSUME NEW t \in Toks PROVE Piece(t) \in Pieces /\ <<Piece(t)>> \in Seq(Pieces) /\ Written(<<Piece(t)>>) = t
    <2>1. Piece(t) \in Pieces /\ Piece(t).toks = t
      BY InstructionTypes DEF Pieces
    <2> DEFINE p == Piece(t)
    <2> HIDE DEF p
    <2>2. p \in Pieces /\ p.toks = t
      BY <2>1 DEF p
    <2>3. <<p>> \in Seq(Pieces) /\ Written(<<p>>) = t
      BY <2>2, WrittenOne
    <2>4. QED BY <2>2, <2>3 DEF p
  <1>3. ASSUME NEW A \in Seq(Pieces) PROVE A \in Seq(Instructions) /\ Written(A) \in Toks
    <2>1. Written(A) \in Toks
      BY <1>1, WrittenType
    <2>2. QED BY <1>1, <2>1
  <1>4. QED BY <1>1, <1>2, <1>3

LEMMA WithPiecesFacts ==
  ASSUME NEW b \in BuilderStates, NEW t \in Toks
  PROVE  /\ WithPieces(b, t) \in BuilderStates /\ WithPieces(b, t).pieces = b.pieces \o t
         /\ WithPieces(b, t).indent = b.indent /\ WithPieces(b, t).open = b.open /\ WithPieces(b, t).buffer = b.buffer
  <1>1. WithPieces(b, t) \in BuilderStates
    BY BuilderTypes DEF WithPieces
  <1>2. QED BY <1>1 DEF WithPieces, BuilderStates

LEMMA RunPieces ==
  ASSUME NEW A \in Seq(Pieces), NEW bs \in Seq(BuilderStates), NEW b \in BuilderStates, NEW r
  PROVE  Run(St(bs, b, r), A) = St(bs, WithPieces(b, Written(A)), r)
  <1> DEFINE T == {s \in Seq(Pieces) : Run(St(bs, b, r), s) = St(bs, WithPieces(b, Written(s)), r)}
  <1>1. <<>> \in T
    <2>1. WithPieces(b, <<>>) = b
      <3>1. b.pieces \o <<>> = b.pieces
        BY DEF BuilderStates, Toks
      <3>2. [b EXCEPT !.pieces = b.pieces] = b
        BY DEF BuilderStates
      <3>3. QED BY <3>1, <3>2 DEF WithPieces
    <2>2. <<>> \in Seq(Pieces)
      OBVIOUS
    <2>3. QED BY <2>1, <2>2, RunNone, WrittenNone
  <1>2. ASSUME NEW s \in Seq(Pieces), NEW p \in Pieces, s \in T PROVE Append(s, p) \in T
    <2>1. PICK t \in Toks : p = Piece(t)
      BY DEF Pieces
    <2>2. p.toks = t
      BY <2>1, InstructionTypes
    <2> DEFINE w == Written(s)
               c == WithPieces(b, w)
    <2>3. w \in Toks /\ Written(Append(s, p)) = w \o t
      BY <2>2, PieceFacts, WrittenMore
    <2> HIDE DEF w
    <2>4. c \in BuilderStates
      BY <2>3, WithPiecesFacts
    <2>5. WithPieces(c, t) = WithPieces(b, w \o t)
      <3>1. (b.pieces \o w) \o t = b.pieces \o (w \o t)
        <4>1. b.pieces \in Toks
          BY DEF BuilderStates
        <4>2. \A x \in Toks : (x \o w) \o t = x \o (w \o t)
          BY <2>3, ToksAssoc
        <4>3. QED BY <4>1, <4>2
      <3>2. WithPieces(c, t) = [b EXCEPT !.pieces = (b.pieces \o w) \o t]
        BY DEF WithPieces, BuilderStates
      <3>3. QED BY <3>1, <3>2 DEF WithPieces
    <2>6. Run(St(bs, b, r), s) = St(bs, c, r)
      BY <1>2 DEF w
    <2> HIDE DEF c
    <2>7. Run(St(bs, b, r), Append(s, p)) = Exec(St(bs, c, r), p)
      BY <2>6, RunMore
    <2>8. Exec(St(bs, c, r), p) = St(bs, WithPieces(c, t), r)
      BY <2>1, <2>4, ExecPiece DEF WithPieces
    <2>9. Append(s, p) \in Seq(Pieces)
      OBVIOUS
    <2>10. QED BY <2>3, <2>5, <2>7, <2>8, <2>9
  <1>3. Seq(Pieces) \subseteq T
    <2> HIDE DEF T
    <2>1. QED BY <1>1, <1>2, SeqClosed
  <1>4. QED BY <1>3

\* A line that is put together in pieces.
LEMMA ClosedLine ==
  ASSUME NEW b \in BuilderStates, NEW t \in Toks, t # <<>>, b.pieces = <<>>
  PROVE  /\ Flush(WithPieces(b, t)) = With(b, <<LineAt(b.indent, t)>>)
         /\ [Flush(WithPieces(b, t)) EXCEPT !.open = FALSE] = With([b EXCEPT !.open = FALSE], <<LineAt(b.indent, t)>>)
  <1> DEFINE c == WithPieces(b, t)
             l == LineAt(b.indent, t)
             more == b.buffer \o <<l>>
  <1>1. b.buffer \in Seq(BufferLines) /\ b.indent \in Nat
    BY DEF BuilderStates
  <1>2. /\ c \in BuilderStates /\ c.pieces = t /\ c.indent = b.indent /\ c.open = b.open /\ c.buffer = b.buffer
    <2>1. <<>> \o t = t
      BY DEF Toks
    <2>2. QED BY <2>1, WithPiecesFacts
  <1>3. Append(b.buffer, l) = more
    <2>1. l \in BufferLines
      BY <1>1, LineAtType
    <2>2. QED BY <1>1, <2>1
  <1>4. With(b, <<l>>) = [b EXCEPT !.buffer = more] /\ With([b EXCEPT !.open = FALSE], <<l>>) = [[b EXCEPT !.open = FALSE] EXCEPT !.buffer = more]
    BY DEF With, BuilderStates
  <1>5. Flush(c) = [Put(c, t) EXCEPT !.pieces = <<>>]
    BY <1>2 DEF Flush
  <1>6. Put(c, t) = [c EXCEPT !.buffer = more]
    BY <1>2, <1>3 DEF Put, LineAt
  <1> HIDE DEF more
  <1>7. [[c EXCEPT !.buffer = more] EXCEPT !.pieces = <<>>] = [b EXCEPT !.buffer = more]
    BY DEF WithPieces, BuilderStates
  <1>8. [[b EXCEPT !.buffer = more] EXCEPT !.open = FALSE] = [[b EXCEPT !.open = FALSE] EXCEPT !.buffer = more]
    BY DEF BuilderStates
  <1>9. Flush(c) = [b EXCEPT !.buffer = more]
    BY <1>5, <1>6, <1>7
  <1>10. QED BY <1>4, <1>8, <1>9

LEMMA OneLineFacts ==
  ASSUME NEW M \in Seq(Instructions)
  PROVE  /\ OneLine(M) \in Seq(Instructions) /\ Written(OneLine(M)) = Written(M)
         /\ \A s : Run(s, OneLine(M)) = Exec(Run(Exec(s, Open), M), Close)
  <1> DEFINE start == <<Open>>
             stop == <<Close>>
             m == start \o M
  <1>1. Open \in Instructions /\ Close \in Instructions /\ Open.toks = <<>> /\ Close.toks = <<>> /\ <<>> \in Toks
    BY MarkTypes DEF Toks
  <1>2. start \in Seq(Instructions) /\ stop \in Seq(Instructions)
    BY <1>1
  <1>3. Written(start) = <<>> /\ Written(stop) = <<>>
    BY <1>1, WrittenOne
  <1>4. OneLine(M) = m \o stop
    BY DEF OneLine
  <1>5. ASSUME NEW s PROVE Run(s, start) = Exec(s, Open) /\ Run(s, stop) = Exec(s, Close)
    BY RunOne
  <1> HIDE DEF start, stop
  <1>6. m \in Seq(Instructions) /\ Written(m) = Written(start) \o Written(M)
    BY <1>2, TextsFacts, WrittenConcat
  <1>7. ASSUME NEW s PROVE Run(s, m) = Run(Run(s, start), M)
    BY <1>2, RunConcat
  <1> HIDE DEF m
  <1>8. m \o stop \in Seq(Instructions) /\ Written(m \o stop) = Written(m) \o Written(stop)
    <2>1. m \o stop \in Seq(Instructions)
      BY <1>2, <1>6
    <2>2. Written(m \o stop) = Written(m) \o Written(stop)
      BY <1>2, <1>6, TextsFacts, WrittenConcat
    <2>3. QED BY <2>1, <2>2
  <1>9. Written(m \o stop) = Written(M)
    <2>1. Written(M) \in Toks
      BY TextsFacts, WrittenType
    <2>2. (<<>> \o Written(M)) \o <<>> = Written(M)
      BY <2>1 DEF Toks
    <2>3. QED BY <1>3, <1>6, <1>8, <2>2
  <1>10. ASSUME NEW s PROVE Run(s, m \o stop) = Exec(Run(Exec(s, Open), M), Close)
    <2>1. Run(s, m \o stop) = Run(Run(s, m), stop)
      BY <1>2, <1>6, RunConcat
    <2>2. QED BY <1>5, <1>7, <2>1
  <1>11. QED BY <1>4, <1>8, <1>9, <1>10

\* What is open while a line is put together.
LEMMA OpenedFacts ==
  ASSUME NEW b \in BuilderStates, Closed(b), NEW new, new = [b EXCEPT !.open = TRUE]
  PROVE  /\ new \in BuilderStates /\ new.indent = b.indent /\ new.pieces = <<>> /\ new.buffer = b.buffer
         /\ [new EXCEPT !.open = FALSE] = b
         /\ \A ls : [With(new, ls) EXCEPT !.open = FALSE] = With(b, ls)
  <1>1. b.open = FALSE /\ b.pieces = <<>>
    BY DEF Closed, BuilderStates
  <1>2. /\ new \in BuilderStates /\ new.indent = b.indent /\ new.pieces = <<>> /\ new.buffer = b.buffer
    BY <1>1 DEF BuilderStates
  <1>3. [new EXCEPT !.open = FALSE] = b
    BY <1>1 DEF BuilderStates
  <1>4. ASSUME NEW ls PROVE [With(new, ls) EXCEPT !.open = FALSE] = With(b, ls)
    BY <1>1 DEF With, BuilderStates
  <1>5. QED BY <1>2, <1>3, <1>4

\* A text that can stand on a line: what it leaves open, and whether it first closes.
Txt(t, n, c) == t \in Toks /\ t # <<>> /\ Depth(t) = n /\ Closes(t) = c

LEMMA PrintsTxt ==
  ASSUME NEW t, NEW n \in Int, NEW c \in {0, 1}, Txt(t, n, c)
  PROVE  Prints(<<Line(t)>>, c, c + n)
  BY PrintsLine DEF Txt

LEMMA PrintsOneLine ==
  ASSUME NEW A \in Seq(Pieces), NEW n \in Int, NEW c \in {0, 1}, Txt(Written(A), n, c)
  PROVE  Prints(OneLine(A), c, c + n)
  <1> DEFINE t == Written(A)
  <1>1. A \in Seq(Instructions) /\ t \in Toks /\ t # <<>>
    BY PieceFacts DEF Txt
  <1>2. ASSUME NEW bs \in Seq(BuilderStates), NEW b \in BuilderStates, NEW r \in BOOLEAN, Closed(b)
        PROVE  PrintsOn(OneLine(A), c, c + n, bs, b, r)
    <2> DEFINE new == [b EXCEPT !.open = TRUE]
               ls == <<LineAt(b.indent, t)>>
               d == WithPieces(new, t)
    <2>1. new \in BuilderStates /\ new.indent = b.indent /\ new.pieces = <<>> /\ [new EXCEPT !.open = FALSE] = b
      BY <1>2, OpenedFacts
    <2>2. Exec(St(bs, b, r), Open) = St(bs, new, r)
      <3>1. ~b.open
        BY <1>2 DEF Closed
      <3>2. QED BY <3>1, ExecOpen
    <2> HIDE DEF new
    <2>3. Run(St(bs, new, r), A) = St(bs, d, r) /\ d \in BuilderStates
      BY <1>1, <2>1, RunPieces, WithPiecesFacts
    <2>4. [Flush(d) EXCEPT !.open = FALSE] = With([new EXCEPT !.open = FALSE], <<LineAt(new.indent, t)>>)
      <3> HIDE DEF t
      <3>1. QED BY <1>1, <2>1, ClosedLine
    <2>5. Exec(St(bs, d, r), Close) = St(bs, With(b, ls), r)
      <3>1. Exec(St(bs, d, r), Close) = St(bs, [Flush(d) EXCEPT !.open = FALSE], r)
        <4> HIDE DEF d
        <4>1. QED BY <2>3, ExecClose
      <3>2. QED BY <2>1, <2>4, <3>1
    <2>6. Run(St(bs, b, r), OneLine(A)) = St(bs, With(b, ls), r)
      <3> HIDE DEF d, ls
      <3>1. QED BY <1>1, <2>2, <2>3, <2>5, OneLineFacts
    <2>7. b.indent \in Nat
      BY DEF BuilderStates
    <2>8. Laid(ls, b.indent + c, b.indent + (c + n)) /\ Texts(ls) = t
      <3> HIDE DEF t
      <3>1. Laid(ls, b.indent + Closes(t), b.indent + Closes(t) + Depth(t)) /\ Texts(ls) = t
        BY <1>1, <2>7, LaidOne, LineAtType DEF LineAt
      <3> HIDE DEF ls
      <3>2. Closes(t) = c /\ Depth(t) = n
        BY DEF Txt, t
      <3>3. b.indent + c + n = b.indent + (c + n)
        BY <2>7
      <3>4. QED BY <3>1, <3>2, <3>3
    <2>9. Written(OneLine(A)) = t
      BY <1>1, OneLineFacts
    <2> HIDE DEF ls, t
    <2>10. QED BY <2>6, <2>8, <2>9 DEF PrintsOn
  <1>3. QED BY <1>1, <1>2, OneLineFacts DEF Prints

\* A line that is put together around nested lines: the part before them is a line of
\* its own, and so is the part after them.
LEMMA PrintsAround ==
  ASSUME NEW A \in Seq(Pieces), NEW B \in Seq(Pieces), NEW Q, Prints(Q, 0, 0), NEW n \in Int,
         Txt(Written(A), 1, 0), Txt(Written(B), n, 1)
  PROVE  Prints(OneLine((A \o Nested(Q)) \o B), 0, 1 + n)
  <1> DEFINE t == Written(A)
             u == Written(B)
             N == Nested(Q)
             M == (A \o N) \o B
  <1>1. A \in Seq(Instructions) /\ B \in Seq(Instructions) /\ t \in Toks /\ t # <<>> /\ u \in Toks /\ u # <<>>
    BY PieceFacts DEF Txt
  <1>2. Q \in Seq(Instructions) /\ N \in Seq(Instructions) /\ Written(N) = Written(Q)
    BY NestedFacts DEF Prints
  <1> DEFINE L == A \o N
  <1>3. L \in Seq(Instructions) /\ Written(L) = t \o Written(Q) /\ \A s : Run(s, L) = Run(Run(s, A), N)
    <2> HIDE DEF N
    <2>1. L \in Seq(Instructions)
      BY <1>1, <1>2
    <2>2. Written(L) = Written(A) \o Written(N)
      BY <1>1, <1>2, TextsFacts, WrittenConcat
    <2>3. \A s : Run(s, L) = Run(Run(s, A), N)
      BY <1>1, <1>2, RunConcat
    <2>4. QED BY <1>2, <2>1, <2>2, <2>3
  <1>4. M \in Seq(Instructions) /\ Written(M) = (t \o Written(Q)) \o u /\ \A s : Run(s, M) = Run(Run(Run(s, A), N), B)
    <2>0. M = L \o B
      OBVIOUS
    <2> HIDE DEF L, M
    <2>1. L \o B \in Seq(Instructions)
      BY <1>1, <1>3
    <2>2. Written(L \o B) = Written(L) \o Written(B)
      BY <1>1, <1>3, TextsFacts, WrittenConcat
    <2>3. \A s : Run(s, L \o B) = Run(Run(s, L), B)
      BY <1>1, <1>3, RunConcat
    <2>4. QED BY <1>3, <2>0, <2>1, <2>2, <2>3
  <1>5. ASSUME NEW bs \in Seq(BuilderStates), NEW b \in BuilderStates, NEW r \in BOOLEAN, Closed(b)
        PROVE  PrintsOn(OneLine(M), 0, 1 + n, bs, b, r)
    <2> DEFINE new == [b EXCEPT !.open = TRUE]
               k == b.indent
               one == <<LineAt(k, t)>>
               last == <<LineAt(k, u)>>
    <2>1. /\ new \in BuilderStates /\ new.indent = k /\ new.pieces = <<>> /\ new.buffer = b.buffer
          /\ [new EXCEPT !.open = FALSE] = b /\ \A ls : [With(new, ls) EXCEPT !.open = FALSE] = With(b, ls)
      BY <1>5, OpenedFacts
    <2>2. Exec(St(bs, b, r), Open) = St(bs, new, r)
      <3>1. ~b.open
        BY <1>5 DEF Closed
      <3>2. QED BY <3>1, ExecOpen
    <2>3. k \in Nat /\ one \in Seq(BufferLines) /\ last \in Seq(BufferLines) /\ Texts(one) = t /\ Texts(last) = u
      <3>1. k \in Nat
        BY DEF BuilderStates
      <3> HIDE DEF k, t, u
      <3>2. QED BY <1>1, <3>1, LineAtType
    <2> HIDE DEF new, one, last, k
    \* Before the nested lines.
    <2> DEFINE d == WithPieces(new, t)
               full == With(new, one)
    <2>4. Run(St(bs, new, r), A) = St(bs, d, r) /\ d \in BuilderStates /\ Flush(d) = full /\ d.indent = k
      <3>1. Run(St(bs, new, r), A) = St(bs, d, r)
        BY <1>1, <2>1, RunPieces
      <3> HIDE DEF t
      <3>2. d \in BuilderStates /\ d.indent = k
        BY <1>1, <2>1, WithPiecesFacts
      <3>3. Flush(d) = With(new, <<LineAt(new.indent, t)>>)
        BY <1>1, <2>1, ClosedLine
      <3>4. QED BY <2>1, <3>1, <3>2, <3>3 DEF one
    <2> HIDE DEF d
    <2>5. PICK ls : /\ Laid(ls, d.indent + 1, d.indent + 1) /\ Texts(ls) = Written(Q)
                    /\ Run(St(bs, d, r), N) = St(bs, With(Flush(d), ls), r)
      BY <2>4, RunNested
    <2>6. ls \in Seq(BufferLines) /\ Laid(ls, k + 1, k + 1)
      BY <2>4, <2>5 DEF Laid
    \* After them.
    <2> DEFINE most == one \o ls
               g == With(new, most)
               all == most \o last
    <2>7. most \in Seq(BufferLines) /\ all \in Seq(BufferLines)
      BY <2>3, <2>6
    <2>8. With(Flush(d), ls) = g
      <3>1. With(With(new, one), ls) = With(new, one \o ls)
        BY <2>1, <2>3, <2>6, WithMore
      <3>2. QED BY <2>4, <3>1
    <2>15. Texts(all) = (t \o Written(Q)) \o u
      <3>1. Texts(most) = Texts(one) \o Texts(ls)
        BY <2>3, <2>6, TextsFacts, WrittenConcat
      <3> HIDE DEF most
      <3>2. Texts(most \o last) = Texts(most) \o Texts(last)
        BY <2>3, <2>7, TextsFacts, WrittenConcat
      <3>3. QED BY <2>3, <2>5, <3>1, <3>2
    <2>16. Laid(all, k + 0, k + (1 + n))
      <3>1. Laid(one, k + Closes(t), k + Closes(t) + Depth(t))
        BY <1>1, <2>3, LaidOne DEF one, LineAt
      <3>2. Laid(last, k + Closes(u), k + Closes(u) + Depth(u))
        BY <1>1, <2>3, LaidOne DEF last, LineAt
      <3>3. Closes(t) = 0 /\ Depth(t) = 1 /\ Closes(u) = 1 /\ Depth(u) = n
        BY DEF Txt
      <3> HIDE DEF t, u
      <3>4. Laid(one, k, k + 1)
        <4>1. k + 0 = k /\ k + 0 + 1 = k + 1
          BY <2>3
        <4>2. QED BY <3>1, <3>3, <4>1
      <3>5. Laid(last, k + 1, k + 1 + n)
        BY <3>2, <3>3
      <3>6. Laid(most, k, k + 1)
        BY <2>3, <2>6, <3>4, LaidConcat
      <3> HIDE DEF most
      <3>7. Laid(most \o last, k, k + 1 + n)
        BY <2>3, <3>5, <3>6, LaidConcat
      <3>8. k + 0 = k /\ k + (1 + n) = k + 1 + n
        BY <2>3
      <3>9. QED BY <3>7, <3>8
    <2>9. g \in BuilderStates /\ g.indent = k /\ g.pieces = <<>>
      <3> HIDE DEF most
      <3>1. QED BY <2>1, <2>7, WithFacts
    <2>10. With([g EXCEPT !.open = FALSE], last) = With(b, all)
      <3> HIDE DEF most
      <3>1. [g EXCEPT !.open = FALSE] = With(b, most)
        BY <2>1
      <3>2. With(With(b, most), last) = With(b, most \o last)
        BY <2>3, <2>7, WithMore
      <3>3. QED BY <3>1, <3>2
    <2> HIDE DEF most, all, g
    <2> DEFINE h == WithPieces(g, u)
    <2>11. Run(St(bs, g, r), B) = St(bs, h, r) /\ h \in BuilderStates
      BY <1>1, <2>9, RunPieces, WithPiecesFacts
    <2>12. [Flush(h) EXCEPT !.open = FALSE] = With(b, all)
      <3>1. [Flush(h) EXCEPT !.open = FALSE] = With([g EXCEPT !.open = FALSE], <<LineAt(g.indent, u)>>)
        <4> HIDE DEF u
        <4>1. QED BY <1>1, <2>9, ClosedLine
      <3>2. QED BY <2>9, <2>10, <3>1 DEF last
    <2>13. Exec(St(bs, h, r), Close) = St(bs, With(b, all), r)
      <3> HIDE DEF h
      <3>1. Exec(St(bs, h, r), Close) = St(bs, [Flush(h) EXCEPT !.open = FALSE], r)
        BY <2>11, ExecClose
      <3>2. QED BY <2>12, <3>1
    <2>14. Run(St(bs, b, r), OneLine(M)) = St(bs, With(b, all), r)
      <3> HIDE DEF h, M, N
      <3>1. Run(St(bs, b, r), OneLine(M)) = Exec(Run(Exec(St(bs, b, r), Open), M), Close)
        BY <1>4, OneLineFacts
      <3>2. Run(St(bs, new, r), M) = Run(Run(Run(St(bs, new, r), A), N), B)
        BY <1>4
      <3>3. Run(St(bs, new, r), M) = St(bs, h, r)
        BY <2>4, <2>5, <2>8, <2>11, <3>2
      <3>4. QED BY <2>2, <2>13, <3>1, <3>3
    <2>17. Written(OneLine(M)) = (t \o Written(Q)) \o u
      <3> HIDE DEF M
      <3>1. Written(OneLine(M)) = Written(M)
        BY <1>4, OneLineFacts
      <3>2. QED BY <1>4, <3>1
    <2> HIDE DEF M
    <2>18. QED BY <2>14, <2>15, <2>16, <2>17 DEF PrintsOn, k
  <1> HIDE DEF M
  <1>6. Prints(OneLine(M), 0, 1 + n)
    BY <1>4, <1>5, OneLineFacts DEF Prints
  <1>7. QED BY <1>6 DEF M, N

-----------------------------------------------------------------------------
(* The texts of the commands and blocks.                                    *)

LEMMA AppendOne ==
  ASSUME NEW A, NEW s \in Seq(A), NEW x \in A
  PROVE  Append(s, x) = s \o <<x>> /\ Append(s, x) \in Seq(A)
  OBVIOUS

LEMMA SequenceOfOne ==
  ASSUME NEW A, NEW x \in A
  PROVE  <<x>> \in Seq(A)
  OBVIOUS

Plain == Literals \ (Openers \cup Closers)

LEMMA PlainFacts ==
  ASSUME NEW t \in Seq(Plain)
  PROVE  t \in Toks /\ Depth(t) = 0 /\ (t # <<>> => Txt(t, 0, 0))
  <1>1. \A x \in Plain : x \in Words /\ x \notin Openers \cup Closers
    BY DEF Plain, Words
  <1>2. t \in Toks
    BY <1>1 DEF Toks
  <1>3. Depth(t) = 0
    <2>1. \A i \in DOMAIN t : t[i] \notin Openers \cup Closers
      BY <1>1
    <2>2. QED BY <2>1, DepthFlat
  <1>4. t # <<>> => Closes(t) = 0
    <2>1. t # <<>> => t[1] \in Plain
      OBVIOUS
    <2>2. QED BY <1>1, <2>1 DEF Closes
  <1>5. QED BY <1>2, <1>3, <1>4 DEF Txt

LEMMA BracketFacts ==
  /\ Txt(<<"{">>, 1, 0) /\ Txt(<<"[">>, 1, 0) /\ Txt(<<"}">>, 0 - 1, 1) /\ Txt(<<"]">>, 0 - 1, 1)
  <1>1. {"{", "[", "}", "]"} \subseteq Words
    BY DEF Words, Literals
  <1>2. ASSUME NEW x \in {"{", "[", "}", "]"}
        PROVE  Txt(<<x>>, Delta(x), IF x \in Closers THEN 1 ELSE 0)
    <2>1. <<x>> \in Toks /\ <<x>> # <<>> /\ <<x>>[1] = x
      <3>1. x \in Words
        BY <1>1
      <3>2. <<x>> \in Seq(Words)
        BY <3>1, SequenceOfOne
      <3>3. QED BY <3>2 DEF Toks
    <2>2. Depth(<<x>>) = Delta(x)
      BY DepthOne
    <2>3. Closes(<<x>>) = IF x \in Closers THEN 1 ELSE 0
      BY DEF Closes
    <2>4. QED BY <2>1, <2>2, <2>3 DEF Txt
  <1>3. /\ Delta("{") = 1 /\ Delta("[") = 1 /\ Delta("}") = 0 - 1 /\ Delta("]") = 0 - 1
        /\ "{" \notin Closers /\ "[" \notin Closers /\ "}" \in Closers /\ "]" \in Closers
    BY DEF Delta, Openers, Closers
  <1>4. QED BY <1>2, <1>3

LEMMA ExpFacts ==
  ASSUME NEW e \in Exps
  PROVE  e \in Toks /\ Depth(e) = 0
  <1>1. e \in Seq(Range(e)) /\ Depth(e) = 0
    BY BlocksAssumption
  <1>2. Range(e) \subseteq Words
    BY DEF Words
  <1>3. QED BY <1>1, <1>2 DEF Toks

LEMMA TxtConcat ==
  ASSUME NEW t, NEW n \in Int, NEW c, Txt(t, n, c), NEW u \in Toks, NEW m \in Int, Depth(u) = m
  PROVE  Txt(t \o u, n + m, c)
  <1>1. t \in Toks /\ t # <<>> /\ Depth(t) = n /\ Closes(t) = c
    BY DEF Txt
  <1>2. t \o u \in Toks /\ t \o u # <<>> /\ (t \o u)[1] = t[1]
    BY <1>1 DEF Toks
  <1>3. Depth(t \o u) = n + m
    BY <1>1, DepthConcat DEF Toks
  <1>4. Closes(t \o u) = c
    BY <1>1, <1>2 DEF Closes
  <1>5. QED BY <1>2, <1>3, <1>4 DEF Txt

LEMMA TxtAround ==
  ASSUME NEW t, NEW n \in Int, NEW c, Txt(t, n, c), NEW e \in Exps, NEW u \in Toks, NEW m \in Int, Depth(u) = m
  PROVE  Txt((t \o e) \o u, n + m, c)
  <1> DEFINE v == t \o e
  <1>1. Txt(v, n, c)
    <2>1. Txt(t \o e, n + 0, c)
      BY ExpFacts, TxtConcat
    <2>2. n + 0 = n
      OBVIOUS
    <2>3. QED BY <2>1, <2>2
  <1> HIDE DEF v
  <1>2. Txt(v \o u, n + m, c)
    BY <1>1, TxtConcat
  <1>3. QED BY <1>2 DEF v

\* Programs one after another.
LEMMA PrintsThree ==
  ASSUME NEW P, NEW Q, NEW R, NEW d \in Int, NEW e \in Int, NEW f \in Int, NEW g \in Int,
         Prints(P, d, e), Prints(Q, e, f), Prints(R, f, g)
  PROVE  Prints((P \o Q) \o R, d, g)
  <1> DEFINE S == P \o Q
  <1>1. Prints(S, d, f)
    BY PrintsConcat
  <1> HIDE DEF S
  <1>2. Prints(S \o R, d, g)
    BY <1>1, PrintsConcat
  <1>3. QED BY <1>2 DEF S

LEMMA EndLine == Prints(<<Line(<<"}">>)>>, 1, 0)
  <1> DEFINE t == <<"}">>
  <1>1. Txt(t, 0 - 1, 1)
    BY BracketFacts
  <1> HIDE DEF t
  <1>2. Prints(<<Line(t)>>, 1, 1 + (0 - 1))
    BY <1>1, PrintsTxt
  <1>3. 1 + (0 - 1) = 0
    OBVIOUS
  <1>4. Prints(<<Line(t)>>, 1, 0)
    BY <1>2, <1>3
  <1>5. QED BY <1>4 DEF t

\* Texts on lines of their own.
LEMMA PrintsLinesOf ==
  ASSUME NEW texts, NEW A, texts \in Seq(A), \A t \in A : Txt(t, 0, 0)
  PROVE  Prints(LinesOf(texts), 0, 0)
  <1> DEFINE T == {s \in Seq(A) : Prints(LinesOf(s), 0, 0)}
  <1>1. <<>> \in T
    <2>1. LinesOf(<<>>) = <<>> /\ <<>> \in Seq(A)
      BY DEF LinesOf
    <2>2. Prints(<<>>, 0, 0)
      BY PrintsNone
    <2>3. QED BY <2>1, <2>2
  <1>2. ASSUME NEW s \in Seq(A), NEW t \in A, s \in T PROVE Append(s, t) \in T
    <2> DEFINE l == LinesOf(s)
               more == Append(s, t)
    <2>1. Txt(t, 0, 0) /\ \A x \in A : x \in Toks
      BY DEF Txt
    <2>2. Prints(<<Line(t)>>, 0, 0 + 0)
      BY <2>1, PrintsTxt
    <2>3. /\ more \in Seq(A) /\ DOMAIN more = 1..(Len(s) + 1) /\ more[Len(s) + 1] = t
          /\ DOMAIN s = 1..Len(s) /\ Len(s) \in Nat /\ \A i \in 1..Len(s) : more[i] = s[i] /\ s[i] \in A
      OBVIOUS
    <2> HIDE DEF more
    <2>4. LinesOf(more) = l \o <<Line(t)>>
      <3> DEFINE f == LinesOf(more)
                 g == l \o <<Line(t)>>
      <3>1. Line(t) \in Instructions /\ \A i \in 1..Len(s) : Line(s[i]) \in Instructions
        BY <2>1, <2>3, InstructionTypes
      <3>2. l \in Seq(Instructions) /\ Len(l) = Len(s) /\ \A i \in 1..Len(s) : l[i] = Line(s[i])
        BY <2>3, <3>1 DEF LinesOf
      <3> HIDE DEF l
      <3>3. /\ g \in Seq(Instructions) /\ DOMAIN g = 1..(Len(s) + 1) /\ g[Len(s) + 1] = Line(t)
            /\ \A i \in 1..Len(s) : g[i] = l[i]
        BY <3>1, <3>2
      <3>4. f = [i \in 1..(Len(s) + 1) |-> Line(more[i])]
        BY <2>3 DEF LinesOf
      <3> HIDE DEF g
      <3>5. ASSUME NEW i \in 1..(Len(s) + 1) PROVE g[i] = Line(more[i])
        <4>1. i = Len(s) + 1 \/ i \in 1..Len(s)
          BY <2>3
        <4>2. QED BY <2>3, <3>2, <3>3, <4>1
      <3>6. g = [i \in 1..(Len(s) + 1) |-> g[i]]
        <4>1. g = [i \in DOMAIN g |-> g[i]]
          BY <3>3
        <4>2. QED BY <3>3, <4>1
      <3>7. QED BY <3>4, <3>5, <3>6 DEF g
    <2>5. Prints(l, 0, 0)
      BY <1>2
    <2> HIDE DEF l
    <2>6. Prints(l \o <<Line(t)>>, 0, 0)
      BY <2>2, <2>5, PrintsConcat
    <2>7. QED BY <2>3, <2>4, <2>6 DEF more
  <1>3. Seq(A) \subseteq T
    <2> HIDE DEF T
    <2>1. QED BY <1>1, <1>2, SeqClosed
  <1>4. QED BY <1>3

LEMMA PrintsEntries ==
  ASSUME NEW entry, Txt(entry, 0, 0), NEW n \in Nat
  PROVE  Prints(Entries(entry, n), 0, 0)
  <1> DEFINE comma == <<",">>
             last == Append(entry, ",")
             texts == [i \in 1..n |-> IF i < n THEN last ELSE entry]
  <1>1. comma \in Seq(Plain)
    BY DEF Plain, Literals, Openers, Closers
  <1>2. entry \in Toks /\ "," \in Words
    BY DEF Txt, Words, Literals
  <1>3. last = entry \o comma
    <2>1. entry \in Seq(Words)
      BY <1>2 DEF Toks
    <2>2. QED BY <1>2, <2>1, AppendOne
  <1>4. Txt(last, 0, 0)
    <2> HIDE DEF comma, last
    <2>1. comma \in Toks /\ Depth(comma) = 0
      BY <1>1, PlainFacts
    <2>2. Txt(entry \o comma, 0 + 0, 0)
      BY <2>1, TxtConcat
    <2>3. QED BY <1>3, <2>2
  <1> HIDE DEF last
  <1>5. texts \in Seq({last, entry})
    OBVIOUS
  <1>6. Entries(entry, n) = LinesOf(texts)
    BY DEF Entries, last
  <1> HIDE DEF texts
  <1>7. Prints(LinesOf(texts), 0, 0)
    <2>1. \A t \in {last, entry} : Txt(t, 0, 0)
      BY <1>4
    <2>2. QED BY <1>5, <2>1, PrintsLinesOf
  <1>8. QED BY <1>6, <1>7

-----------------------------------------------------------------------------
(* Commands.                                                                *)

LEMMA SameSequence ==
  ASSUME NEW A, NEW s \in Seq(A), NEW t \in Seq(A), Len(s) = Len(t), \A i \in 1..Len(s) : s[i] = t[i]
  PROVE  s = t
  <1>1. s = [i \in 1..Len(s) |-> s[i]] /\ t = [i \in 1..Len(t) |-> t[i]]
    OBVIOUS
  <1>2. [i \in 1..Len(s) |-> s[i]] = [i \in 1..Len(t) |-> t[i]]
    OBVIOUS
  <1>3. QED BY <1>1, <1>2

LEMMA Pair ==
  ASSUME NEW A, NEW x \in A, NEW y \in A
  PROVE  <<x, y>> = <<x>> \o <<y>> /\ <<x, y>> \in Seq(A)
  <1> DEFINE s == <<x, y>>
             t == <<x>> \o <<y>>
  <1>1. <<x>> \in Seq(A) /\ <<y>> \in Seq(A) /\ s \in Seq(A)
    OBVIOUS
  <1>2. t \in Seq(A)
    BY <1>1
  <1>3. /\ Len(<<x>>) = 1 /\ Len(<<y>>) = 1 /\ <<x>>[1] = x /\ <<y>>[1] = y
        /\ Len(s) = 2 /\ s[1] = x /\ s[2] = y
    OBVIOUS
  <1>4. Len(t) = 2 /\ t[1] = x /\ t[2] = y
    BY <1>1, <1>3
  <1>5. \A i \in 1..2 : i = 1 \/ i = 2
    OBVIOUS
  <1> HIDE DEF s, t
  <1>6. \A i \in 1..Len(s) : s[i] = t[i]
    BY <1>3, <1>4, <1>5
  <1>7. s = t
    BY <1>1, <1>2, <1>3, <1>4, <1>6, SameSequence
  <1>8. QED BY <1>1, <1>7 DEF s, t

LEMMA PairAndOne ==
  ASSUME NEW A, NEW x \in A, NEW y \in A, NEW z \in A
  PROVE  <<x, y, z>> = <<x, y>> \o <<z>>
  OBVIOUS

LEMMA Triple ==
  ASSUME NEW x, NEW y, NEW z
  PROVE  <<x, y, z>> = (<<x>> \o <<y>>) \o <<z>>
  <1> DEFINE p == <<x, y>>
             q == <<x>> \o <<y>>
             w == <<x, y, z>>
             S == {x, y, z}
  <1>1. x \in S /\ y \in S /\ z \in S
    OBVIOUS
  <1> HIDE DEF S
  <1>2. p = q
    BY <1>1, Pair
  <1>3. w = p \o <<z>>
    BY <1>1, PairAndOne
  <1> HIDE DEF p, q, w
  <1>4. w = q \o <<z>>
    BY <1>2, <1>3
  <1>5. QED BY <1>4 DEF q, w

LEMMA SimpleTxt ==
  ASSUME NEW type \in SimpleTypes, NEW e \in Exps
  PROVE  Txt(PrintSimple(type, e), 0, 0)
  <1>1. ASSUME NEW t \in Seq(Plain), NEW u \in Seq(Plain), t # <<>>
        PROVE  Txt((t \o e) \o u, 0, 0)
    <2>1. Txt(t, 0, 0) /\ u \in Toks /\ Depth(u) = 0
      BY <1>1, PlainFacts
    <2>2. Txt((t \o e) \o u, 0 + 0, 0)
      BY <2>1, TxtAround
    <2>3. QED BY <2>2
  <1> DEFINE end == <<";">>
             message == <<",", "message", ")", ";">>
             args == <<")", ";">>
  <1>2. end \in Seq(Plain) /\ message \in Seq(Plain) /\ args \in Seq(Plain)
    BY DEF Plain, Literals, Openers, Closers
  <1>3. CASE type = "declaration"
    <2> DEFINE t == <<"uint256", "v", "=">>
    <2>1. t \in Seq(Plain) /\ t # <<>>
      BY DEF Plain, Literals, Openers, Closers
    <2>2. PrintSimple(type, e) = (t \o e) \o end
      BY <1>3 DEF PrintSimple
    <2> HIDE DEF t, end
    <2>3. QED BY <1>1, <1>2, <2>1, <2>2
  <1>4. CASE type = "assignment"
    <2> DEFINE t == <<"v", "=">>
    <2>1. t \in Seq(Plain) /\ t # <<>>
      BY DEF Plain, Literals, Openers, Closers
    <2>2. PrintSimple(type, e) = (t \o e) \o end
      BY <1>4 DEF PrintSimple
    <2> HIDE DEF t, end
    <2>3. QED BY <1>1, <1>2, <2>1, <2>2
  <1>5. CASE type = "havoc"
    <2> DEFINE t == <<"havoc", "v", "assuming">>
    <2>1. t \in Seq(Plain) /\ t # <<>>
      BY DEF Plain, Literals, Openers, Closers
    <2>2. PrintSimple(type, e) = (t \o e) \o end
      BY <1>5 DEF PrintSimple
    <2> HIDE DEF t, end
    <2>3. QED BY <1>1, <1>2, <2>1, <2>2
  <1>6. CASE type = "assume"
    <2> DEFINE t == <<"require", "(">>
    <2>1. t \in Seq(Plain) /\ t # <<>>
      BY DEF Plain, Literals, Openers, Closers
    <2>2. PrintSimple(type, e) = (t \o e) \o message
      BY <1>6 DEF PrintSimple
    <2> HIDE DEF t, message
    <2>3. QED BY <1>1, <1>2, <2>1, <2>2
  <1>7. CASE type = "assume_invariant"
    <2> DEFINE t == <<"requireInvariant", "i", "(">>
    <2>1. t \in Seq(Plain) /\ t # <<>>
      BY DEF Plain, Literals, Openers, Closers
    <2>2. PrintSimple(type, e) = (t \o e) \o args
      BY <1>7 DEF PrintSimple
    <2> HIDE DEF t, args
    <2>3. QED BY <1>1, <1>2, <2>1, <2>2
  <1>8. CASE type = "apply"
    <2> DEFINE t == <<"g", "(">>
    <2>1. t \in Seq(Plain) /\ t # <<>>
      BY DEF Plain, Literals, Openers, Closers
    <2>2. PrintSimple(type, e) = (t \o e) \o args
      BY <1>8 DEF PrintSimple
    <2> HIDE DEF t, args
    <2>3. QED BY <1>1, <1>2, <2>1, <2>2
  <1>9. CASE type = "reset_storage"
    <2> DEFINE t == <<"reset_storage">>
    <2>1. t \in Seq(Plain) /\ t # <<>>
      BY DEF Plain, Literals, Openers, Closers
    <2>2. PrintSimple(type, e) = (t \o e) \o end
      BY <1>9 DEF PrintSimple
    <2> HIDE DEF t, end
    <2>3. QED BY <1>1, <1>2, <2>1, <2>2
  <1>10. CASE type \in {"assert", "satisfy"}
    <2> DEFINE t == <<type, "(">>
               paren == "("
    <2>0. type \in Plain /\ paren \in Plain
      BY <1>10 DEF Plain, Literals, Openers, Closers
    <2>1. t \in Seq(Plain) /\ t # <<>>
      <3>1. <<type, paren>> \in Seq(Plain)
        <4> HIDE DEF paren
        <4>1. QED BY <2>0, Pair
      <3>2. t # <<>>
        OBVIOUS
      <3>3. QED BY <3>1, <3>2
    <2>2. PrintSimple(type, e) = (t \o e) \o message
      BY <1>10 DEF PrintSimple
    <2> HIDE DEF t, message
    <2>3. QED BY <1>1, <1>2, <2>1, <2>2
  <1>11. CASE type = "return"
    <2> DEFINE t == <<"return">>
    <2>1. t \in Seq(Plain) /\ t # <<>>
      BY DEF Plain, Literals, Openers, Closers
    <2>2. PrintSimple(type, e) = (t \o e) \o end
      BY <1>11 DEF PrintSimple
    <2> HIDE DEF t, end
    <2>3. QED BY <1>1, <1>2, <2>1, <2>2
  <1>12. CASE type = "revert"
    <2> DEFINE t == <<"revert", ";">>
    <2>1. t \in Seq(Plain) /\ t # <<>>
      BY DEF Plain, Literals, Openers, Closers
    <2>2. PrintSimple(type, e) = t
      BY <1>12 DEF PrintSimple
    <2> HIDE DEF t
    <2>3. QED BY <2>1, <2>2, PlainFacts
  <1>13. QED
    BY <1>3, <1>4, <1>5, <1>6, <1>7, <1>8, <1>9, <1>10, <1>11, <1>12 DEF SimpleTypes

\* A command prints a block of its own; the else-if of an if starts inside the block of
\* the if before it and closes that.
Sound(c) == Prints(c.printed, 0, 0) /\ (c.type = "if" => Prints(c.elif, 1, 0))

LEMMA PrintsCommands ==
  ASSUME NEW A, NEW cs \in Seq(A), \A i \in DOMAIN cs : Sound(cs[i])
  PROVE  Prints(PrintCommands(cs), 0, 0)
  <1> DEFINE seqs == [i \in DOMAIN cs |-> cs[i].printed]
  <1>1. DOMAIN cs = 1..Len(cs) /\ Len(cs) \in Nat
    OBVIOUS
  <1>2. \A i \in 1..Len(cs) : cs[i].printed \in Seq(Instructions) /\ Prints(cs[i].printed, 0, 0)
    BY <1>1 DEF Sound, Prints
  <1>3. seqs \in Seq(Seq(Instructions)) /\ DOMAIN seqs = 1..Len(cs)
    BY <1>1, <1>2
  <1>4. \A i \in DOMAIN seqs : Prints(seqs[i], 0, 0)
    BY <1>1, <1>2
  <1>5. PrintCommands(cs) = FlattenSeq(seqs)
    BY DEF PrintCommands
  <1> HIDE DEF seqs
  <1>6. Prints(FlattenSeq(seqs), 0, 0)
    <2>1. seqs \in Seq(Seq(Instructions)) /\ 0 \in Int
      BY <1>3
    <2>2. QED BY <2>1, <1>4, PrintsFlatten, ZenonT(30)
  <1>7. QED BY <1>5, <1>6

\* What stands in braces: a line that opens one, lines that are nested, the end.
LEMMA PrintsBlockOf ==
  ASSUME NEW t, NEW n \in Int, NEW c \in {0, 1}, Txt(t, n, c), c + n = 1, NEW P, Prints(P, 0, 0), NEW R, NEW d \in Int, Prints(R, 1, d)
  PROVE  Prints((<<Line(t)>> \o Nested(P)) \o R, c, d)
  <1>1. Prints(<<Line(t)>>, c, 1)
    <2>1. Prints(<<Line(t)>>, c, c + n)
      BY PrintsTxt
    <2>2. QED BY <2>1
  <1>2. Prints(Nested(P), 1, 1)
    BY PrintsNested
  <1> DEFINE L == <<Line(t)>>
             N == Nested(P)
  <1>3. Prints(L, c, 1) /\ Prints(N, 1, 1)
    BY <1>1, <1>2
  <1> HIDE DEF L, N
  <1>4. Prints((L \o N) \o R, c, d)
    BY <1>3, PrintsThree
  <1>5. QED BY <1>4 DEF L, N

LEMMA BlockCmdSound ==
  ASSUME NEW A, NEW cs \in Seq(A), \A i \in DOMAIN cs : Sound(cs[i])
  PROVE  Prints(PrintBlockCmd(cs), 0, 0)
  <1> DEFINE t == <<"{">>
             R == <<Line(<<"}">>)>>
             P == PrintCommands(cs)
  <1>1. Txt(t, 1, 0) /\ Prints(R, 1, 0) /\ Prints(P, 0, 0)
    BY BracketFacts, EndLine, PrintsCommands
  <1>2. PrintBlockCmd(cs) = (<<Line(t)>> \o Nested(P)) \o R
    BY DEF PrintBlockCmd
  <1> HIDE DEF t, R, P
  <1>3. Prints((<<Line(t)>> \o Nested(P)) \o R, 0, 0)
    BY <1>1, PrintsBlockOf
  <1>4. QED BY <1>2, <1>3

LEMMA ElseSound ==
  ASSUME NEW A, NEW cs \in Seq(A), \A i \in DOMAIN cs : Sound(cs[i])
  PROVE  Prints(PrintElse(cs), 1, 0)
  <1> DEFINE x == "}"
             y == "else"
             z == "{"
             close == <<x>>
             else == <<y>>
             open == <<z>>
             t == <<x, y, z>>
             R == <<Line(<<"}">>)>>
             P == PrintCommands(cs)
  <1>1. Txt(close, 0 - 1, 1) /\ open \in Toks /\ Depth(open) = 1 /\ Prints(R, 1, 0) /\ Prints(P, 0, 0)
    BY BracketFacts, EndLine, PrintsCommands DEF Txt
  <1>2. else \in Toks /\ Depth(else) = 0
    <2>1. else \in Seq(Plain)
      BY DEF Plain, Literals, Openers, Closers
    <2> HIDE DEF else
    <2>2. QED BY <2>1, PlainFacts
  <1>3. t = (close \o else) \o open
    <2> HIDE DEF x, y, z
    <2>1. QED BY Triple
  <1>4. PrintElse(cs) = (<<Line(t)>> \o Nested(P)) \o R
    BY DEF PrintElse
  <1> HIDE DEF t, R, P, close, else, open, x, y, z
  <1>5. Txt(t, 0, 1)
    <2> DEFINE u == close \o else
    <2>1. Txt(u, (0 - 1) + 0, 1)
      BY <1>1, <1>2, TxtConcat
    <2>2. (0 - 1) + 0 = 0 - 1 /\ (0 - 1) + 1 = 0
      OBVIOUS
    <2> HIDE DEF u
    <2>3. Txt(u \o open, (0 - 1) + 1, 1)
      BY <1>1, <2>1, <2>2, TxtConcat
    <2>4. QED BY <1>3, <2>2, <2>3 DEF u
  <1>6. Prints((<<Line(t)>> \o Nested(P)) \o R, 1, 0)
    BY <1>1, <1>5, PrintsBlockOf
  <1>7. QED BY <1>4, <1>6

LEMMA IfSound ==
  ASSUME NEW A, NEW cs \in Seq(A), \A i \in DOMAIN cs : Sound(cs[i]), NEW e \in Exps, NEW rest, Prints(rest, 1, 0)
  PROVE  Sound(If(e, cs, rest))
  <1> DEFINE if == <<"if", "(">>
             open == <<")", "{">>
             start == <<"}", "else">>
             P == PrintCommands(cs)
             t == (if \o e) \o open
             u == ((start \o if) \o e) \o open
  <1>1. Prints(P, 0, 0)
    BY PrintsCommands
  <1>2. if \in Toks /\ Depth(if) = 0 /\ Txt(if, 0, 0)
    <2>1. if \in Seq(Plain) /\ if # <<>>
      BY DEF Plain, Literals, Openers, Closers
    <2> HIDE DEF if
    <2>2. QED BY <2>1, PlainFacts
  <1>3. open \in Toks /\ Depth(open) = 1
    <2> DEFINE a == <<")">>
               b == <<"{">>
    <2>1. a \in Seq(Plain) /\ a # <<>> /\ open = a \o b
      <3>1. a \in Seq(Plain) /\ a # <<>>
        BY DEF Plain, Literals, Openers, Closers
      <3> DEFINE A2 == {")", "{"}
      <3>2. ")" \in A2 /\ "{" \in A2
        OBVIOUS
      <3> HIDE DEF A2
      <3>3. open = a \o b
        BY <3>2, Pair
      <3>4. QED BY <3>1, <3>3
    <2>2. b \in Toks /\ Depth(b) = 1
      BY BracketFacts DEF Txt
    <2> HIDE DEF a, b, open
    <2>3. Txt(a \o b, 0 + 1, 0)
      BY <2>1, <2>2, PlainFacts, TxtConcat
    <2>4. QED BY <2>1, <2>3 DEF Txt
  <1>4. Txt(start, 0 - 1, 1)
    <2> DEFINE a == <<"}">>
               b == <<"else">>
    <2>1. b \in Seq(Plain) /\ start = a \o b
      <3>1. b \in Seq(Plain)
        BY DEF Plain, Literals, Openers, Closers
      <3> DEFINE A2 == {"}", "else"}
      <3>2. "}" \in A2 /\ "else" \in A2
        OBVIOUS
      <3> HIDE DEF A2
      <3>3. start = a \o b
        BY <3>2, Pair
      <3>4. QED BY <3>1, <3>3
    <2>2. Txt(a, 0 - 1, 1)
      BY BracketFacts
    <2> HIDE DEF a, b, start
    <2>3. Txt(a \o b, (0 - 1) + 0, 1)
      BY <2>1, <2>2, PlainFacts, TxtConcat
    <2>4. (0 - 1) + 0 = 0 - 1
      OBVIOUS
    <2>5. QED BY <2>1, <2>3, <2>4
  <1>5. /\ PrintIf(e, cs, rest, FALSE) = (<<Line(t)>> \o Nested(P)) \o rest
        /\ PrintIf(e, cs, rest, TRUE) = (<<Line(u)>> \o Nested(P)) \o rest
    <2>1. <<>> \o if = if
      OBVIOUS
    <2>2. (((<<>> \o if) \o e) \o open) = t
      BY <2>1
    <2> HIDE DEF t
    <2>3. PrintIf(e, cs, rest, FALSE) = (<<Line(((<<>> \o if) \o e) \o open)>> \o Nested(P)) \o rest
      BY DEF PrintIf
    <2>4. PrintIf(e, cs, rest, TRUE) = (<<Line(u)>> \o Nested(P)) \o rest
      BY DEF PrintIf
    <2>5. QED BY <2>2, <2>3, <2>4
  <1> HIDE DEF if, open, start, P
  <1>6. Txt(t, 1, 0)
    <2>1. Txt((if \o e) \o open, 0 + 1, 0)
      BY <1>2, <1>3, TxtAround
    <2>2. QED BY <2>1
  <1>7. Txt(u, 0, 1)
    <2> DEFINE v == start \o if
    <2>1. Txt(v, (0 - 1) + 0, 1)
      BY <1>2, <1>4, TxtConcat
    <2>2. (0 - 1) + 0 = 0 - 1 /\ (0 - 1) + 1 = 0
      OBVIOUS
    <2> HIDE DEF v
    <2>3. Txt((v \o e) \o open, (0 - 1) + 1, 1)
      BY <1>3, <2>1, <2>2, TxtAround
    <2>4. QED BY <2>2, <2>3 DEF v
  <1> HIDE DEF t, u
  <1>8. Prints((<<Line(t)>> \o Nested(P)) \o rest, 0, 0) /\ Prints((<<Line(u)>> \o Nested(P)) \o rest, 1, 0)
    BY <1>1, <1>6, <1>7, PrintsBlockOf
  <1>9. If(e, cs, rest).printed = PrintIf(e, cs, rest, FALSE) /\ If(e, cs, rest).elif = PrintIf(e, cs, rest, TRUE)
    BY DEF If, Cmd
  <1>10. QED BY <1>5, <1>8, <1>9 DEF Sound

-----------------------------------------------------------------------------
(* The pieces of a line.                                                    *)

LEMMA TripleAndOne ==
  ASSUME NEW A, NEW x \in A, NEW y \in A, NEW z \in A, NEW w \in A
  PROVE  <<x, y, z, w>> = <<x, y, z>> \o <<w>> /\ <<x, y, z>> \in Seq(A)
  OBVIOUS

LEMMA FourAndOne ==
  ASSUME NEW A, NEW x \in A, NEW y \in A, NEW z \in A, NEW w \in A, NEW v \in A
  PROVE  <<x, y, z, w, v>> = <<x, y, z, w>> \o <<v>> /\ <<x, y, z, w>> \in Seq(A)
  OBVIOUS

LEMMA ProgramAssoc ==
  ASSUME NEW P \in Seq(Instructions), NEW Q \in Seq(Instructions), NEW R \in Seq(Instructions)
  PROVE  P \o (Q \o R) = (P \o Q) \o R
  BY ConcatAssoc

\* Pieces whose text can stand on a line.
Start(A, n, c) == A \in Seq(Pieces) /\ Txt(Written(A), n, c)

LEMMA StartOne ==
  ASSUME NEW t, NEW n \in Int, NEW c, Txt(t, n, c)
  PROVE  Start(<<Piece(t)>>, n, c)
  BY PieceFacts DEF Txt, Start

LEMMA StartMore ==
  ASSUME NEW A, NEW n \in Int, NEW c, Start(A, n, c), NEW B \in Seq(Pieces), NEW m \in Int, Depth(Written(B)) = m
  PROVE  Start(A \o B, n + m, c)
  <1>1. A \in Seq(Pieces) /\ Txt(Written(A), n, c)
    BY DEF Start
  <1>2. Written(A \o B) = Written(A) \o Written(B)
    BY <1>1, PieceFacts, WrittenConcat
  <1>3. Written(B) \in Toks
    BY PieceFacts
  <1>4. Txt(Written(A) \o Written(B), n + m, c)
    BY <1>1, <1>3, TxtConcat
  <1>5. A \o B \in Seq(Pieces)
    BY <1>1
  <1>6. QED BY <1>2, <1>4, <1>5 DEF Start

LEMMA StartPiece ==
  ASSUME NEW A, NEW n \in Int, NEW c, Start(A, n, c), NEW u \in Toks, NEW m \in Int, Depth(u) = m
  PROVE  Start(A \o <<Piece(u)>>, n + m, c)
  <1> DEFINE B == <<Piece(u)>>
  <1>1. B \in Seq(Pieces) /\ Written(B) = u
    BY PieceFacts
  <1> HIDE DEF B
  <1>2. Start(A \o B, n + m, c)
    BY <1>1, StartMore
  <1>3. QED BY <1>2 DEF B

\* A text between the first piece and the last one.
Mid(t) == t \in Toks /\ Depth(t) = 0

LEMMA StartTwo ==
  ASSUME NEW t, NEW c, Txt(t, 0, c), NEW u \in Toks, NEW m \in Int, Depth(u) = m
  PROVE  Start(<<Piece(t), Piece(u)>>, m, c)
  <1> DEFINE p == Piece(t)
             q == Piece(u)
             A == <<p>>
  <1>1. Start(A, 0, c) /\ p \in Pieces /\ q \in Pieces
    <2>1. Start(A, 0, c)
      BY StartOne
    <2>2. p \in Pieces /\ q \in Pieces
      BY PieceFacts DEF Txt
    <2>3. QED BY <2>1, <2>2
  <1>2. <<p, q>> = A \o <<q>>
    <2> HIDE DEF p, q
    <2>1. QED BY <1>1, Pair
  <1> HIDE DEF A
  <1>3. Start(A \o <<q>>, 0 + m, c)
    BY <1>1, StartPiece
  <1>4. 0 + m = m
    OBVIOUS
  <1>5. QED BY <1>2, <1>3, <1>4

LEMMA StartThree ==
  ASSUME NEW t, NEW c, Txt(t, 0, c), NEW s, Mid(s), NEW u \in Toks, NEW m \in Int, Depth(u) = m
  PROVE  Start(<<Piece(t), Piece(s), Piece(u)>>, m, c)
  <1> DEFINE p == Piece(t)
             q == Piece(s)
             r == Piece(u)
             A == <<p, q>>
  <1>1. Start(A, 0, c) /\ p \in Pieces /\ q \in Pieces /\ r \in Pieces
    <2>1. Start(A, 0, c)
      BY StartTwo DEF Mid
    <2>2. p \in Pieces /\ q \in Pieces /\ r \in Pieces
      BY PieceFacts DEF Txt, Mid
    <2>3. QED BY <2>1, <2>2
  <1>2. <<p, q, r>> = A \o <<r>>
    <2> HIDE DEF p, q, r
    <2>1. QED BY <1>1, PairAndOne
  <1> HIDE DEF A
  <1>3. Start(A \o <<r>>, 0 + m, c)
    BY <1>1, StartPiece
  <1>4. 0 + m = m
    OBVIOUS
  <1>5. QED BY <1>2, <1>3, <1>4

LEMMA StartFour ==
  ASSUME NEW t, NEW c, Txt(t, 0, c), NEW s, Mid(s), NEW v, Mid(v), NEW u \in Toks, NEW m \in Int, Depth(u) = m
  PROVE  Start(<<Piece(t), Piece(s), Piece(v), Piece(u)>>, m, c)
  <1> DEFINE p == Piece(t)
             q == Piece(s)
             x == Piece(v)
             r == Piece(u)
             A == <<p, q, x>>
  <1>1. Start(A, 0, c) /\ p \in Pieces /\ q \in Pieces /\ x \in Pieces /\ r \in Pieces
    <2>1. Start(A, 0, c)
      BY StartThree DEF Mid
    <2>2. p \in Pieces /\ q \in Pieces /\ x \in Pieces /\ r \in Pieces
      BY PieceFacts DEF Txt, Mid
    <2>3. QED BY <2>1, <2>2
  <1>2. <<p, q, x, r>> = A \o <<r>>
    <2> HIDE DEF p, q, r, x
    <2>1. QED BY <1>1, TripleAndOne
  <1> HIDE DEF A
  <1>3. Start(A \o <<r>>, 0 + m, c)
    BY <1>1, StartPiece
  <1>4. 0 + m = m
    OBVIOUS
  <1>5. QED BY <1>2, <1>3, <1>4

LEMMA StartFive ==
  ASSUME NEW t, NEW c, Txt(t, 0, c), NEW s, Mid(s), NEW v, Mid(v), NEW w, Mid(w),
         NEW u \in Toks, NEW m \in Int, Depth(u) = m
  PROVE  Start(<<Piece(t), Piece(s), Piece(v), Piece(w), Piece(u)>>, m, c)
  <1> DEFINE p == Piece(t)
             q == Piece(s)
             x == Piece(v)
             y == Piece(w)
             r == Piece(u)
             A == <<p, q, x, y>>
  <1>1. Start(A, 0, c) /\ p \in Pieces /\ q \in Pieces /\ x \in Pieces /\ y \in Pieces /\ r \in Pieces
    <2>1. Start(A, 0, c)
      BY StartFour DEF Mid
    <2>2. p \in Pieces /\ q \in Pieces /\ x \in Pieces /\ y \in Pieces /\ r \in Pieces
      BY PieceFacts DEF Txt, Mid
    <2>3. QED BY <2>1, <2>2
  <1>2. <<p, q, x, y, r>> = A \o <<r>>
    <2> HIDE DEF p, q, r, x, y
    <2>1. QED BY <1>1, FourAndOne
  <1> HIDE DEF A
  <1>3. Start(A \o <<r>>, 0 + m, c)
    BY <1>1, StartPiece
  <1>4. 0 + m = m
    OBVIOUS
  <1>5. QED BY <1>2, <1>3, <1>4

\* A line of such pieces.
LEMMA PrintsStart ==
  ASSUME NEW A, NEW n \in Int, NEW c \in {0, 1}, Start(A, n, c)
  PROVE  Prints(OneLine(A), c, c + n)
  BY PrintsOneLine DEF Start

\* Texts without braces or brackets.
LEMMA PlainMid ==
  ASSUME NEW t \in Seq(Plain)
  PROVE  Mid(t) /\ (t # <<>> => Txt(t, 0, 0))
  BY PlainFacts DEF Mid

LEMMA MidConcat ==
  ASSUME NEW t, Mid(t), NEW u, Mid(u)
  PROVE  Mid(t \o u)
  <1>1. t \in Seq(Words) /\ u \in Seq(Words)
    BY DEF Mid, Toks
  <1>2. t \o u \in Seq(Words) /\ Depth(t \o u) = 0
    BY <1>1, DepthConcat DEF Mid
  <1>3. QED BY <1>2 DEF Mid, Toks

LEMMA ExpMid ==
  ASSUME NEW e \in Exps
  PROVE  Mid(e)
  BY ExpFacts DEF Mid

\* A line with a filter of n entries, up to the brace that opens a body (with E) or
\* without one.
LEMMA PrintsFiltered ==
  ASSUME NEW S, Start(S, 0, 0), NEW e \in Exps, NEW n \in Nat, NEW E \in Seq(Pieces), NEW m \in Int,
         Depth(Written(E)) = m
  PROVE  Prints(OneLine((S \o Filters(e, n)) \o E), 0, m)
  <1>1. S \in Seq(Pieces) /\ S \in Seq(Instructions) /\ E \in Seq(Instructions)
    BY PieceFacts DEF Start
  <1>2. CASE n = 0
    <2>1. S \o Filters(e, n) = S
      <3>1. Filters(e, n) = <<>>
        BY <1>2 DEF Filters
      <3>2. S \o <<>> = S
        BY <1>1
      <3>3. QED BY <3>1, <3>2
    <2>2. Start(S \o E, 0 + m, 0)
      BY StartMore
    <2>3. Prints(OneLine(S \o E), 0, 0 + m)
      <3>1. 0 + m = m
        OBVIOUS
      <3> DEFINE A == S \o E
      <3>2. Start(A, m, 0)
        BY <2>2, <3>1
      <3> HIDE DEF A
      <3>3. Prints(OneLine(A), 0, 0 + m)
        BY <3>2, PrintsStart
      <3>4. QED BY <3>3 DEF A
    <2>4. 0 + m = m
      OBVIOUS
    <2>5. QED BY <2>1, <2>3, <2>4
  <1>3. CASE n # 0
    <2> DEFINE f == <<"filtered", "{">>
               g == <<"}">>
               entry == <<"f", "->">> \o e
               F == <<Piece(f)>>
               G == <<Piece(g)>>
               Q == Entries(entry, n)
               N == Nested(Q)
    <2>1. Txt(g, 0 - 1, 1)
      BY BracketFacts
    <2>2. f \in Toks /\ Depth(f) = 1
      <3> DEFINE a == <<"filtered">>
                 b == <<"{">>
      <3>1. a \in Seq(Plain) /\ a # <<>>
        BY DEF Plain, Literals, Openers, Closers
      <3>2. f = a \o b
        <4> DEFINE A == {"filtered", "{"}
        <4>1. "filtered" \in A /\ "{" \in A
          OBVIOUS
        <4> HIDE DEF A
        <4>2. QED BY <4>1, Pair
      <3>3. b \in Toks /\ Depth(b) = 1
        BY BracketFacts DEF Txt
      <3> HIDE DEF a, b, f
      <3>4. Txt(a \o b, 0 + 1, 0)
        BY <3>1, <3>3, PlainFacts, TxtConcat
      <3>5. QED BY <3>2, <3>4 DEF Txt
    <2>3. Prints(Q, 0, 0)
      <3> DEFINE a == <<"f", "->">>
      <3>1. a \in Seq(Plain) /\ a # <<>>
        BY DEF Plain, Literals, Openers, Closers
      <3>2. Txt(a \o e, 0 + 0, 0)
        <4> HIDE DEF a
        <4>1. QED BY <3>1, PlainFacts, ExpFacts, TxtConcat
      <3>3. Txt(entry, 0, 0)
        BY <3>2
      <3> HIDE DEF entry
      <3>4. QED BY <3>3, PrintsEntries
    <2>4. Filters(e, n) = (F \o N) \o G
      BY <1>3 DEF Filters
    <2> HIDE DEF f, g
    <2>5. Start(S \o F, 1, 0) /\ F \in Seq(Pieces)
      <3>1. Start(S \o <<Piece(f)>>, 0 + 1, 0)
        BY <2>2, StartPiece
      <3>2. QED BY <2>2, <3>1, PieceFacts
    <2>6. Start(G, 0 - 1, 1)
      BY <2>1, StartOne
    <2> HIDE DEF F, G, Q
    <2>7. Start(G \o E, (0 - 1) + m, 1)
      BY <2>6, StartMore
    <2>8. /\ N \in Seq(Instructions) /\ F \in Seq(Instructions) /\ G \in Seq(Instructions)
          /\ S \o F \in Seq(Pieces) /\ G \o E \in Seq(Pieces)
      BY <2>3, <2>5, <2>6, <2>7, NestedFacts, PieceFacts DEF Prints, Start
    <2> HIDE DEF N
    <2>9. (S \o ((F \o N) \o G)) \o E = ((S \o F) \o N) \o (G \o E)
      <3> DEFINE FN == F \o N
                 SFN == S \o FN
      <3>1. FN \in Seq(Instructions)
        BY <1>1, <2>8
      <3>2. FN = F \o N /\ S \o FN = (S \o F) \o N
        BY <1>1, <2>8, ProgramAssoc
      <3> HIDE DEF FN
      <3>3. SFN \in Seq(Instructions)
        BY <1>1, <3>1
      <3>4. S \o (FN \o G) = SFN \o G
        BY <1>1, <2>8, <3>1, ProgramAssoc
      <3> HIDE DEF SFN
      <3>5. (SFN \o G) \o E = SFN \o (G \o E)
        BY <1>1, <2>8, <3>3, ProgramAssoc
      <3>6. QED BY <3>2, <3>4, <3>5 DEF SFN
    <2> DEFINE A == S \o F
               B == G \o E
    <2>10. /\ A \in Seq(Pieces) /\ B \in Seq(Pieces) /\ Txt(Written(A), 1, 0)
           /\ Txt(Written(B), (0 - 1) + m, 1)
      BY <2>5, <2>7 DEF Start
    <2>11. N = Nested(Q)
      BY DEF N
    <2> HIDE DEF A, B
    <2>12. Prints(OneLine((A \o Nested(Q)) \o B), 0, 1 + ((0 - 1) + m))
      BY <2>3, <2>10, PrintsAround
    <2>13. 1 + ((0 - 1) + m) = m
      OBVIOUS
    <2>14. QED BY <2>4, <2>9, <2>11, <2>12, <2>13 DEF A, B
  <1>4. QED BY <1>2, <1>3

-----------------------------------------------------------------------------
(* Blocks.                                                                  *)

LEMMA OpensBrace ==
  ASSUME NEW t \in Seq(Plain), t # <<>>
  PROVE  Txt(t \o <<"{">>, 1, 0) /\ Txt(t \o <<"[">>, 1, 0)
  <1> DEFINE a == <<"{">>
             b == <<"[">>
  <1>1. a \in Toks /\ Depth(a) = 1 /\ b \in Toks /\ Depth(b) = 1
    BY BracketFacts DEF Txt
  <1>2. Txt(t, 0, 0)
    BY PlainFacts
  <1> HIDE DEF a, b
  <1>3. Txt(t \o a, 0 + 1, 0) /\ Txt(t \o b, 0 + 1, 0)
    BY <1>1, <1>2, TxtConcat
  <1>4. 0 + 1 = 1
    OBVIOUS
  <1>5. QED BY <1>3, <1>4 DEF a, b

\* The piece that opens a body.
Brace == <<Piece(<<"{">>)>>

LEMMA BraceFacts == Brace \in Seq(Pieces) /\ Depth(Written(Brace)) = 1
  <1> DEFINE t == <<"{">>
  <1>1. t \in Toks /\ Depth(t) = 1
    BY BracketFacts DEF Txt
  <1> HIDE DEF t
  <1>2. <<Piece(t)>> \in Seq(Pieces) /\ Written(<<Piece(t)>>) = t
    BY <1>1, PieceFacts
  <1>3. QED BY <1>1, <1>2 DEF Brace, t

\* A line in pieces that opens a body.
LEMMA PrintsOpening ==
  ASSUME NEW A, Start(A, 0, 0)
  PROVE  Prints(OneLine(A \o Brace), 0, 1)
  <1> DEFINE B == A \o Brace
  <1>1. Start(B, 0 + 1, 0)
    BY BraceFacts, StartMore
  <1> HIDE DEF B
  <1>2. Prints(OneLine(B), 0, 0 + 1)
    BY <1>1, PrintsStart
  <1>3. QED BY <1>2 DEF B

LEMMA PrintsBody ==
  ASSUME NEW A, NEW cs \in Seq(A), \A i \in DOMAIN cs : Sound(cs[i])
  PROVE  Prints(Body(cs), 1, 0)
  <1> DEFINE N == Nested(PrintCommands(cs))
             R == <<Line(<<"}">>)>>
  <1>1. Prints(N, 1, 1) /\ Prints(R, 1, 0)
    BY PrintsCommands, PrintsNested, EndLine
  <1>2. Body(cs) = N \o R
    BY DEF Body
  <1> HIDE DEF N, R
  <1>3. Prints(N \o R, 1, 0)
    BY <1>1, PrintsConcat
  <1>4. QED BY <1>2, <1>3

\* A line that opens, nested lines and the closing brace.
LEMMA PrintsBraces ==
  ASSUME NEW L, Prints(L, 0, 1), NEW Q, Prints(Q, 0, 0)
  PROVE  Prints((L \o Nested(Q)) \o <<Line(<<"}">>)>>, 0, 0)
  <1> DEFINE N == Nested(Q)
             R == <<Line(<<"}">>)>>
  <1>1. Prints(N, 1, 1) /\ Prints(R, 1, 0)
    BY PrintsNested, EndLine
  <1> HIDE DEF N, R
  <1>2. Prints((L \o N) \o R, 0, 0)
    BY <1>1, PrintsThree
  <1>3. QED BY <1>2 DEF N, R

Commands == [type : SimpleTypes \cup {"if", "block"}, printed : Seq(Instructions), elif : Seq(Instructions)]

\* What BasicBlock makes of the commands.
SoundBlock(b) ==
  /\ b.type \in BlockTypes /\ b.n \in Nat /\ b.exp \in Exps
  /\ b.cmds \in Seq(Commands)
  /\ \A i \in DOMAIN b.cmds : Sound(b.cmds[i])

LEMMA RulePrints ==
  ASSUME NEW b, SoundBlock(b)
  PROVE  Prints(PrintRule(b), 0, 0)
  <1> DEFINE t == <<"rule", "r", "(", ")">>
             S == <<Piece(t)>>
             L == OneLine((S \o Filters(b.exp, b.n)) \o Brace)
             R == Body(b.cmds)
  <1>1. t \in Seq(Plain) /\ t # <<>>
    BY DEF Plain, Literals, Openers, Closers
  <1>2. PrintRule(b) = L \o R
    BY DEF PrintRule, Brace
  <1>3. Prints(R, 1, 0)
    BY PrintsBody DEF SoundBlock
  <1> HIDE DEF t
  <1>4. Start(S, 0, 0)
    BY <1>1, PlainFacts, StartOne
  <1>5. Prints(L, 0, 1)
    <2> HIDE DEF S
    <2>1. QED BY <1>4, BraceFacts, PrintsFiltered DEF SoundBlock
  <1> HIDE DEF L, R
  <1>6. Prints(L \o R, 0, 0)
    BY <1>3, <1>5, PrintsConcat
  <1>7. QED BY <1>2, <1>6

LEMMA FunctionPrints ==
  ASSUME NEW b, SoundBlock(b)
  PROVE  Prints(PrintFunction(b), 0, 0)
  <1> DEFINE x == "function"
             y == "g"
             z == "("
             w == ")"
             v == "{"
             t == <<x, y, z, w>>
             u == <<x, y, z, w, v>>
             L == <<Line(u)>>
             R == Body(b.cmds)
  <1>1. t \in Seq(Plain) /\ t # <<>>
    BY DEF Plain, Literals, Openers, Closers
  <1>2. u = t \o <<v>>
    <2> HIDE DEF x, y, z, w, v
    <2> DEFINE S == {x, y, z, w, v}
    <2>1. x \in S /\ y \in S /\ z \in S /\ w \in S /\ v \in S
      OBVIOUS
    <2> HIDE DEF S
    <2>2. QED BY <2>1, FourAndOne
  <1>3. PrintFunction(b) = L \o R
    BY DEF PrintFunction
  <1> HIDE DEF t, u
  <1>4. Txt(u, 1, 0)
    BY <1>1, <1>2, OpensBrace
  <1>5. Prints(L, 0, 1)
    <2>1. Prints(<<Line(u)>>, 0, 0 + 1)
      BY <1>4, PrintsTxt
    <2>2. QED BY <2>1
  <1>6. Prints(R, 1, 0)
    BY PrintsBody DEF SoundBlock
  <1> HIDE DEF L, R
  <1>7. Prints(L \o R, 0, 0)
    BY <1>5, <1>6, PrintsConcat
  <1>8. QED BY <1>3, <1>7

LEMMA SlotMid == Mid(SlotPattern)
  <1> DEFINE s == SlotPattern
             O == {i \in DOMAIN s : s[i] \in Openers}
             C == {i \in DOMAIN s : s[i] \in Closers}
  <1>1. s \in Seq(Words)
    BY DEF SlotPattern, Words, Literals
  <1>2. O = {2, 7} /\ C = {6, 11}
    <2>1. DOMAIN s = 1..13
      BY DEF SlotPattern
    <2>2. /\ s[2] \in Openers /\ s[7] \in Openers /\ s[6] \in Closers /\ s[11] \in Closers
          /\ \A i \in {1, 3, 4, 5, 8, 9, 10, 12, 13} : s[i] \notin Openers \cup Closers
      BY DEF SlotPattern, Openers, Closers
    <2>3. Openers \cap Closers = {}
      BY DEF Openers, Closers
    <2>4. \A i \in 1..13 : i \in {2, 7} \/ i \in {6, 11} \/ i \in {1, 3, 4, 5, 8, 9, 10, 12, 13}
      OBVIOUS
    <2>5. {2, 7} \subseteq 1..13 /\ {6, 11} \subseteq 1..13
      OBVIOUS
    <2> HIDE DEF s
    <2>6. \A i \in 1..13 : (s[i] \in Openers <=> i \in {2, 7}) /\ (s[i] \in Closers <=> i \in {6, 11})
      BY <2>2, <2>3, <2>4
    <2>7. QED BY <2>1, <2>5, <2>6
  <1>3. Cardinality({2, 7}) = 2 /\ Cardinality({6, 11}) = 2
    <2>1. ASSUME NEW x \in Int, NEW y \in Int, x # y
          PROVE  Cardinality({x, y}) = 2
      <3>1. IsFiniteSet({x}) /\ Cardinality({x}) = 1
        BY FS_Singleton
      <3>2. Cardinality({x} \cup {y}) = 1 + 1
        BY <2>1, <3>1, FS_AddElement
      <3>3. {x, y} = {x} \cup {y}
        OBVIOUS
      <3>4. QED BY <3>2, <3>3
    <2>2. QED BY <2>1
  <1>4. Depth(s) = Cardinality(O) - Cardinality(C)
    BY DEF Depth
  <1> HIDE DEF O, C
  <1>5. Depth(s) = 0
    BY <1>2, <1>3, <1>4
  <1>6. QED BY <1>1, <1>5 DEF Mid, Toks

LEMMA HookStart ==
  ASSUME NEW n \in Nat
  PROVE  Start(HookPattern(n), 0, 0)
  <1> DEFINE p == SlotPattern
             load == <<"Sload">>
             store == <<"Sstore">>
             call == <<"CALL">>
             v == <<"uint256", "v">>
             old == <<"uint256", "old">>
             rc == <<"uint256", "rc">>
             arg == <<"(", "uint256", "g", ")">>
  <1>1. load \in Seq(Plain) /\ store \in Seq(Plain) /\ call \in Seq(Plain) /\ load # <<>> /\ store # <<>> /\ call # <<>>
    BY DEF Plain, Literals, Openers, Closers
  <1>2. v \in Seq(Plain) /\ old \in Seq(Plain) /\ rc \in Seq(Plain)
    BY DEF Plain, Literals, Openers, Closers
  <1>3. arg \in Seq(Plain)
    BY DEF Plain, Literals, Openers, Closers
  <1>4. /\ n = 0 => HookPattern(n) = <<Piece(load), Piece(v), Piece(p)>>
        /\ n = 1 => HookPattern(n) = <<Piece(store), Piece(p), Piece(v), Piece(old)>>
        /\ n \notin {0, 1} => HookPattern(n) = <<Piece(call), Piece(arg), Piece(rc)>>
    BY DEF HookPattern
  <1> HIDE DEF p, load, store, call, v, old, rc, arg
  <1>5. Mid(p)
    BY SlotMid DEF p
  <1>6. Txt(load, 0, 0) /\ Txt(store, 0, 0) /\ Txt(call, 0, 0) /\ Mid(v) /\ Mid(old) /\ Mid(rc) /\ Mid(arg)
    BY <1>1, <1>2, <1>3, PlainMid
  <1>7. Start(<<Piece(load), Piece(v), Piece(p)>>, 0, 0)
    BY <1>5, <1>6, StartThree DEF Mid
  <1>8. Start(<<Piece(store), Piece(p), Piece(v), Piece(old)>>, 0, 0)
    BY <1>5, <1>6, StartFour DEF Mid
  <1>9. Start(<<Piece(call), Piece(arg), Piece(rc)>>, 0, 0)
    BY <1>5, <1>6, StartThree DEF Mid
  <1>10. QED BY <1>4, <1>7, <1>8, <1>9

LEMMA HookPrints ==
  ASSUME NEW b, SoundBlock(b)
  PROVE  Prints(PrintHook(b), 0, 0)
  <1> DEFINE t == <<"hook">>
             H == HookPattern(b.n)
             S == <<Piece(t)>> \o H
             L == OneLine(S \o Brace)
             R == Body(b.cmds)
  <1>1. t \in Seq(Plain) /\ t # <<>>
    BY DEF Plain, Literals, Openers, Closers
  <1>2. PrintHook(b) = L \o R
    BY DEF PrintHook, Brace
  <1>3. Prints(R, 1, 0)
    BY PrintsBody DEF SoundBlock
  <1> HIDE DEF t
  <1>4. Start(S, 0, 0)
    <2>1. H \in Seq(Pieces) /\ Depth(Written(H)) = 0
      BY HookStart DEF SoundBlock, Start, Txt
    <2> HIDE DEF H
    <2> DEFINE A == <<Piece(t)>>
    <2>2. Start(A, 0, 0)
      BY <1>1, PlainFacts, StartOne
    <2> HIDE DEF A
    <2>3. Start(A \o H, 0 + 0, 0)
      BY <2>1, <2>2, StartMore
    <2>4. QED BY <2>3 DEF A
  <1>5. Prints(L, 0, 1)
    <2> HIDE DEF S
    <2>1. QED BY <1>4, PrintsOpening
  <1> HIDE DEF L, R
  <1>6. Prints(L \o R, 0, 0)
    BY <1>3, <1>5, PrintsConcat
  <1>7. QED BY <1>2, <1>6

LEMMA ProofPrints ==
  ASSUME NEW target, Mid(target), NEW A, NEW cs \in Seq(A), \A i \in DOMAIN cs : Sound(cs[i])
  PROVE  Prints(PrintProof(target, cs), 0, 0)
  <1> DEFINE t == <<"preserved">>
             w == <<"with", "(", "env", "e", ")">>
             o == <<"{">>
             M == <<Piece(t), Piece(target), Piece(w), Piece(o)>>
             L == OneLine(M)
             R == Body(cs)
  <1>1. t \in Seq(Plain) /\ t # <<>> /\ w \in Seq(Plain)
    BY DEF Plain, Literals, Openers, Closers
  <1>2. o \in Toks /\ Depth(o) = 1
    BY BracketFacts DEF Txt
  <1>3. PrintProof(target, cs) = L \o R
    BY DEF PrintProof
  <1>4. Prints(R, 1, 0)
    BY PrintsBody
  <1> HIDE DEF t, w, o
  <1>5. Txt(t, 0, 0) /\ Mid(w)
    BY <1>1, PlainMid
  <1>6. Start(M, 1, 0)
    BY <1>2, <1>5, StartFour
  <1>7. Prints(L, 0, 1)
    <2> HIDE DEF M
    <2>1. Prints(OneLine(M), 0, 0 + 1)
      BY <1>6, PrintsStart
    <2>2. QED BY <2>1
  <1> HIDE DEF L, R
  <1>8. Prints(L \o R, 0, 0)
    BY <1>4, <1>7, PrintsConcat
  <1>9. QED BY <1>3, <1>8

LEMMA TargetsMid ==
  ASSUME NEW n
  PROVE  Targets(n) \in Seq({t \in Seq(Plain) : Mid(t)})
  <1> DEFINE none == <<>>
             a == <<"constructor", "(", ")">>
             b == <<"fallback", "(", ")">>
             c == <<"C", ".", "m", "(", ")">>
             M == {t \in Seq(Plain) : Mid(t)}
  <1>1. none \in Seq(Plain) /\ a \in Seq(Plain) /\ b \in Seq(Plain) /\ c \in Seq(Plain)
    BY DEF Plain, Literals, Openers, Closers
  <1>2. Targets(n) = IF n = 1 THEN <<none>> ELSE <<none, a, b, c>>
    BY DEF Targets
  <1> HIDE DEF none, a, b, c
  <1>3. none \in M /\ a \in M /\ b \in M /\ c \in M
    BY <1>1, PlainMid
  <1> HIDE DEF M
  <1>4. <<none>> \in Seq(M) /\ <<none, a, b, c>> \in Seq(M)
    BY <1>3
  <1>5. QED BY <1>2, <1>4 DEF M

LEMMA InvariantPrints ==
  ASSUME NEW b, SoundBlock(b)
  PROVE  Prints(PrintInvariant(b), 0, 0)
  <1> DEFINE a == <<"invariant", "i">>
             t == a \o b.exp
             S == <<Piece(t)>>
             k == IF b.n > 1 THEN 1 ELSE 0
             F == Filters(b.exp, k)
             T == Targets(b.n)
             P == [i \in DOMAIN T |-> PrintProof(T[i], b.cmds)]
             Q == FlattenSeq(P)
             L == OneLine((S \o F) \o Brace)
             R == <<Line(<<"}">>)>>
  <1>1. a \in Seq(Plain) /\ a # <<>>
    BY DEF Plain, Literals, Openers, Closers
  <1>2. /\ b.n = 0 => PrintInvariant(b) = OneLine(S \o F)
        /\ b.n # 0 => PrintInvariant(b) = (L \o Nested(Q)) \o R
    BY DEF PrintInvariant, Brace
  <1>3. Start(S, 0, 0)
    <2> HIDE DEF a
    <2>1. Txt(t, 0 + 0, 0)
      BY <1>1, PlainFacts, ExpFacts, TxtConcat DEF SoundBlock
    <2> HIDE DEF t
    <2>2. Txt(t, 0, 0)
      BY <2>1
    <2>3. QED BY <2>2, StartOne
  <1> HIDE DEF a, t, S
  <1>4. Prints(L, 0, 1)
    <2>1. k \in Nat
      OBVIOUS
    <2> HIDE DEF k
    <2>2. QED BY <1>3, <2>1, BraceFacts, PrintsFiltered DEF SoundBlock
  <1>5. Prints(Q, 0, 0)
    <2>1. T \in Seq({x \in Seq(Plain) : Mid(x)})
      BY TargetsMid
    <2> HIDE DEF T
    <2>2. DOMAIN T = 1..Len(T) /\ Len(T) \in Nat /\ \A i \in DOMAIN T : Mid(T[i])
      BY <2>1
    <2>3. \A i \in DOMAIN T : Prints(PrintProof(T[i], b.cmds), 0, 0)
      BY <2>2, ProofPrints DEF SoundBlock
    <2>4. \A i \in DOMAIN T : PrintProof(T[i], b.cmds) \in Seq(Instructions)
      BY <2>3 DEF Prints
    <2>5. P \in Seq(Seq(Instructions)) /\ DOMAIN P = DOMAIN T /\ \A i \in DOMAIN T : P[i] = PrintProof(T[i], b.cmds)
      BY <2>2, <2>4
    <2> HIDE DEF P
    <2>6. \A i \in DOMAIN P : Prints(P[i], 0, 0)
      BY <2>3, <2>5
    <2>7. QED BY <2>5, <2>6, PrintsFlatten
  <1>6. CASE b.n = 0
    <2>1. S \o F = S
      <3>1. S \in Seq(Pieces)
        BY <1>3 DEF Start
      <3>2. F = <<>>
        BY <1>6 DEF Filters
      <3>3. S \o <<>> = S
        BY <3>1
      <3>4. QED BY <3>2, <3>3
    <2>2. Prints(OneLine(S), 0, 0 + 0)
      BY <1>3, PrintsStart
    <2> HIDE DEF F
    <2>3. Prints(OneLine(S), 0, 0)
      BY <2>2
    <2>4. QED BY <1>2, <1>6, <2>1, <2>3
  <1>7. CASE b.n # 0
    <2> HIDE DEF L, Q
    <2>1. Prints((L \o Nested(Q)) \o R, 0, 0)
      BY <1>4, <1>5, PrintsBraces
    <2>2. QED BY <1>2, <1>7, <2>1
  <1>8. QED BY <1>6, <1>7

LEMMA GhostPrints ==
  ASSUME NEW b, SoundBlock(b)
  PROVE  Prints(PrintGhost(b), 0, 0)
  <1> DEFINE p == <<"persistent">>
             g == <<"ghost">>
             v == <<"uint256", "v">>
             o == <<";">>
             S == <<Piece(p), Piece(g), Piece(v)>>
             M == S \o <<Piece(o)>>
             x == <<"axiom">>
             y == (x \o b.exp) \o o
             T == [i \in 1..b.n |-> y]
             Q == LinesOf(T)
             L == OneLine(S \o Brace)
             R == <<Line(<<"}">>)>>
  <1>1. /\ p \in Seq(Plain) /\ p # <<>> /\ g \in Seq(Plain) /\ v \in Seq(Plain) /\ o \in Seq(Plain)
        /\ x \in Seq(Plain) /\ x # <<>>
    BY DEF Plain, Literals, Openers, Closers
  <1>2. /\ b.n = 0 => PrintGhost(b) = OneLine(M)
        /\ b.n # 0 => PrintGhost(b) = (L \o Nested(Q)) \o R
    BY DEF PrintGhost, Brace
  <1> HIDE DEF p, g, v, o, x
  <1>3. Txt(p, 0, 0) /\ Mid(g) /\ Mid(v) /\ Mid(o) /\ Txt(x, 0, 0)
    BY <1>1, PlainMid
  <1>4. Start(S, 0, 0)
    BY <1>3, StartThree DEF Mid
  <1> HIDE DEF S
  <1>5. Prints(OneLine(M), 0, 0)
    <2>1. Start(S \o <<Piece(o)>>, 0 + 0, 0)
      BY <1>3, <1>4, StartPiece DEF Mid
    <2> HIDE DEF M
    <2>2. Start(M, 0, 0)
      BY <2>1 DEF M
    <2>3. Prints(OneLine(M), 0, 0 + 0)
      BY <2>2, PrintsStart
    <2>4. QED BY <2>3
  <1>6. Prints(L, 0, 1)
    BY <1>4, PrintsOpening
  <1>7. Prints(Q, 0, 0)
    <2>1. Txt((x \o b.exp) \o o, 0 + 0, 0)
      BY <1>3, TxtAround DEF SoundBlock, Mid
    <2> HIDE DEF y
    <2>2. Txt(y, 0, 0)
      BY <2>1 DEF y
    <2>3. T \in Seq({y})
      BY DEF SoundBlock
    <2> HIDE DEF T
    <2>4. \A z \in {y} : Txt(z, 0, 0)
      BY <2>2
    <2>5. QED BY <2>3, <2>4, PrintsLinesOf
  <1> HIDE DEF L, Q, M
  <1>8. Prints((L \o Nested(Q)) \o R, 0, 0)
    BY <1>6, <1>7, PrintsBraces
  <1>9. QED BY <1>2, <1>5, <1>8

LEMMA OneLinePrints ==
  ASSUME NEW t, Txt(t, 0, 0)
  PROVE  Prints(<<Line(t)>>, 0, 0)
  <1>1. Prints(<<Line(t)>>, 0, 0 + 0)
    BY PrintsTxt
  <1>2. QED BY <1>1

LEMMA MacroPrints ==
  ASSUME NEW b, SoundBlock(b)
  PROVE  Prints(PrintMacro(b), 0, 0)
  <1> DEFINE t == <<"definition", "m", "(", ")", "returns", "uint256", "=">>
             o == <<";">>
             u == (t \o b.exp) \o o
  <1>1. t \in Seq(Plain) /\ t # <<>> /\ o \in Seq(Plain)
    BY DEF Plain, Literals, Openers, Closers
  <1>2. PrintMacro(b) = <<Line(u)>>
    BY DEF PrintMacro
  <1> HIDE DEF t, o
  <1>3. Txt((t \o b.exp) \o o, 0 + 0, 0)
    BY <1>1, PlainFacts, TxtAround DEF SoundBlock
  <1> HIDE DEF u
  <1>4. Txt(u, 0, 0)
    BY <1>3 DEF u
  <1>5. QED BY <1>2, <1>4, OneLinePrints

LEMMA SortPrints == Prints(PrintSort, 0, 0)
  <1> DEFINE t == <<"sort", "S", ";">>
  <1>1. t \in Seq(Plain) /\ t # <<>>
    BY DEF Plain, Literals, Openers, Closers
  <1>2. PrintSort = <<Line(t)>>
    BY DEF PrintSort
  <1> HIDE DEF t
  <1>3. QED BY <1>1, <1>2, PlainFacts, OneLinePrints

LEMMA DispatchPrints ==
  ASSUME NEW n \in Nat
  PROVE  Prints(PrintDispatch(n), 0, 0)
  <1> DEFINE a == <<"unresolved", "external", "in">>
             m == <<"_._">>
             c0 == <<"=>", "DISPATCH">>
             c == <<"=>", "DISPATCH", "[">>
             entry == <<"C._">>
             z == <<"]">>
             d == <<"default", "NONDET">>
             o == <<";">>
             A == <<Piece(a), Piece(m), Piece(c)>>
             B == <<Piece(z), Piece(d), Piece(o)>>
             Q == Entries(entry, n)
  <1>1. a \in Seq(Plain) /\ a # <<>> /\ m \in Seq(Plain) /\ c0 \in Seq(Plain) /\ c0 # <<>>
    BY DEF Plain, Literals, Openers, Closers
  <1>2. entry \in Seq(Plain) /\ entry # <<>> /\ d \in Seq(Plain) /\ o \in Seq(Plain)
    BY DEF Plain, Literals, Openers, Closers
  <1>3. c = c0 \o <<"[">>
    <2> DEFINE x == "=>"
               y == "DISPATCH"
               w == "["
               S == {x, y, w}
    <2>1. x \in S /\ y \in S /\ w \in S
      OBVIOUS
    <2>2. c = <<x, y, w>> /\ c0 \o <<"[">> = <<x, y>> \o <<w>>
      OBVIOUS
    <2> HIDE DEF x, y, w, S, c, c0
    <2>3. QED BY <2>1, <2>2, PairAndOne
  <1>4. PrintDispatch(n) = OneLine((A \o Nested(Q)) \o B)
    BY DEF PrintDispatch
  <1>5. Txt(z, 0 - 1, 1)
    BY BracketFacts
  <1> HIDE DEF a, m, c0, c, entry, z, d, o
  <1>6. Txt(a, 0, 0) /\ Mid(m) /\ Txt(entry, 0, 0) /\ Mid(d) /\ Mid(o)
    BY <1>1, <1>2, PlainMid
  <1>7. c \in Toks /\ Depth(c) = 1
    BY <1>1, <1>3, OpensBrace DEF Txt
  <1>8. Start(A, 1, 0)
    BY <1>6, <1>7, StartThree
  <1>9. Start(B, 0 - 1, 1)
    <2> DEFINE p == Piece(z)
               q == Piece(d)
               r == Piece(o)
               P == <<p>>
               R == <<q>>
               S == <<r>>
    <2>1. Start(P, 0 - 1, 1)
      BY <1>5, StartOne
    <2>2. Mid(d) /\ Mid(o) /\ (0 - 1) + 0 = 0 - 1
      BY <1>6
    <2>3. B = (P \o R) \o S
      <3>1. B = <<p, q, r>>
        OBVIOUS
      <3> HIDE DEF p, q, r, B
      <3>2. <<p, q, r>> = (<<p>> \o <<q>>) \o <<r>>
        BY Triple
      <3>3. QED BY <3>1, <3>2
    <2>4. /\ R \in Seq(Pieces) /\ Written(R) = d
          /\ S \in Seq(Pieces) /\ Written(S) = o
      BY <2>2, PieceFacts DEF Mid
    <2>5. Depth(Written(R)) = 0 /\ Depth(Written(S)) = 0
      BY <2>2, <2>4 DEF Mid
    <2> DEFINE PR == P \o R
    <2> HIDE DEF P, R, S
    <2>6. Start(PR, (0 - 1) + 0, 1)
      BY <2>1, <2>4, <2>5, StartMore
    <2> HIDE DEF PR
    <2>7. Start(PR, 0 - 1, 1)
      BY <2>2, <2>6
    <2>8. Start(PR \o S, (0 - 1) + 0, 1)
      BY <2>4, <2>5, <2>7, StartMore
    <2> HIDE DEF B
    <2>9. QED BY <2>2, <2>3, <2>8 DEF PR
  <1>10. Prints(Q, 0, 0)
    BY <1>6, PrintsEntries
  <1> HIDE DEF A, B, Q
  <1>11. Prints(OneLine((A \o Nested(Q)) \o B), 0, 1 + (0 - 1))
    BY <1>8, <1>9, <1>10, PrintsAround DEF Start
  <1>12. 1 + (0 - 1) = 0
    OBVIOUS
  <1>13. QED BY <1>4, <1>11, <1>12

LEMMA CatchAllPrints == Prints(PrintCatchAll, 0, 0)
  <1> DEFINE a == <<"function", "C._", "external", "=>">>
             m == <<"NONDET">>
             o == <<";">>
             A == <<Piece(a), Piece(m), Piece(o)>>
  <1>1. a \in Seq(Plain) /\ a # <<>> /\ m \in Seq(Plain) /\ o \in Seq(Plain)
    BY DEF Plain, Literals, Openers, Closers
  <1>2. PrintCatchAll = OneLine(A)
    BY DEF PrintCatchAll
  <1> HIDE DEF a, m, o
  <1>3. Txt(a, 0, 0) /\ Mid(m) /\ Mid(o)
    BY <1>1, PlainMid
  <1>4. Start(A, 0, 0)
    BY <1>3, StartThree DEF Mid
  <1> HIDE DEF A
  <1>5. Prints(OneLine(A), 0, 0 + 0)
    BY <1>4, PrintsStart
  <1>6. QED BY <1>2, <1>5

LEMMA ImportedPrints ==
  ASSUME NEW e \in Exps
  PROVE  Prints(PrintImported(e), 0, 0)
  <1> DEFINE a == <<"function">>
             m == <<"m", "(", ")", "external", "returns", "(", ")">>
             g == <<"=>">>
             s0 == <<"ALWAYS", "(">>
             s1 == <<")">>
             s == (s0 \o e) \o s1
             o == <<";">>
             A == <<Piece(a), Piece(m), Piece(g), Piece(s), Piece(o)>>
  <1>1. a \in Seq(Plain) /\ a # <<>> /\ m \in Seq(Plain) /\ g \in Seq(Plain) /\ o \in Seq(Plain)
    BY DEF Plain, Literals, Openers, Closers
  <1>2. s0 \in Seq(Plain) /\ s1 \in Seq(Plain)
    BY DEF Plain, Literals, Openers, Closers
  <1>3. PrintImported(e) = OneLine(A)
    BY DEF PrintImported
  <1> HIDE DEF a, m, g, s0, s1, o
  <1>4. Txt(a, 0, 0) /\ Mid(m) /\ Mid(g) /\ Mid(s0) /\ Mid(s1) /\ Mid(o) /\ Mid(e)
    BY <1>1, <1>2, PlainMid, ExpMid
  <1>5. Mid(s)
    <2> DEFINE u == s0 \o e
    <2>1. Mid(u)
      BY <1>4, MidConcat
    <2> HIDE DEF u
    <2>2. Mid(u \o s1)
      BY <1>4, <2>1, MidConcat
    <2>3. QED BY <2>2 DEF u
  <1> HIDE DEF s
  <1>6. Start(A, 0, 0)
    BY <1>4, <1>5, StartFive DEF Mid
  <1> HIDE DEF A
  <1>7. Prints(OneLine(A), 0, 0 + 0)
    BY <1>6, PrintsStart
  <1>8. QED BY <1>3, <1>7

LEMMA MethodsPrint ==
  ASSUME NEW b, SoundBlock(b)
  PROVE  Prints(PrintMethods(b), 0, 0)
  <1> DEFINE x == "methods"
             y == "{"
             t == <<x>>
             u == <<x, y>>
             L == <<Line(u)>>
             P == PrintDispatch(b.n)
             C == PrintCatchAll
             I == PrintImported(b.exp)
             Q == (P \o C) \o I
             R == <<Line(<<"}">>)>>
  <1>1. t \in Seq(Plain) /\ t # <<>>
    BY DEF Plain, Literals, Openers, Closers
  <1>2. u = t \o <<y>>
    <2> DEFINE S == {x, y}
    <2>1. x \in S /\ y \in S
      OBVIOUS
    <2> HIDE DEF x, y, S
    <2>2. QED BY <2>1, Pair
  <1>3. PrintMethods(b) = (L \o Nested(Q)) \o R
    BY DEF PrintMethods
  <1>4. Prints(P, 0, 0) /\ Prints(C, 0, 0) /\ Prints(I, 0, 0)
    BY DispatchPrints, CatchAllPrints, ImportedPrints DEF SoundBlock
  <1> HIDE DEF t, u, P, C, I
  <1>5. Prints(Q, 0, 0)
    BY <1>4, PrintsThree
  <1>6. Txt(u, 1, 0)
    BY <1>1, <1>2, OpensBrace
  <1>7. Prints(L, 0, 1)
    <2>1. Prints(<<Line(u)>>, 0, 0 + 1)
      BY <1>6, PrintsTxt
    <2>2. QED BY <2>1
  <1> HIDE DEF L, Q
  <1>8. Prints((L \o Nested(Q)) \o R, 0, 0)
    BY <1>5, <1>7, PrintsBraces
  <1>9. QED BY <1>3, <1>8

LEMMA BlockPrints ==
  ASSUME NEW b, SoundBlock(b)
  PROVE  Prints(PrintBlock(b), 0, 0)
  <1>1. CASE b.type = "rule"
    BY <1>1, RulePrints DEF PrintBlock
  <1>2. CASE b.type = "func_def"
    BY <1>2, FunctionPrints DEF PrintBlock
  <1>3. CASE b.type = "hook_def"
    BY <1>3, HookPrints DEF PrintBlock
  <1>4. CASE b.type = "invariant"
    BY <1>4, InvariantPrints DEF PrintBlock
  <1>5. CASE b.type = "ghost_def"
    BY <1>5, GhostPrints DEF PrintBlock
  <1>6. CASE b.type = "macro_def"
    BY <1>6, MacroPrints DEF PrintBlock
  <1>7. CASE b.type = "sort_decl"
    BY <1>7, SortPrints DEF PrintBlock
  <1>8. CASE b.type = "methods_block"
    BY <1>8, MethodsPrint DEF PrintBlock
  <1>9. QED
    BY <1>1, <1>2, <1>3, <1>4, <1>5, <1>6, <1>7, <1>8 DEF SoundBlock, BlockTypes

-----------------------------------------------------------------------------
(* The files that are composed.                                             *)

\* What prints lines at depth 0 is laid out when it is built by itself.
LEMMA PrintsLaidOut ==
  ASSUME NEW P, Prints(P, 0, 0)
  PROVE  LaidOut(P)
  <1> DEFINE b == Builder(0)
             none == <<>>
  <1>1. none \in Seq(BuilderStates) /\ b \in BuilderStates /\ Closed(b) /\ b.indent = 0 /\ b.buffer = <<>>
    BY DEF Builder, BuilderStates, Closed, Toks
  <1>2. Build(P) = Run(St(none, b, FALSE), P)
    <2>1. Fresh = St(none, b, FALSE)
      BY DEF Fresh, St
    <2>2. QED BY <2>1 DEF Build, Run
  <1> HIDE DEF b, none
  <1>3. PICK ls : /\ Laid(ls, b.indent + 0, b.indent + 0) /\ Texts(ls) = Written(P)
                  /\ Run(St(none, b, FALSE), P) = St(none, With(b, ls), FALSE)
    BY <1>1 DEF Prints, PrintsOn
  <1>4. ls \in Seq(BufferLines) /\ 0 + Depth(Texts(ls)) = 0 /\ Even(ls, 0)
    BY <1>1, <1>3 DEF Laid
  <1> DEFINE c == With(b, ls)
             end == Build(P)
  <1>5. c.buffer = ls /\ ~c.open /\ c \in BuilderStates
    <2>1. <<>> \o ls = ls
      BY <1>4
    <2>2. QED BY <1>1, <1>4, <2>1 DEF With, BuilderStates, Closed
  <1>6. end = [builders |-> <<c>>, raised |-> FALSE]
    <2>1. Append(none, c) = <<c>>
      BY <1>5 DEF none
    <2>2. QED BY <1>2, <1>3, <2>1 DEF St
  <1>7. Depth(Texts(ls)) \in Int
    BY <1>4, DepthOfTexts
  <1>8. Depth(Texts(ls)) = 0
    BY <1>4, <1>7
  <1>9. ASSUME NEW k \in DOMAIN ls
        PROVE  LET before == Depth(Texts(SubSeq(ls, 1, k - 1)))
                   closes == ls[k].toks[1] \in Closers
               IN  ls[k].indent = IF closes THEN before - 1 ELSE before
    <2> DEFINE m == Depth(Texts(SubSeq(ls, 1, k - 1)))
    <2>1. m \in Int
      <3>1. k \in 1..Len(ls)
        BY <1>4, <1>9
      <3>2. SubSeq(ls, 1, k - 1) \in Seq(BufferLines)
        BY <1>4, <3>1
      <3>3. QED BY <3>2, DepthOfTexts
    <2>2. ls[k].indent = 0 + m - Closes(ls[k].toks)
      BY <1>4, <1>9 DEF Even
    <2> HIDE DEF m
    <2>3. ls[k].indent = IF ls[k].toks[1] \in Closers THEN m - 1 ELSE m
      BY <2>1, <2>2 DEF Closes
    <2>4. QED BY <2>3 DEF m
  <1> HIDE DEF c, end
  <1>10. ~end.raised /\ Len(end.builders) = 1 /\ end.builders[1] = c
    BY <1>6
  <1>11. QED
    BY <1>3, <1>5, <1>8, <1>9, <1>10 DEF LaidOut, end

BlocksInv ==
  /\ cmds \in Seq(Commands) /\ \A i \in DOMAIN cmds : Sound(cmds[i])
  /\ file = [i \in 1..Len(file) |-> file[i]] /\ Len(file) \in Nat
  /\ \A i \in DOMAIN file : SoundBlock(file[i])

\* Parts of the commands that are sound, and the commands with one more.
LEMMA SoundParts ==
  ASSUME NEW cs \in Seq(Commands), \A i \in DOMAIN cs : Sound(cs[i]), NEW m \in 0..Len(cs), NEW n \in 0..Len(cs)
  PROVE  LET part == SubSeq(cs, m + 1, n)
         IN  part \in Seq(Commands) /\ \A i \in DOMAIN part : Sound(part[i])
  <1> DEFINE part == SubSeq(cs, m + 1, n)
  <1>1. CASE m >= n
    <2>1. part = <<>>
      BY <1>1
    <2>2. QED BY <2>1
  <1>2. CASE m < n
    <2>1. /\ part \in Seq(Commands) /\ Len(part) = n - m
          /\ \A i \in 1..(n - m) : part[i] = cs[i + m] /\ i + m \in DOMAIN cs
      BY <1>2
    <2>2. DOMAIN part = 1..(n - m)
      BY <2>1
    <2>3. QED BY <2>1, <2>2
  <1>3. QED BY <1>1, <1>2

LEMMA SoundAppend ==
  ASSUME NEW cs \in Seq(Commands), \A i \in DOMAIN cs : Sound(cs[i]), NEW c \in Commands, Sound(c)
  PROVE  Append(cs, c) \in Seq(Commands) /\ \A i \in DOMAIN Append(cs, c) : Sound(Append(cs, c)[i])
  <1> DEFINE more == Append(cs, c)
  <1>1. /\ more \in Seq(Commands) /\ Len(more) = Len(cs) + 1 /\ more[Len(cs) + 1] = c
        /\ \A i \in 1..Len(cs) : more[i] = cs[i] /\ i \in DOMAIN cs
    OBVIOUS
  <1>2. DOMAIN more = 1..(Len(cs) + 1) /\ Len(cs) \in Nat
    BY <1>1
  <1>3. \A i \in 1..(Len(cs) + 1) : i \in 1..Len(cs) \/ i = Len(cs) + 1
    BY <1>2
  <1>4. QED BY <1>1, <1>2, <1>3

LEMMA CmdFacts ==
  ASSUME NEW type \in SimpleTypes \cup {"if", "block"}, NEW p, Prints(p, 0, 0), NEW q \in Seq(Instructions),
         type = "if" => Prints(q, 1, 0)
  PROVE  Cmd(type, p, q) \in Commands /\ Sound(Cmd(type, p, q))
  BY DEF Cmd, Commands, Sound, Prints

LEMMA IfFacts ==
  ASSUME NEW cs \in Seq(Commands), \A i \in DOMAIN cs : Sound(cs[i]), NEW e \in Exps, NEW rest, Prints(rest, 1, 0)
  PROVE  If(e, cs, rest) \in Commands /\ Sound(If(e, cs, rest))
  <1> DEFINE p == PrintIf(e, cs, rest, FALSE)
             q == PrintIf(e, cs, rest, TRUE)
             type == "if"
  <1>1. Sound(If(e, cs, rest))
    BY IfSound
  <1>2. If(e, cs, rest) = Cmd(type, p, q)
    BY DEF If
  <1>3. type \in SimpleTypes \cup {"if", "block"}
    OBVIOUS
  <1>4. type = "if"
    OBVIOUS
  <1> HIDE DEF p, q, type
  <1>5. Cmd(type, p, q).type = type /\ Cmd(type, p, q).printed = p /\ Cmd(type, p, q).elif = q
    BY DEF Cmd
  <1>6. Prints(p, 0, 0) /\ Prints(q, 1, 0)
    BY <1>1, <1>2, <1>4, <1>5 DEF Sound
  <1>7. q \in Seq(Instructions)
    BY <1>6 DEF Prints
  <1>8. QED BY <1>2, <1>3, <1>6, <1>7, CmdFacts

\* A command replaces the last n ones.
LEMMA PushKeeps ==
  ASSUME BlocksInv, NEW n \in 0..Len(cmds), NEW c \in Commands, Sound(c), Push(n, c)
  PROVE  BlocksInv'
  <1>1. cmds' = Append(Popped(n), c) /\ file' = file
    BY DEF Push
  <1>2. Popped(n) \in Seq(Commands) /\ \A i \in DOMAIN Popped(n) : Sound(Popped(n)[i])
    <2>1. 0 \in 0..Len(cmds) /\ Len(cmds) - n \in 0..Len(cmds) /\ 0 + 1 = 1
      BY DEF BlocksInv
    <2> DEFINE k == Len(cmds) - n
               zero == 0
    <2> HIDE DEF k, zero
    <2>2. /\ SubSeq(cmds, zero + 1, k) \in Seq(Commands)
          /\ \A i \in DOMAIN SubSeq(cmds, zero + 1, k) : Sound(SubSeq(cmds, zero + 1, k)[i])
      BY <2>1, SoundParts DEF BlocksInv, k, zero
    <2>3. Popped(n) = SubSeq(cmds, zero + 1, k)
      BY DEF Popped, k, zero
    <2>4. QED BY <2>2, <2>3
  <1>3. Append(Popped(n), c) \in Seq(Commands) /\ \A i \in DOMAIN Append(Popped(n), c) : Sound(Append(Popped(n), c)[i])
    BY <1>2, SoundAppend
  <1>4. QED BY <1>1, <1>3 DEF BlocksInv

LEMMA TopSound ==
  ASSUME BlocksInv, NEW n \in 0..Len(cmds)
  PROVE  Top(n) \in Seq(Commands) /\ Len(Top(n)) = n /\ \A i \in DOMAIN Top(n) : Sound(Top(n)[i])
  <1> DEFINE k == Len(cmds) - n
             l == Len(cmds)
  <1>1. k \in 0..Len(cmds) /\ l \in 0..Len(cmds)
    BY DEF BlocksInv
  <1>2. Top(n) = SubSeq(cmds, k + 1, l)
    BY DEF Top
  <1>3. Len(Top(n)) = n
    BY <1>1, <1>2 DEF BlocksInv
  <1> HIDE DEF k, l
  <1>4. SubSeq(cmds, k + 1, l) \in Seq(Commands) /\ \A i \in DOMAIN SubSeq(cmds, k + 1, l) : Sound(SubSeq(cmds, k + 1, l)[i])
    BY <1>1, SoundParts DEF BlocksInv
  <1>5. QED BY <1>2, <1>3, <1>4

\* The commands but for the last k of the last n.
LEMMA TopButSound ==
  ASSUME BlocksInv, NEW n \in 0..Len(cmds), NEW k \in 0..n
  PROVE  LET part == SubSeq(Top(n), 1, n - k)
         IN  part \in Seq(Commands) /\ \A i \in DOMAIN part : Sound(part[i])
  <1> DEFINE cs == Top(n)
             m == n - k
             zero == 0
  <1>1. cs \in Seq(Commands) /\ Len(cs) = n /\ \A i \in DOMAIN cs : Sound(cs[i])
    BY TopSound
  <1>2. m \in 0..n /\ zero \in 0..n
    BY DEF BlocksInv
  <1>3. SubSeq(Top(n), 1, n - k) = SubSeq(cs, zero + 1, m)
    OBVIOUS
  <1> HIDE DEF cs, m, zero
  <1>4. SubSeq(cs, zero + 1, m) \in Seq(Commands) /\ \A i \in DOMAIN SubSeq(cs, zero + 1, m) : Sound(SubSeq(cs, zero + 1, m)[i])
    BY <1>1, <1>2, SoundParts
  <1>5. QED BY <1>3, <1>4

LEMMA BlocksInitInv ==
  ASSUME BlocksInit
  PROVE  BlocksInv
  BY DEF BlocksInit, BlocksInv

LEMMA SimpleKeeps ==
  ASSUME BlocksInv, SimpleCommand
  PROVE  BlocksInv'
  <1>1. PICK type \in SimpleTypes, e \in Exps : Push(0, Cmd(type, <<Line(PrintSimple(type, e))>>, <<>>))
    BY DEF SimpleCommand
  <1> DEFINE t == PrintSimple(type, e)
             p == <<Line(t)>>
             q == <<>>
  <1>2. Txt(t, 0, 0)
    BY SimpleTxt
  <1> HIDE DEF t
  <1>3. Prints(p, 0, 0)
    BY <1>2, OneLinePrints
  <1>4. q \in Seq(Instructions) /\ type # "if"
    BY DEF SimpleTypes
  <1>5. Push(0, Cmd(type, p, q))
    BY <1>1 DEF t
  <1> HIDE DEF p, q
  <1>6. Cmd(type, p, q) \in Commands /\ Sound(Cmd(type, p, q))
    BY <1>3, <1>4, CmdFacts
  <1>7. 0 \in 0..Len(cmds)
    BY DEF BlocksInv
  <1>8. QED BY <1>5, <1>6, <1>7, PushKeeps

LEMMA BlockKeeps ==
  ASSUME BlocksInv, BlockCommand
  PROVE  BlocksInv'
  <1>1. PICK n \in 0..Len(cmds) : Push(n, Cmd("block", PrintBlockCmd(Top(n)), <<>>))
    BY DEF BlockCommand
  <1> DEFINE p == PrintBlockCmd(Top(n))
             q == <<>>
             type == "block"
  <1>2. Prints(p, 0, 0)
    BY TopSound, BlockCmdSound
  <1>3. q \in Seq(Instructions) /\ type # "if" /\ type \in SimpleTypes \cup {"if", "block"}
    OBVIOUS
  <1>4. Push(n, Cmd(type, p, q))
    BY <1>1
  <1> HIDE DEF p, q, type
  <1>5. Cmd(type, p, q) \in Commands /\ Sound(Cmd(type, p, q))
    BY <1>2, <1>3, CmdFacts
  <1>6. QED BY <1>4, <1>5, PushKeeps

LEMMA IfKeeps ==
  ASSUME BlocksInv, IfCommand
  PROVE  BlocksInv'
  <1>1. PICK n \in 0..Len(cmds), e \in Exps :
          \/ Push(n, If(e, Top(n), EndIf))
          \/ \E k \in 0..n : Push(n, If(e, SubSeq(Top(n), 1, n - k), PrintElse(Top(k))))
          \/ /\ n > 0 /\ cmds[Len(cmds)].type = "if"
             /\ Push(n, If(e, SubSeq(Top(n), 1, n - 1), cmds[Len(cmds)].elif))
    BY DEF IfCommand
  <1>2. CASE Push(n, If(e, Top(n), EndIf))
    <2>1. Prints(EndIf, 1, 0)
      BY EndLine DEF EndIf
    <2>2. If(e, Top(n), EndIf) \in Commands /\ Sound(If(e, Top(n), EndIf))
      BY <2>1, TopSound, IfFacts
    <2>3. QED BY <1>2, <2>2, PushKeeps
  <1>3. ASSUME NEW k \in 0..n, Push(n, If(e, SubSeq(Top(n), 1, n - k), PrintElse(Top(k))))
        PROVE  BlocksInv'
    <2> DEFINE part == SubSeq(Top(n), 1, n - k)
               else == Top(k)
               rest == PrintElse(else)
    <2>1. k \in 0..Len(cmds)
      BY DEF BlocksInv
    <2>2. part \in Seq(Commands) /\ \A i \in DOMAIN part : Sound(part[i])
      BY TopButSound
    <2>3. else \in Seq(Commands) /\ \A i \in DOMAIN else : Sound(else[i])
      BY <2>1, TopSound
    <2> HIDE DEF part, else
    <2>4. Prints(rest, 1, 0)
      BY <2>3, ElseSound
    <2>5. Push(n, If(e, part, rest))
      BY <1>3 DEF part, else
    <2> HIDE DEF rest
    <2>6. If(e, part, rest) \in Commands /\ Sound(If(e, part, rest))
      BY <2>2, <2>4, IfFacts
    <2>7. QED BY <2>5, <2>6, PushKeeps
  <1>4. CASE /\ n > 0 /\ cmds[Len(cmds)].type = "if"
             /\ Push(n, If(e, SubSeq(Top(n), 1, n - 1), cmds[Len(cmds)].elif))
    <2> DEFINE part == SubSeq(Top(n), 1, n - 1)
               rest == cmds[Len(cmds)].elif
    <2>1. 1 \in 0..n /\ Len(cmds) \in DOMAIN cmds
      BY <1>4 DEF BlocksInv
    <2>2. part \in Seq(Commands) /\ \A i \in DOMAIN part : Sound(part[i])
      BY <2>1, TopButSound
    <2>3. Prints(rest, 1, 0)
      BY <1>4, <2>1 DEF BlocksInv, Sound
    <2>4. Push(n, If(e, part, rest))
      BY <1>4
    <2> HIDE DEF part, rest
    <2>5. If(e, part, rest) \in Commands /\ Sound(If(e, part, rest))
      BY <2>2, <2>3, IfFacts
    <2>6. QED BY <2>4, <2>5, PushKeeps
  <1>5. QED BY <1>1, <1>2, <1>3, <1>4

LEMMA BasicBlockKeeps ==
  ASSUME BlocksInv, BasicBlock
  PROVE  BlocksInv'
  <1>1. PICK type \in BlockTypes, n \in 0..MaxParts, e \in Exps :
          file' = Append(file, [type |-> type, n |-> n, exp |-> e, cmds |-> cmds])
    BY DEF BasicBlock
  <1>2. cmds' = <<>>
    BY DEF BasicBlock
  <1> DEFINE b == [type |-> type, n |-> n, exp |-> e, cmds |-> cmds]
  <1>3. SoundBlock(b)
    <2>1. MaxParts \in Nat
      BY BlocksAssumption
    <2>2. n \in Nat
      BY <2>1
    <2>3. QED BY <2>2 DEF SoundBlock, BlocksInv
  <1> HIDE DEF b
  <1> DEFINE S == {file[i] : i \in DOMAIN file} \cup {b}
             m == Len(file)
             more == Append(file, b)
  <1>4. file = [i \in 1..m |-> file[i]] /\ m \in Nat /\ DOMAIN file = 1..m
    BY DEF BlocksInv
  <1>5. file \in Seq(S) /\ b \in S
    BY <1>4
  <1> HIDE DEF S, m
  <1>6. m = Len(file)
    BY DEF m
  <1>7. /\ more \in Seq(S) /\ Len(more) = m + 1 /\ more[m + 1] = b
        /\ \A i \in 1..m : more[i] = file[i]
    BY <1>5, <1>6
  <1> HIDE DEF more
  <1>8. DOMAIN more = 1..(m + 1) /\ more = [i \in 1..Len(more) |-> more[i]] /\ Len(more) \in Nat
    BY <1>7
  <1>9. \A i \in DOMAIN more : SoundBlock(more[i])
    <2>1. \A i \in 1..m : SoundBlock(file[i])
      BY <1>4 DEF BlocksInv
    <2>2. \A i \in 1..(m + 1) : i \in 1..m \/ i = m + 1
      BY <1>4
    <2>3. QED BY <1>3, <1>7, <1>8, <2>1, <2>2
  <1>10. file' = more
    BY <1>1 DEF more, b
  <1>11. cmds' \in Seq(Commands) /\ \A i \in DOMAIN cmds' : Sound(cmds'[i])
    BY <1>2
  <1>12. QED BY <1>8, <1>9, <1>10, <1>11 DEF BlocksInv

LEMMA BlocksNextInv ==
  ASSUME BlocksInv, [BlocksNext]_blocksVars
  PROVE  BlocksInv'
  <1>1. CASE SimpleCommand
    BY <1>1, SimpleKeeps
  <1>2. CASE BlockCommand
    BY <1>2, BlockKeeps
  <1>3. CASE IfCommand
    BY <1>3, IfKeeps
  <1>4. CASE BasicBlock
    BY <1>4, BasicBlockKeeps
  <1>5. CASE UNCHANGED blocksVars
    BY <1>5 DEF BlocksInv, blocksVars
  <1>6. QED BY <1>1, <1>2, <1>3, <1>4, <1>5 DEF BlocksNext

\* Whatever the commands and blocks of a file, however deep they nest and however many
\* parts they have, its lines hold what the printers wrote, in that order, and are
\* indented by the braces and brackets that are open (pretty_print.py: LineBuilder).
THEOREM BlocksAreLaidOut == BlocksSpec => []BlocksLaidOut
  <1>1. BlocksInit => BlocksInv
    BY BlocksInitInv
  <1>2. BlocksInv /\ [BlocksNext]_blocksVars => BlocksInv'
    BY BlocksNextInv
  <1>3. BlocksInv => BlocksLaidOut
    <2> SUFFICES ASSUME BlocksInv PROVE BlocksLaidOut
      OBVIOUS
    <2>1. Prints(PrintCommands(cmds), 0, 0)
      BY PrintsCommands DEF BlocksInv
    <2>2. \A i \in DOMAIN file : Prints(PrintBlock(file[i]), 0, 0)
      BY BlockPrints DEF BlocksInv
    <2>3. QED BY <2>1, <2>2, PrintsLaidOut DEF BlocksLaidOut
  <1>4. QED BY <1>1, <1>2, <1>3, PTL DEF BlocksSpec
=============================================================================
