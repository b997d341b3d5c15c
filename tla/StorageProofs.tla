---------------------------- MODULE StorageProofs ----------------------------
(***************************************************************************)
(* Facts about what the stores are built from: loops over sequences,       *)
(* written as recursive functions.  Induction is over a set of numbers     *)
(* instead of a predicate, which the provers can instantiate.              *)
(***************************************************************************)
EXTENDS Storage, SequencesExt, FiniteSetTheorems, WellFoundedInduction, TLAPS

\* Induction, over a set of numbers instead of a predicate.
LEMMA Induction ==
    ASSUME NEW n \in Nat, NEW T, 0 \in T, \A i \in 1..n : i - 1 \in T => i \in T
    PROVE  \A i \in 0..n : i \in T
<1> SUFFICES ASSUME NEW i \in 0..n, i \notin T PROVE FALSE
  OBVIOUS
<1> DEFINE Bad == {j \in 0..n : j \notin T}
<1>1. Bad \subseteq Nat /\ Bad # {}
  OBVIOUS
<1>2. PICK m \in Bad : \A k \in Bad : ~(<<k, m>> \in OpToRel(<, Nat))
  BY <1>1, NatLessThanWellFounded, WFMin
<1>3. m # 0 /\ m - 1 \in 0..n /\ m \in 1..n
  OBVIOUS
<1>4. m - 1 \in Bad
  BY <1>3
<1>5. <<m - 1, m>> \in OpToRel(<, Nat)
  BY <1>3 DEF OpToRel
<1> QED
  BY <1>2, <1>4, <1>5

\* An ordered query returns every row of a finite table once.
LEMMA OrderedEnumerates ==
    ASSUME NEW S, IsFiniteSet(S), NEW rank, NEW s \in Ordered(S, rank)
    PROVE  /\ s \in Seq(S)
           /\ Len(s) = Cardinality(S)
           /\ DOMAIN s = 1..Len(s)
           /\ \A x \in S : \E i \in 1..Len(s) : s[i] = x
<1> DEFINE n == Cardinality(S)
<1>1. n \in Nat
  BY FS_CardinalityType
<1>2. /\ s \in [1..n -> S]
      /\ \A i, j \in 1..n : i < j => s[i] # s[j]
  BY DEF Ordered
<1>3. s \in Seq(S) /\ Len(s) = n
  BY <1>1, <1>2
<1>4. s \in Injection(1..n, S)
  BY <1>1, <1>2 DEF Injection, IsInjective
<1>5. Cardinality(1..n) = n
  BY <1>1, FS_Interval
<1>6. s \in Surjection(1..n, S)
  BY <1>4, <1>5, FS_Injection
<1> QED
  BY <1>2, <1>3, <1>6 DEF Surjection

\* f has the values of a loop that starts from b and takes m turns.
IsLoop(f, m, V, b, step) ==
    /\ f \in [0..m -> V]
    /\ f[0] = b
    /\ \A i \in 1..m : f[i] = step[<<f[i - 1], i>>]

\* A loop whose turn is a function of the value so far has a value after each turn.
LEMMA LoopExists ==
    ASSUME NEW n \in Nat, NEW V, NEW b \in V, NEW step \in [V \X (1..n) -> V]
    PROVE  \E f : IsLoop(f, n, V, b, step)
<1> DEFINE Good == {m \in 0..n : \E f : IsLoop(f, m, V, b, step)}
<1>1. 0 \in Good
  <2>1. IsLoop([i \in 0..0 |-> b], 0, V, b, step)
    BY DEF IsLoop
  <2> QED
    BY <2>1
<1>2. ASSUME NEW m \in 1..n, m - 1 \in Good PROVE m \in Good
  <2>1. PICK f : IsLoop(f, m - 1, V, b, step)
    BY <1>2
  <2> DEFINE g == [i \in 0..m |-> IF i = m THEN step[<<f[m - 1], m>>] ELSE f[i]]
  <2>2. f \in [0..(m - 1) -> V] /\ step[<<f[m - 1], m>>] \in V
    BY <2>1 DEF IsLoop
  <2>3. g \in [0..m -> V]
    BY <2>2
  <2>4. ASSUME NEW i \in 1..m PROVE g[i] = step[<<g[i - 1], i>>]
    <3>1. g[i - 1] = f[i - 1]
      OBVIOUS
    <3>2. i # m => g[i] = f[i] /\ f[i] = step[<<f[i - 1], i>>]
      BY <2>1 DEF IsLoop
    <3>3. i = m => g[i] = step[<<f[i - 1], i>>]
      OBVIOUS
    <3> HIDE DEF g
    <3> QED
      BY <3>1, <3>2, <3>3
  <2>6. g[0] = b
    BY <2>1 DEF IsLoop
  <2>5. IsLoop(g, m, V, b, step)
    BY <2>3, <2>4, <2>6 DEF IsLoop
  <2> HIDE DEF g
  <2> QED
    BY <2>5
<1>3. \A i \in 0..n : i \in Good
  <2> HIDE DEF Good
  <2> QED
    BY <1>1, <1>2, Induction
<1> QED
  BY <1>3

\* The values of Where's loop.
IsWhere(f, s, T) ==
    f = [n \in 0..Len(s) |->
            IF n = 0 THEN << >>
            ELSE IF s[n] \in T THEN Append(f[n - 1], s[n]) ELSE f[n - 1]]

\* Where has its values: the recursive definition defines something.
LEMMA WhereLoop ==
    ASSUME NEW S, NEW s \in Seq(S), NEW T
    PROVE  \E f : IsWhere(f, s, T) /\ Where(s, T) = f[Len(s)]
<1> DEFINE n == Len(s)
           step == [p \in Seq(S) \X (1..n) |->
                       IF s[p[2]] \in T THEN Append(p[1], s[p[2]]) ELSE p[1]]
<1>1. n \in Nat /\ << >> \in Seq(S) /\ step \in [Seq(S) \X (1..n) -> Seq(S)]
  OBVIOUS
<1>2. PICK f : IsLoop(f, n, Seq(S), << >>, step)
  <2> HIDE DEF step, n
  <2> QED
    BY <1>1, LoopExists
<1>3. f \in [0..n -> Seq(S)] /\ f[0] = << >>
  BY <1>2 DEF IsLoop
<1>4. \A i \in 1..n : f[i] = IF s[i] \in T THEN Append(f[i - 1], s[i]) ELSE f[i - 1]
  <2> SUFFICES ASSUME NEW i \in 1..n
               PROVE  f[i] = IF s[i] \in T THEN Append(f[i - 1], s[i]) ELSE f[i - 1]
    OBVIOUS
  <2>1. f[i - 1] \in Seq(S)
    BY <1>1, <1>3
  <2>2. f[i] = step[<<f[i - 1], i>>]
    BY <1>2 DEF IsLoop
  <2> QED
    BY <2>1, <2>2
<1>5. IsWhere(f, s, T)
  <2> DEFINE g == [i \in 0..Len(s) |->
                      IF i = 0 THEN << >>
                      ELSE IF s[i] \in T THEN Append(f[i - 1], s[i]) ELSE f[i - 1]]
  <2>1. DOMAIN f = 0..n /\ DOMAIN g = 0..n
    BY <1>3
  <2>2. ASSUME NEW i \in 0..n PROVE f[i] = g[i]
    <3>1. CASE i = 0
      BY <1>1, <1>3, <3>1
    <3>2. CASE i # 0
      BY <1>1, <1>4, <3>2
    <3> QED
      BY <3>1, <3>2
  <2>3. f = g
    BY <1>3, <2>1, <2>2
  <2> QED
    BY <2>3 DEF IsWhere
<1> DEFINE h == CHOOSE g : IsWhere(g, s, T)
<1>6. IsWhere(h, s, T)
  BY <1>5
<1>7. Where(s, T) = h[Len(s)]
  BY DEF Where, IsWhere
<1> QED
  BY <1>6, <1>7

\* Where keeps the elements that are in T, and no others.
LEMMA WhereFacts ==
    ASSUME NEW S, NEW s \in Seq(S), NEW T
    PROVE  /\ Where(s, T) \in Seq(S)
           /\ \A i \in 1..Len(s) : s[i] \in T =>
                  \E j \in 1..Len(Where(s, T)) : Where(s, T)[j] = s[i]
           /\ \A j \in 1..Len(Where(s, T)) :
                  /\ Where(s, T)[j] \in T
                  /\ \E i \in 1..Len(s) : s[i] = Where(s, T)[j]
<1>1. PICK f : IsWhere(f, s, T) /\ Where(s, T) = f[Len(s)]
  BY WhereLoop
<1> DEFINE Kept(m, u) ==
        /\ u \in Seq(S)
        /\ \A i \in 1..m : s[i] \in T => \E j \in 1..Len(u) : u[j] = s[i]
        /\ \A j \in 1..Len(u) : u[j] \in T /\ \E i \in 1..m : s[i] = u[j]
    Good == {m \in 0..Len(s) : Kept(m, f[m])}
<1>2. f[0] = << >> /\ \A i \in 1..Len(s) :
          f[i] = IF s[i] \in T THEN Append(f[i - 1], s[i]) ELSE f[i - 1]
  <2> DEFINE g == [n \in 0..Len(s) |->
                      IF n = 0 THEN << >>
                      ELSE IF s[n] \in T THEN Append(f[n - 1], s[n]) ELSE f[n - 1]]
  <2>1. f = g
    BY <1>1 DEF IsWhere
  <2>2. g[0] = << >> /\ \A i \in 1..Len(s) :
            g[i] = IF s[i] \in T THEN Append(f[i - 1], s[i]) ELSE f[i - 1]
    OBVIOUS
  <2> HIDE DEF g
  <2> QED
    BY <2>1, <2>2
<1>3. 0 \in Good
  <2>1. Kept(0, << >>)
    OBVIOUS
  <2> HIDE DEF Kept
  <2> QED
    BY <1>2, <2>1
<1>4. ASSUME NEW m \in 1..Len(s), m - 1 \in Good PROVE m \in Good
  <2> DEFINE u == f[m - 1]
  <2>0. Kept(m - 1, u) /\ u \in Seq(S) /\ m \in Nat /\ s[m] \in S
    BY <1>4
  <2>1. CASE s[m] \notin T
    <3>1. f[m] = u
      BY <1>2, <2>1
    <3>2. Kept(m, u)
      BY <2>0, <2>1
    <3> HIDE DEF Kept
    <3> QED
      BY <3>1, <3>2
  <2>2. CASE s[m] \in T
    <3> DEFINE v == Append(u, s[m])
    <3>1. f[m] = v
      BY <1>2, <2>2
    <3>2. /\ v \in Seq(S) /\ Len(v) = Len(u) + 1 /\ Len(u) \in Nat
          /\ v[Len(u) + 1] = s[m]
          /\ \A j \in 1..Len(u) : v[j] = u[j]
      BY <2>0
    <3> HIDE DEF v
    <3>3. \A i \in 1..m : s[i] \in T => \E j \in 1..Len(v) : v[j] = s[i]
      BY <2>0, <3>2
    <3>4. \A j \in 1..Len(v) : v[j] \in T /\ \E i \in 1..m : s[i] = v[j]
      <4> SUFFICES ASSUME NEW j \in 1..Len(v)
                   PROVE  v[j] \in T /\ \E i \in 1..m : s[i] = v[j]
        OBVIOUS
      <4>1. CASE j = Len(u) + 1
        BY <2>2, <3>2, <4>1
      <4>2. CASE j # Len(u) + 1
        <5>1. j \in 1..Len(u)
          BY <3>2, <4>2
        <5>2. PICK i \in 1..(m - 1) : s[i] = u[j]
          BY <2>0, <5>1
        <5>3. i \in 1..m
          BY <2>0
        <5> QED
          BY <2>0, <3>2, <5>1, <5>2, <5>3
      <4> QED
        BY <4>1, <4>2
    <3>5. Kept(m, v)
      BY <3>2, <3>3, <3>4
    <3> QED
      BY <3>1, <3>5
  <2> QED
    BY <2>1, <2>2
<1>5. Len(s) \in Nat
  OBVIOUS
<1>6. Len(s) \in Good
  <2> HIDE DEF Good
  <2>1. \A i \in 0..Len(s) : i \in Good
    BY <1>3, <1>4, <1>5, Induction
  <2> QED
    BY <1>5, <2>1
<1>7. Kept(Len(s), Where(s, T))
  BY <1>1, <1>6
<1> QED
  BY <1>7

\* As a set: Where intersects with T.
LEMMA WhereRange ==
    ASSUME NEW S, NEW s \in Seq(S), NEW T
    PROVE  Where(s, T) \in Seq(S) /\ Range(Where(s, T)) = Range(s) \cap T
<1>1. PICK v : v = Where(s, T)
  OBVIOUS
<1>2. /\ v \in Seq(S)
      /\ \A i \in 1..Len(s) : s[i] \in T => \E j \in 1..Len(v) : v[j] = s[i]
      /\ \A j \in 1..Len(v) : v[j] \in T /\ \E i \in 1..Len(s) : s[i] = v[j]
  BY <1>1, WhereFacts
<1>3. DOMAIN s = 1..Len(s) /\ DOMAIN v = 1..Len(v)
  BY <1>2
<1>4. Range(v) = Range(s) \cap T
  <2>1. ASSUME NEW j \in 1..Len(v) PROVE v[j] \in Range(s) \cap T
    BY <1>2, <1>3 DEF Range
  <2>2. ASSUME NEW i \in 1..Len(s), s[i] \in T PROVE s[i] \in Range(v)
    BY <1>2, <1>3, <2>2 DEF Range
  <2>3. Range(v) \subseteq Range(s) \cap T
    BY <1>3, <2>1 DEF Range
  <2>4. Range(s) \cap T \subseteq Range(v)
    <3> SUFFICES ASSUME NEW d \in Range(s), d \in T PROVE d \in Range(v)
      OBVIOUS
    <3>1. PICK i \in 1..Len(s) : d = s[i]
      BY <1>3 DEF Range
    <3> QED
      BY <2>2, <3>1
  <2> QED
    BY <2>3, <2>4
<1> QED
  BY <1>1, <1>2, <1>4

\* The values of FlattenSeq's loop over seqs.
IsFlatten(f, seqs) ==
    f = [i \in 1..Len(seqs) |-> IF i = 1 THEN seqs[i] ELSE f[i - 1] \o seqs[i]]

\* Concatenation, element by element.
LEMMA ConcatFacts ==
    ASSUME NEW S, NEW s \in Seq(S), NEW t \in Seq(S)
    PROVE  /\ s \o t \in Seq(S)
           /\ Len(s \o t) = Len(s) + Len(t)
           /\ \A i \in 1..Len(s) : (s \o t)[i] = s[i]
           /\ \A i \in 1..Len(t) : (s \o t)[Len(s) + i] = t[i]
           /\ << >> \o s = s
OBVIOUS

\* FlattenSeq has the elements of the sequences it is given.
LEMMA FlattenFacts ==
    ASSUME NEW S, NEW seqs \in Seq(Seq(S))
    PROVE  /\ FlattenSeq(seqs) \in Seq(S)
           /\ \A i \in 1..Len(seqs) : \A j \in 1..Len(seqs[i]) :
                  \E k \in 1..Len(FlattenSeq(seqs)) : FlattenSeq(seqs)[k] = seqs[i][j]
           /\ \A k \in 1..Len(FlattenSeq(seqs)) :
                  \E i \in 1..Len(seqs) : \E j \in 1..Len(seqs[i]) :
                      FlattenSeq(seqs)[k] = seqs[i][j]
<1> DEFINE n == Len(seqs)
           step == [p \in Seq(S) \X (1..n) |-> p[1] \o seqs[p[2]]]
<1>1. n \in Nat /\ << >> \in Seq(S) /\ \A i \in 1..n : seqs[i] \in Seq(S)
  OBVIOUS
<1>2. step \in [Seq(S) \X (1..n) -> Seq(S)]
  BY <1>1, ConcatFacts
<1>3. PICK f : IsLoop(f, n, Seq(S), << >>, step)
  <2> HIDE DEF step, n
  <2> QED
    BY <1>1, <1>2, LoopExists
<1>4. f \in [0..n -> Seq(S)] /\ f[0] = << >>
  BY <1>3 DEF IsLoop
<1>5. ASSUME NEW i \in 1..n PROVE f[i] = f[i - 1] \o seqs[i] /\ f[i - 1] \in Seq(S)
  <2>1. f[i - 1] \in Seq(S)
    BY <1>1, <1>4
  <2>2. f[i] = step[<<f[i - 1], i>>]
    BY <1>3 DEF IsLoop
  <2> QED
    BY <2>1, <2>2
<1>6. CASE n = 0
  BY <1>6 DEF FlattenSeq
<1>7. CASE n # 0
  <2> DEFINE g == [i \in 1..n |-> f[i]]
             e == [i \in 1..n |-> IF i = 1 THEN seqs[i] ELSE g[i - 1] \o seqs[i]]
  <2>1. ASSUME NEW i \in 1..n PROVE g[i] = e[i]
    <3>1. CASE i = 1
      <4>1. f[1] = f[0] \o seqs[1]
        <5>1. f[i] = f[i - 1] \o seqs[i]
          BY <1>5
        <5>2. i - 1 = 0
          BY <3>1
        <5> QED
          BY <3>1, <5>1, <5>2
      <4> QED
        BY <1>1, <1>4, <3>1, <4>1, ConcatFacts
    <3>2. CASE i # 1
      <4>1. i - 1 \in 1..n
        BY <1>1, <3>2
      <4> QED
        BY <1>5, <3>2, <4>1
    <3> QED
      BY <3>1, <3>2
  <2>2. g = e
    BY <2>1
  <2>3. IsFlatten(g, seqs)
    BY <2>2 DEF IsFlatten
  <2> DEFINE h == CHOOSE x : IsFlatten(x, seqs)
  <2>4. IsFlatten(h, seqs)
    <3> HIDE DEF g, e
    <3> QED
      BY <2>3
  <2>5. FlattenSeq(seqs) = h[n]
    BY <1>7 DEF FlattenSeq, IsFlatten
  <2> HIDE DEF h
  <2>6. /\ h[1] = seqs[1]
        /\ \A i \in 2..n : h[i] = h[i - 1] \o seqs[i]
    <3> DEFINE d == [i \in 1..n |-> IF i = 1 THEN seqs[i] ELSE h[i - 1] \o seqs[i]]
    <3>1. h = d
      BY <2>4 DEF IsFlatten, h
    <3>2. d[1] = seqs[1]
      BY <1>1, <1>7
    <3>3. ASSUME NEW i \in 2..n PROVE d[i] = h[i - 1] \o seqs[i]
      <4>1. i \in 1..n /\ i # 1
        BY <1>1
      <4>2. d[i] = IF i = 1 THEN seqs[i] ELSE h[i - 1] \o seqs[i]
        BY <4>1
      <4> HIDE DEF d
      <4> QED
        BY <4>1, <4>2
    <3> HIDE DEF d
    <3> QED
      BY <3>1, <3>2, <3>3
  <2> DEFINE Has(m, u) ==
          /\ u \in Seq(S)
          /\ \A i \in 1..m : \A j \in 1..Len(seqs[i]) :
                 \E k \in 1..Len(u) : u[k] = seqs[i][j]
          /\ \A k \in 1..Len(u) : \E i \in 1..m : \E j \in 1..Len(seqs[i]) :
                 u[k] = seqs[i][j]
      Good == {m \in 0..n : m = 0 \/ Has(m, h[m])}
  <2>7. ASSUME NEW m \in 1..n, m - 1 \in Good PROVE m \in Good
    <3>1. CASE m = 1
      <4>1. Has(1, seqs[1])
        BY <1>1, <1>7
      <4> HIDE DEF Has
      <4> QED
        BY <2>6, <3>1, <4>1
    <3>2. CASE m # 1
      <4> DEFINE u == h[m - 1]
                 t == seqs[m]
                 v == u \o t
      <4>1. Has(m - 1, u) /\ m \in 2..n /\ t \in Seq(S)
        BY <1>1, <2>7, <3>2
      <4>2. h[m] = v
        BY <2>6, <4>1
      <4>3. /\ v \in Seq(S) /\ Len(v) = Len(u) + Len(t) /\ Len(u) \in Nat /\ Len(t) \in Nat
            /\ \A i \in 1..Len(u) : v[i] = u[i]
            /\ \A i \in 1..Len(t) : v[Len(u) + i] = t[i]
        <5>1. u \in Seq(S)
          BY <4>1
        <5> HIDE DEF u, t
        <5> QED
          BY <4>1, <5>1, ConcatFacts
      <4> HIDE DEF v, u
      <4>4. ASSUME NEW i \in 1..m, NEW j \in 1..Len(seqs[i])
            PROVE  \E k \in 1..Len(v) : v[k] = seqs[i][j]
        <5>1. CASE i = m
          <6>1. Len(u) + j \in 1..Len(v)
            BY <4>3, <5>1
          <6>2. v[Len(u) + j] = seqs[i][j]
            BY <4>3, <5>1
          <6> QED
            BY <6>1, <6>2
        <5>2. CASE i # m
          <6>1. i \in 1..(m - 1)
            BY <5>2
          <6>2. PICK k \in 1..Len(u) : u[k] = seqs[i][j]
            BY <4>1, <6>1
          <6>3. k \in 1..Len(v) /\ v[k] = u[k]
            BY <4>3
          <6> QED
            BY <6>2, <6>3
        <5> QED
          BY <5>1, <5>2
      <4>5. ASSUME NEW k \in 1..Len(v)
            PROVE  \E i \in 1..m : \E j \in 1..Len(seqs[i]) : v[k] = seqs[i][j]
        <5>1. CASE k <= Len(u)
          <6>1. k \in 1..Len(u) /\ v[k] = u[k]
            BY <4>3, <5>1
          <6>2. PICK i \in 1..(m - 1) : \E j \in 1..Len(seqs[i]) : u[k] = seqs[i][j]
            BY <4>1, <6>1
          <6>3. i \in 1..m
            BY <4>1
          <6> QED
            BY <6>1, <6>2, <6>3
        <5>2. CASE ~(k <= Len(u))
          <6>1. k - Len(u) \in 1..Len(t) /\ Len(u) + (k - Len(u)) = k
            BY <4>3, <5>2
          <6>2. v[k] = t[k - Len(u)]
            BY <4>3, <6>1
          <6>3. m \in 1..m
            BY <4>1
          <6> QED
            BY <6>1, <6>2, <6>3
        <5> QED
          BY <5>1, <5>2
      <4>6. Has(m, v)
        BY <4>3, <4>4, <4>5
      <4> HIDE DEF Has
      <4> QED
        BY <4>2, <4>6
    <3> QED
      BY <3>1, <3>2
  <2>8. n \in Good
    <3>1. 0 \in Good
      BY <1>1
    <3> HIDE DEF Good
    <3>2. \A i \in 0..n : i \in Good
      BY <1>1, <2>7, <3>1, Induction
    <3> QED
      BY <1>1, <3>2
  <2>9. Has(n, FlattenSeq(seqs))
    <3> HIDE DEF Has
    <3> QED
      BY <1>7, <2>5, <2>8
  <2> QED
    BY <2>9
<1> QED
  BY <1>6, <1>7

=============================================================================
