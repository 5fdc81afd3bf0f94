------------------------------ MODULE SumsProofs ------------------------------
(***************************************************************************)
(* What a sum over a sequence does when the sequence grows or one element  *)
(* changes.  The sum is a recursive function, so its facts need induction; *)
(* the induction rule is stated for a set and not for a predicate, which   *)
(* keeps it first-order.                                                   *)
(***************************************************************************)
EXTENDS Sums, SequenceTheorems, FiniteSetTheorems, TLAPS

\* A set that has 0 and, with a number, the next one, has every number.
LEMMA SetInduction ==
  ASSUME NEW S, 0 \in S, \A n \in Nat : n \in S => n + 1 \in S
  PROVE  Nat \subseteq S
<1> DEFINE R == StrictSubsetOrdering(Nat)
           T == {0..(n - 1) : n \in Nat \ S}
<1> SUFFICES ASSUME NEW m \in Nat, m \notin S PROVE FALSE
  OBVIOUS
<1>1. T \subseteq FiniteSubsetsOf(Nat) /\ T # {}
  <2>1. \A n \in Nat : IsFiniteSet(0..(n - 1)) /\ 0..(n - 1) \subseteq Nat
    BY FS_Interval
  <2> QED
    BY <2>1 DEF FiniteSubsetsOf
<1>2. IsWellFoundedOn(R, FiniteSubsetsOf(Nat))
  BY FS_StrictSubsetOrderingWellFounded
<1>3. PICK x \in T : \A y \in T : ~ (<<y, x>> \in R)
  <2> HIDE DEF R, T
  <2> QED
    BY <1>1, <1>2, WFMin
<1>4. PICK n \in Nat \ S : x = 0..(n - 1)
  OBVIOUS
<1>5. n - 1 \in Nat /\ n - 1 \notin S
  BY <1>4
<1>6. 0..((n - 1) - 1) \in T
  BY <1>5
<1>7. <<0..((n - 1) - 1), 0..(n - 1)>> \in R
  <2>1. n - 1 \in 0..(n - 1) /\ n - 1 \notin 0..((n - 1) - 1)
    BY <1>5
  <2>2. 0..((n - 1) - 1) \subseteq 0..(n - 1) /\ 0..(n - 1) \subseteq Nat
    BY <1>5
  <2> QED
    BY <2>1, <2>2 DEF StrictSubsetOrdering
<1> QED
  BY <1>3, <1>4, <1>6, <1>7

\* f sums the first m elements of s, one after the other.
PartialSums(f, s, m) == f = [n \in 0..m |-> IF n = 0 THEN 0 ELSE f[n - 1] + s[n]]

LEMMA SumsExist ==
  ASSUME NEW s, NEW m \in Nat
  PROVE  \E f : PartialSums(f, s, m)
<1> DEFINE S == {k \in Nat : \E f : PartialSums(f, s, k)}
<1>1. 0 \in S
  <2>1. PartialSums([n \in 0..0 |-> 0], s, 0)
    BY DEF PartialSums
  <2> QED
    BY <2>1
<1>2. ASSUME NEW k \in Nat, k \in S
      PROVE  k + 1 \in S
  <2>1. PICK f : PartialSums(f, s, k)
    BY <1>2
  <2> DEFINE g == [n \in 0..(k + 1) |-> IF n = k + 1 THEN f[k] + s[k + 1] ELSE f[n]]
             h == [n \in 0..(k + 1) |-> IF n = 0 THEN 0 ELSE g[n - 1] + s[n]]
  <2>2. ASSUME NEW n \in 0..(k + 1)
        PROVE  g[n] = h[n]
    <3>1. CASE n = k + 1
      BY <3>1
    <3>2. CASE n \in 0..k
      <4>1. f[n] = IF n = 0 THEN 0 ELSE f[n - 1] + s[n]
        BY <2>1, <3>2 DEF PartialSums
      <4>2. n # k + 1 /\ n # 0 => n - 1 \in 0..(k + 1) /\ n - 1 # k + 1
        BY <3>2
      <4> QED
        BY <3>2, <4>1, <4>2
    <3> QED
      BY <3>1, <3>2
  <2>3. g = h
    BY <2>2
  <2>4. PartialSums(g, s, k + 1)
    BY <2>3 DEF PartialSums
  <2> QED
    BY <2>4
<1> HIDE DEF S
<1>3. Nat \subseteq S
  BY <1>1, <1>2, SetInduction
<1> QED
  BY <1>3 DEF S

\* Sums of sequences that start alike are alike that far.
LEMMA SumsAgree ==
  ASSUME NEW s, NEW t, NEW m \in Nat, NEW k \in Nat, k >= m,
         NEW f, NEW g, PartialSums(f, s, m), PartialSums(g, t, k),
         \A n \in 1..m : s[n] = t[n]
  PROVE  \A n \in 0..m : f[n] = g[n]
<1> DEFINE S == {n \in Nat : n <= m => f[n] = g[n]}
<1>1. 0 \in S
  BY DEF PartialSums
<1>2. ASSUME NEW n \in Nat, n \in S
      PROVE  n + 1 \in S
  <2> SUFFICES ASSUME n + 1 <= m PROVE f[n + 1] = g[n + 1]
    OBVIOUS
  <2>1. n + 1 \in 0..m /\ n + 1 \in 0..k /\ n + 1 \in 1..m /\ n + 1 # 0 /\ (n + 1) - 1 = n
    OBVIOUS
  <2>2. f[n + 1] = f[n] + s[n + 1] /\ g[n + 1] = g[n] + t[n + 1]
    BY <2>1 DEF PartialSums
  <2> QED
    BY <1>2, <2>1, <2>2
<1> HIDE DEF S
<1>3. Nat \subseteq S
  BY <1>1, <1>2, SetInduction
<1> QED
  BY <1>3 DEF S

\* Total is the last of the sums, whichever function gives them.
LEMMA TotalIs ==
  ASSUME NEW s, Len(s) \in Nat, NEW f, PartialSums(f, s, Len(s))
  PROVE  Total(s) = f[Len(s)]
<1> DEFINE g == CHOOSE h : PartialSums(h, s, Len(s))
<1>1. PartialSums(g, s, Len(s))
  OBVIOUS
<1>2. Total(s) = g[Len(s)]
  BY DEF Total, PartialSums
<1> HIDE DEF g
<1> QED
  BY <1>1, <1>2, SumsAgree

LEMMA EmptyTotal ==
  ASSUME NEW s, Len(s) = 0
  PROVE  Total(s) = 0
<1>1. PICK f : PartialSums(f, s, Len(s))
  BY SumsExist
<1>2. f[0] = 0
  BY <1>1 DEF PartialSums
<1> QED
  BY <1>1, <1>2, TotalIs

\* The sums of naturals are naturals and never shrink.
LEMMA SumsGrow ==
  ASSUME NEW s \in Seq(Nat), NEW f, PartialSums(f, s, Len(s))
  PROVE  \A n \in 0..Len(s) : f[n] \in Nat /\ f[n] <= f[Len(s)]
<1>1. Len(s) \in Nat /\ \A n \in 1..Len(s) : s[n] \in Nat
  BY LenProperties, ElementOfSeq
<1> DEFINE S == {n \in Nat : n <= Len(s) => f[n] \in Nat}
           R == {k \in Nat : k <= Len(s) => f[Len(s) - k] <= f[Len(s)]}
<1>2. ASSUME NEW n \in Nat, n + 1 <= Len(s)
      PROVE  f[n + 1] = f[n] + s[n + 1] /\ s[n + 1] \in Nat
  <2>1. n + 1 \in 0..Len(s) /\ n + 1 \in 1..Len(s) /\ n + 1 # 0 /\ (n + 1) - 1 = n
    BY <1>1, <1>2
  <2> QED
    BY <1>1, <2>1 DEF PartialSums
<1>3. 0 \in S
  BY <1>1 DEF PartialSums
<1>4. ASSUME NEW n \in Nat, n \in S
      PROVE  n + 1 \in S
  BY <1>1, <1>2, <1>4
<1> HIDE DEF S
<1>5. Nat \subseteq S
  BY <1>3, <1>4, SetInduction
<1>6. \A n \in 0..Len(s) : f[n] \in Nat
  BY <1>1, <1>5 DEF S
<1>7. 0 \in R
  BY <1>1, <1>6
<1>8. ASSUME NEW k \in Nat, k \in R
      PROVE  k + 1 \in R
  <2> SUFFICES ASSUME k + 1 <= Len(s) PROVE f[Len(s) - (k + 1)] <= f[Len(s)]
    OBVIOUS
  <2> DEFINE n == Len(s) - (k + 1)
  <2>1. n \in Nat /\ n + 1 <= Len(s) /\ n + 1 = Len(s) - k
    BY <1>1
  <2>2. f[n + 1] <= f[Len(s)]
    BY <1>1, <1>8, <2>1
  <2>3. f[n + 1] = f[n] + s[n + 1] /\ s[n + 1] \in Nat
    BY <1>2, <2>1
  <2>4. f[n] \in Nat /\ f[Len(s)] \in Nat
    BY <1>1, <1>6, <2>1
  <2> HIDE DEF n
  <2>5. f[n] <= f[Len(s)]
    BY <2>2, <2>3, <2>4
  <2> QED
    BY <2>5 DEF n
<1> HIDE DEF R
<1>9. Nat \subseteq R
  BY <1>7, <1>8, SetInduction
<1>10. ASSUME NEW n \in 0..Len(s)
       PROVE  f[n] <= f[Len(s)]
  <2>1. Len(s) - n \in R /\ Len(s) - n <= Len(s) /\ Len(s) - (Len(s) - n) = n
    BY <1>1, <1>9
  <2> QED
    BY <2>1 DEF R
<1> QED
  BY <1>6, <1>10

\* A sum of naturals is a natural.
LEMMA NatTotal ==
  ASSUME NEW s \in Seq(Nat)
  PROVE  Total(s) \in Nat
<1>1. Len(s) \in Nat
  BY LenProperties
<1>2. PICK f : PartialSums(f, s, Len(s))
  BY <1>1, SumsExist
<1> QED
  BY <1>1, <1>2, SumsGrow, TotalIs

\* The next element is added.
LEMMA AppendTotal ==
  ASSUME NEW s \in Seq(Nat), NEW x \in Nat
  PROVE  Total(Append(s, x)) = Total(s) + x
<1> DEFINE t == Append(s, x)
           k == Len(s)
<1>1. /\ k \in Nat /\ k + 1 \in Nat /\ Len(t) = k + 1 /\ t[k + 1] = x
      /\ \A n \in 1..k : s[n] = t[n]
  BY LenProperties, AppendProperties
<1> HIDE DEF t, k
<1>2. PICK f : PartialSums(f, s, k)
  BY <1>1, SumsExist
<1>3. PICK g : PartialSums(g, t, k + 1)
  BY <1>1, SumsExist
<1>4. f[k] = g[k]
  BY SMTT(30), <1>1, <1>2, <1>3, SumsAgree
<1>5. g[k + 1] = g[k] + x
  <2>1. k + 1 \in 0..(k + 1) /\ k + 1 # 0 /\ (k + 1) - 1 = k
    BY <1>1
  <2> QED
    BY <1>1, <1>3, <2>1 DEF PartialSums
<1>6. Total(s) = f[k] /\ Total(t) = g[k + 1]
  BY <1>1, <1>2, <1>3, TotalIs DEF k
<1> QED
  BY <1>4, <1>5, <1>6 DEF t

\* Replacing an element changes the sum by the difference.
LEMMA ExceptTotal ==
  ASSUME NEW s \in Seq(Nat), NEW k \in 1..Len(s), NEW x \in Nat
  PROVE  Total([s EXCEPT ![k] = x]) = Total(s) - s[k] + x
<1> DEFINE t == [s EXCEPT ![k] = x]
           m == Len(s)
<1>1. /\ m \in Nat /\ Len(t) = m
      /\ \A n \in 1..m : s[n] \in Nat /\ t[n] = IF n = k THEN x ELSE s[n]
  BY LenProperties, ElementOfSeq, ExceptSeq
<1>2. k \in 1..m
  OBVIOUS
<1> HIDE DEF t, m
<1>3. PICK f : PartialSums(f, s, m)
  BY <1>1, SumsExist
<1>4. PICK g : PartialSums(g, t, m)
  BY <1>1, SumsExist
<1> DEFINE S == {n \in Nat : n <= m => /\ f[n] \in Nat
                                      /\ g[n] = IF n < k THEN f[n] ELSE f[n] - s[k] + x}
<1>5. 0 \in S
  BY <1>1, <1>2, <1>3, <1>4 DEF PartialSums
<1>6. ASSUME NEW n \in Nat, n \in S
      PROVE  n + 1 \in S
  <2> SUFFICES ASSUME n + 1 <= m
               PROVE  /\ f[n + 1] \in Nat
                      /\ g[n + 1] = IF n + 1 < k THEN f[n + 1] ELSE f[n + 1] - s[k] + x
    OBVIOUS
  <2>1. n + 1 \in 0..m /\ n + 1 \in 1..m /\ n + 1 # 0 /\ (n + 1) - 1 = n
    BY <1>1
  <2>2. f[n + 1] = f[n] + s[n + 1] /\ g[n + 1] = g[n] + t[n + 1]
    BY <1>3, <1>4, <2>1 DEF PartialSums
  <2>3. f[n] \in Nat /\ s[n + 1] \in Nat /\ s[k] \in Nat
    BY <1>1, <1>2, <1>6, <2>1
  <2>4. g[n] = IF n < k THEN f[n] ELSE f[n] - s[k] + x
    BY <1>6, <1>1
  <2>5. t[n + 1] = IF n + 1 = k THEN x ELSE s[n + 1]
    BY <1>1, <2>1
  <2>6. CASE n + 1 < k
    BY <1>2, <2>2, <2>3, <2>4, <2>5, <2>6
  <2>7. CASE n + 1 = k
    BY <1>2, <2>2, <2>3, <2>4, <2>5, <2>7
  <2>8. CASE n + 1 > k
    BY SMTT(30), <1>2, <2>2, <2>3, <2>4, <2>5, <2>8
  <2> QED
    BY <1>2, <2>6, <2>7, <2>8
<1> HIDE DEF S
<1>7. Nat \subseteq S
  BY <1>5, <1>6, SetInduction
<1>8. Total(s) = f[m] /\ Total(t) = g[m]
  BY <1>1, <1>3, <1>4, TotalIs DEF m
<1>9. g[m] = f[m] - s[k] + x
  BY <1>1, <1>2, <1>7 DEF S
<1> QED
  BY <1>8, <1>9 DEF t
LEMMA ZeroTotal ==
  ASSUME NEW s, Len(s) \in Nat, \A n \in 1..Len(s) : s[n] = 0
  PROVE  Total(s) = 0
<1> DEFINE f == [n \in 0..Len(s) |-> 0]
<1>1. PartialSums(f, s, Len(s))
  <2>1. \A n \in 0..Len(s) : n # 0 => n - 1 \in 0..Len(s) /\ n \in 1..Len(s)
    OBVIOUS
  <2>2. f = [n \in 0..Len(s) |-> IF n = 0 THEN 0 ELSE f[n - 1] + s[n]]
    BY <2>1
  <2> QED
    BY <2>2 DEF PartialSums
<1>2. Total(s) = f[Len(s)]
  <2> HIDE DEF f
  <2> QED
    BY <1>1, TotalIs
<1> QED
  BY <1>2

\* One element alone counts.
LEMMA OneTotal ==
  ASSUME NEW s \in Seq(Nat), NEW k \in 1..Len(s), \A n \in 1..Len(s) : n # k => s[n] = 0
  PROVE  Total(s) = s[k]
<1> DEFINE t == [s EXCEPT ![k] = 0]
<1>1. Len(s) \in Nat /\ s[k] \in Nat
  BY LenProperties, ElementOfSeq
<1>2. Len(t) = Len(s) /\ \A n \in 1..Len(s) : t[n] = 0
  BY ExceptSeq
<1>3. Total(t) = 0
  <2> HIDE DEF t
  <2> QED
    BY <1>1, <1>2, ZeroTotal
<1>4. Total(t) = Total(s) - s[k] + 0 /\ Total(s) \in Nat
  BY ExceptTotal, NatTotal
<1> QED
  BY <1>1, <1>3, <1>4

\* The sum of two sequences one after the other.
LEMMA ConcatTotal ==
  ASSUME NEW s \in Seq(Nat), NEW t \in Seq(Nat)
  PROVE  Total(s \o t) = Total(s) + Total(t)
<1> DEFINE u == s \o t
           k == Len(s)
           m == Len(t)
<1>1. /\ k \in Nat /\ m \in Nat /\ k + m \in Nat /\ Len(u) = k + m
      /\ \A n \in 1..k : s[n] = u[n]
      /\ \A n \in 1..m : u[k + n] = t[n] /\ t[n] \in Nat
  BY LenProperties, ElementOfSeq, ConcatProperties
<1>2. PICK f : PartialSums(f, s, k)
  BY <1>1, SumsExist
<1>3. PICK h : PartialSums(h, t, m)
  BY <1>1, SumsExist
<1> HIDE DEF u, k, m
<1>4. PICK g : PartialSums(g, u, k + m)
  BY <1>1, SumsExist
<1>5. g[k] = f[k] /\ Total(s) = f[k] /\ Total(t) = h[m] /\ Total(u) = g[k + m]
  <2>1. k + m >= k /\ k \in 0..k
    BY <1>1
  <2>2. \A n \in 0..k : f[n] = g[n]
    BY SMTT(30), <1>1, <1>2, <1>4, <2>1, SumsAgree
  <2>3. Total(s) = f[k] /\ Total(t) = h[m] /\ Total(u) = g[k + m]
    BY <1>1, <1>2, <1>3, <1>4, TotalIs DEF k, m
  <2> QED
    BY <2>1, <2>2, <2>3
<1>6. f[k] \in Nat
  BY <1>5, NatTotal
<1> DEFINE S == {n \in Nat : n <= m => h[n] \in Nat /\ g[k + n] = f[k] + h[n]}
<1>7. 0 \in S
  <2>1. h[0] = 0
    BY <1>1, <1>3 DEF PartialSums
  <2> QED
    BY <1>1, <1>5, <1>6, <2>1
<1>8. ASSUME NEW n \in Nat, n \in S
      PROVE  n + 1 \in S
  <2> SUFFICES ASSUME n + 1 <= m
               PROVE  h[n + 1] \in Nat /\ g[k + (n + 1)] = f[k] + h[n + 1]
    OBVIOUS
  <2>1. /\ n + 1 \in 1..m /\ n + 1 \in 0..m /\ n + 1 # 0 /\ (n + 1) - 1 = n
        /\ k + (n + 1) \in 0..(k + m) /\ k + (n + 1) # 0 /\ (k + (n + 1)) - 1 = k + n
    BY <1>1
  <2>2. h[n + 1] = h[n] + t[n + 1]
    BY <1>3, <2>1 DEF PartialSums
  <2>3. g[k + (n + 1)] = g[k + n] + u[k + (n + 1)]
    BY <1>4, <2>1 DEF PartialSums
  <2>4. u[k + (n + 1)] = t[n + 1] /\ t[n + 1] \in Nat
    BY <1>1, <2>1
  <2>5. h[n] \in Nat /\ g[k + n] = f[k] + h[n]
    BY <1>8, <1>1
  <2>6. \A a, b, c \in Nat : b + c \in Nat /\ (a + b) + c = a + (b + c)
    OBVIOUS
  <2>7. h[n + 1] \in Nat
    BY <2>2, <2>4, <2>5, <2>6
  <2>8. g[k + (n + 1)] = (f[k] + h[n]) + t[n + 1]
    BY <2>3, <2>4, <2>5
  <2>9. (f[k] + h[n]) + t[n + 1] = f[k] + (h[n] + t[n + 1])
    BY <1>6, <2>4, <2>5, <2>6
  <2>10. g[k + (n + 1)] = f[k] + h[n + 1]
    BY <2>2, <2>8, <2>9, Zenon
  <2> QED
    BY <2>7, <2>10, Zenon
<1> HIDE DEF S
<1>9. Nat \subseteq S
  BY <1>7, <1>8, SetInduction
<1>10. g[k + m] = f[k] + h[m]
  BY <1>1, <1>9 DEF S
<1> QED
  BY <1>5, <1>10 DEF u

\* Listed lists a finite set, every element once.
LEMMA ListedFacts ==
  ASSUME NEW S, IsFiniteSet(S)
  PROVE  LET s == Listed(S)
         IN  /\ Cardinality(S) \in Nat /\ s \in [1..Cardinality(S) -> S]
             /\ \A i, j \in 1..Cardinality(S) : s[i] = s[j] => i = j
             /\ \A x \in S : \E i \in 1..Cardinality(S) : s[i] = x
<1> DEFINE n == Cardinality(S)
           s == Listed(S)
<1>1. n \in Nat /\ ExistsBijection(1..n, S)
  BY FS_CardinalityType
<1>2. PICK b \in [1..n -> S] : \A i, j \in 1..n : b[i] = b[j] => i = j
  BY <1>1 DEF ExistsBijection, Bijection, Injection, IsInjective
<1>3. s \in [1..n -> S] /\ \A i, j \in DOMAIN s : s[i] = s[j] => i = j
  <2>1. \A i, j \in DOMAIN b : b[i] = b[j] => i = j
    BY <1>2
  <2>2. \E c \in [1..n -> S] : \A i, j \in DOMAIN c : c[i] = c[j] => i = j
    BY <1>2, <2>1
  <2> HIDE DEF n
  <2> QED
    BY <2>2 DEF Listed, n
<1>4. s \in Injection(1..n, S)
  BY <1>3 DEF Injection, IsInjective
<1>5. s \in Surjection(1..n, S)
  <2>1. Cardinality(1..n) = n
    BY <1>1, FS_Interval
  <2> HIDE DEF s
  <2> QED
    BY <1>4, <2>1, FS_Injection DEF n
<1> QED
  BY <1>1, <1>3, <1>5 DEF Surjection

\* The numbers of a function with a finite domain add up to a natural.
LEMMA SumType ==
  ASSUME NEW S, IsFiniteSet(S), NEW f \in [S -> Nat]
  PROVE  SumOver(f) \in Nat
<1> DEFINE n == Cardinality(S)
           order == Listed(S)
           sf == [i \in 1..n |-> f[order[i]]]
<1>1. n \in Nat /\ order \in [1..n -> S]
  BY ListedFacts
<1>2. SumOver(f) = Total(sf)
  BY <1>1 DEF SumOver
<1> HIDE DEF order, n
<1>3. sf \in Seq(Nat)
  BY <1>1, IsASeq
<1> QED
  BY <1>2, <1>3, NatTotal

\* Raising a function at one place raises its sum by as much.
LEMMA RaisedSum ==
  ASSUME NEW S, IsFiniteSet(S), NEW f \in [S -> Nat], NEW x \in S, NEW k \in Nat
  PROVE  SumOver([f EXCEPT ![x] = f[x] + k]) = SumOver(f) + k
<1> DEFINE n == Cardinality(S)
           order == Listed(S)
           g == [f EXCEPT ![x] = f[x] + k]
           sf == [i \in 1..n |-> f[order[i]]]
           sg == [i \in 1..n |-> g[order[i]]]
<1>1. /\ n \in Nat /\ order \in [1..n -> S]
      /\ \A i, j \in 1..n : order[i] = order[j] => i = j
      /\ \A y \in S : \E i \in 1..n : order[i] = y
  BY ListedFacts
<1>2. PICK p \in 1..n : order[p] = x
  BY <1>1
<1>3. SumOver(f) = Total(sf) /\ SumOver(g) = Total(sg)
  <2>1. DOMAIN f = S /\ DOMAIN g = S
    OBVIOUS
  <2>2. DOMAIN order = 1..n
    BY <1>1
  <2> HIDE DEF g, order
  <2> QED
    BY <2>1, <2>2 DEF SumOver, order
<1> HIDE DEF order, n
<1>4. sf \in Seq(Nat) /\ Len(sf) = n
  BY <1>1, IsASeq
<1>5. sg = [sf EXCEPT ![p] = sf[p] + k]
  BY <1>1, <1>2
<1>6. sf[p] \in Nat
  BY <1>1
<1> HIDE DEF sf, sg
<1>7. Total([sf EXCEPT ![p] = sf[p] + k]) = Total(sf) - sf[p] + (sf[p] + k)
  <2>1. sf[p] + k \in Nat /\ p \in 1..Len(sf)
    BY <1>4, <1>6
  <2> QED
    BY <1>4, <2>1, ExceptTotal
<1>8. Total(sf) \in Nat
  BY <1>4, NatTotal
<1> QED
  BY <1>3, <1>5, <1>6, <1>7, <1>8

LEMMA ConcatParts ==
  ASSUME NEW S, NEW s \in Seq(S), NEW t \in Seq(S)
  PROVE  /\ s \o t \in Seq(S) /\ Len(s \o t) = Len(s) + Len(t)
         /\ \A i \in 1..Len(s) : (s \o t)[i] = s[i]
         /\ \A i \in 1..Len(t) : (s \o t)[Len(s) + i] = t[i]
<1>1. Len(s) \in Nat /\ Len(t) \in Nat
  BY LenProperties
<1> QED
  BY <1>1, ConcatProperties

\* A set of numbers has a least one.
LEMMA LeastExists ==
  ASSUME NEW S, S \subseteq Nat, S # {}
  PROVE  \E x \in S : \A y \in S : x <= y
<1> SUFFICES ASSUME \A x \in S : \E y \in S : ~(x <= y) PROVE FALSE
  OBVIOUS
<1> DEFINE G == {n \in Nat : \A y \in S : n <= y}
<1>1. 0 \in G
  OBVIOUS
<1>2. ASSUME NEW n \in Nat, n \in G
      PROVE  n + 1 \in G
  <2>1. n \notin S
    BY <1>2
  <2>2. ASSUME NEW y \in S PROVE n + 1 <= y
    <3>1. y \in Nat /\ n <= y /\ y # n
      BY <1>2, <2>1, <2>2
    <3> QED
      BY <3>1
  <2> QED
    BY <2>2
<1> HIDE DEF G
<1>3. Nat \subseteq G
  BY <1>1, <1>2, SetInduction
<1>4. PICK y \in S : TRUE
  OBVIOUS
<1>5. y \in Nat /\ y + 1 \in G
  BY <1>3, <1>4
<1>6. y + 1 <= y
  BY <1>5 DEF G
<1> QED
  BY <1>5, <1>6

\* The numbers that h gives to the elements of s.
Mapped(h, s) == [i \in 1..Len(s) |-> h[s[i]]]

LEMMA MappedType ==
  ASSUME NEW S, NEW h \in [S -> Nat], NEW s \in Seq(S)
  PROVE  /\ Mapped(h, s) \in Seq(Nat) /\ Len(Mapped(h, s)) = Len(s) /\ Len(s) \in Nat
         /\ \A i \in 1..Len(s) : Mapped(h, s)[i] = h[s[i]]
         /\ Total(Mapped(h, s)) \in Nat
<1>1. Len(s) \in Nat /\ \A i \in 1..Len(s) : h[s[i]] \in Nat
  BY LenProperties, ElementOfSeq
<1>2. Mapped(h, s) \in Seq(Nat)
  BY <1>1, IsASeq DEF Mapped
<1>3. Mapped(h, s) = [i \in 1..Len(s) |-> h[s[i]]]
  BY DEF Mapped
<1>4. DOMAIN Mapped(h, s) = 1..Len(s) /\ \A i \in 1..Len(s) : Mapped(h, s)[i] = h[s[i]]
  BY <1>3
<1>5. Len(Mapped(h, s)) = Len(s)
  BY <1>1, <1>2, <1>4, LenProperties
<1> QED
  BY <1>1, <1>2, <1>4, <1>5, NatTotal

LEMMA MappedTotal ==
  ASSUME NEW S, NEW h \in [S -> Nat], NEW s \in Seq(S), NEW t \in Seq(S)
  PROVE  Total(Mapped(h, s \o t)) = Total(Mapped(h, s)) + Total(Mapped(h, t))
<1>1. ASSUME NEW u \in Seq(S)
      PROVE  /\ Mapped(h, u) \in Seq(Nat) /\ Len(Mapped(h, u)) = Len(u) /\ Len(u) \in Nat
             /\ \A i \in 1..Len(u) : Mapped(h, u)[i] = h[u[i]]
             /\ Total(Mapped(h, u)) \in Nat
  BY MappedType, Zenon
<1>2. Mapped(h, s \o t) = Mapped(h, s) \o Mapped(h, t)
  <2> DEFINE u == s \o t
             a == Mapped(h, s)
             c == Mapped(h, t)
             w == a \o c
  <2>1. /\ a \in Seq(Nat) /\ Len(a) = Len(s) /\ \A i \in 1..Len(s) : a[i] = h[s[i]]
        /\ c \in Seq(Nat) /\ Len(c) = Len(t) /\ \A i \in 1..Len(t) : c[i] = h[t[i]]
        /\ Len(s) \in Nat /\ Len(t) \in Nat
    BY <1>1
  <2> HIDE DEF a, c
  <2>2. /\ u \in Seq(S) /\ Len(u) = Len(s) + Len(t)
        /\ \A i \in 1..Len(s) : u[i] = s[i]
        /\ \A i \in 1..Len(t) : u[Len(s) + i] = t[i]
    BY ConcatParts
  <2>3. /\ w \in Seq(Nat) /\ Len(w) = Len(s) + Len(t)
        /\ \A i \in 1..Len(s) : w[i] = a[i]
        /\ \A i \in 1..Len(t) : w[Len(s) + i] = c[i]
    <3>1. a \in Seq(Nat) /\ c \in Seq(Nat)
      BY <2>1
    <3>2. /\ w \in Seq(Nat) /\ Len(w) = Len(a) + Len(c)
          /\ \A i \in 1..Len(a) : w[i] = a[i]
          /\ \A i \in 1..Len(c) : w[Len(a) + i] = c[i]
      BY <3>1, ConcatParts
    <3> HIDE DEF w
    <3> QED
      BY <2>1, <3>2
  <2> HIDE DEF u, w
  <2>4. \A i \in 1..Len(u) : Mapped(h, u)[i] = h[u[i]]
    BY <1>1, <2>2
  <2>5. ASSUME NEW i \in 1..Len(u)
        PROVE  Mapped(h, u)[i] = w[i]
    <3>1. CASE i \in 1..Len(s)
      BY SMTT(30), <2>2, <2>3, <2>1, <2>4, <3>1
    <3>2. ASSUME NEW k \in 1..Len(t), i = Len(s) + k
          PROVE  Mapped(h, u)[i] = w[i]
      <4>1. u[Len(s) + k] = t[k] /\ w[Len(s) + k] = c[k] /\ c[k] = h[t[k]]
        BY <2>1, <2>2, <2>3
      <4> QED
        BY <2>4, <3>2, <4>1
    <3>3. i \in 1..Len(s) \/ (i - Len(s) \in 1..Len(t) /\ i = Len(s) + (i - Len(s)))
      BY <2>1, <2>2
    <3> QED
      BY <3>1, <3>2, <3>3
  <2>6. Mapped(h, u) \in Seq(Nat) /\ Len(Mapped(h, u)) = Len(u)
    BY <1>1, <2>2
  <2>7. Mapped(h, u) = w
    BY <2>2, <2>3, <2>5, <2>6, SeqEqual
  <2> QED
    BY <2>7 DEF u, w, a, c
<1> QED
  BY <1>1, <1>2, ConcatTotal

\* A function may be defined from its value one before.
Iterates(f, m, a, step) ==
  \A n \in 0..m : f[n] = IF n = 0 THEN a ELSE step[<<n, f[n - 1]>>]

LEMMA RecursionExists ==
  ASSUME NEW V, NEW m \in Nat, NEW a \in V, NEW step \in [(1..m) \X V -> V]
  PROVE  \E f : f \in [0..m -> V] /\ Iterates(f, m, a, step)
<1> DEFINE Good(f, k) == /\ f \in [0..k -> V]
                         /\ \A n \in 0..k : f[n] = IF n = 0 THEN a ELSE step[<<n, f[n - 1]>>]
           S == {k \in Nat : k <= m => \E f : Good(f, k)}
<1>1. 0 \in S
  <2>1. Good([n \in 0..0 |-> a], 0)
    OBVIOUS
  <2> QED
    BY <2>1
<1>2. ASSUME NEW k \in Nat, k \in S
      PROVE  k + 1 \in S
  <2> SUFFICES ASSUME k + 1 <= m PROVE \E f : Good(f, k + 1)
    OBVIOUS
  <2>1. PICK f : Good(f, k)
    BY <1>2
  <2> DEFINE g == [n \in 0..(k + 1) |-> IF n = k + 1 THEN step[<<k + 1, f[k]>>] ELSE f[n]]
  <2>2. step[<<k + 1, f[k]>>] \in V
    <3>1. <<k + 1, f[k]>> \in (1..m) \X V
      BY <2>1
    <3> QED
      BY <3>1
  <2>3. g \in [0..(k + 1) -> V]
    BY <2>1, <2>2
  <2>4. ASSUME NEW n \in 0..(k + 1)
        PROVE  g[n] = IF n = 0 THEN a ELSE step[<<n, g[n - 1]>>]
    <3>1. CASE n = k + 1
      <4>1. n - 1 = k /\ k \in 0..(k + 1) /\ k # k + 1 /\ n # 0
        BY <3>1
      <4> QED
        BY <3>1, <4>1
    <3>2. CASE n \in 0..k
      <4>1. n # 0 => n - 1 \in 0..(k + 1) /\ n - 1 # k + 1
        BY <3>2
      <4>2. n # k + 1
        BY <3>2
      <4> QED
        BY <2>1, <3>2, <4>1, <4>2
    <3> QED
      BY <3>1, <3>2
  <2> QED
    BY <2>3, <2>4
<1> HIDE DEF S
<1>3. Nat \subseteq S
  BY <1>1, <1>2, SetInduction
<1> QED
  BY <1>3 DEF S, Iterates

-----------------------------------------------------------------------------
(* The sum that MapThenSumSet takes over a set: a recursion on the subsets, which
   removes an arbitrary element each time. *)

\* A family of sets that has {} and, with a part of S, the part with one more element, has
\* every part of S.
LEMMA PartInduction ==
  ASSUME NEW S, IsFiniteSet(S), NEW F, {} \in F,
         \A T \in F : \A x \in S : T \subseteq S /\ x \notin T => T \cup {x} \in F
  PROVE  SUBSET S \subseteq F
<1> DEFINE N == {n \in Nat : \A T \in SUBSET S : Cardinality(T) = n => T \in F}
<1>1. \A T \in SUBSET S : IsFiniteSet(T) /\ Cardinality(T) \in Nat
  BY FS_Subset, FS_CardinalityType
<1>2. 0 \in N
  BY <1>1, FS_EmptySet
<1>3. ASSUME NEW n \in Nat, n \in N
      PROVE  n + 1 \in N
  <2> SUFFICES ASSUME NEW T \in SUBSET S, Cardinality(T) = n + 1 PROVE T \in F
    OBVIOUS
  <2>1. T # {}
    <3>1. Cardinality({}) = 0 /\ n + 1 # 0
      BY FS_EmptySet
    <3> QED
      BY <3>1
  <2>2. PICK x \in T : TRUE
    BY <2>1
  <2>3. Cardinality(T \ {x}) = n
    BY <1>1, <2>2, FS_RemoveElement
  <2>4. T \ {x} \in F
    BY <1>3, <2>3
  <2>5. (T \ {x}) \cup {x} = T /\ x \in S
    BY <2>2
  <2> QED
    BY <2>4, <2>5
<1> HIDE DEF N
<1>4. Nat \subseteq N
  BY <1>2, <1>3, SetInduction
<1> QED
  BY <1>1, <1>4 DEF N

\* A finite set of numbers has a greatest one.
LEMMA MostExists ==
  ASSUME NEW S, S \subseteq Nat, IsFiniteSet(S), S # {}
  PROVE  \E x \in S : \A y \in S : x >= y
<1> DEFINE F == {T \in SUBSET S : T # {} => \E x \in T : \A y \in T : x >= y}
<1>1. {} \in F
  OBVIOUS
<1>2. ASSUME NEW T \in F, NEW z \in S
      PROVE  T \cup {z} \in F
  <2>1. CASE T = {}
    <3>1. z >= z /\ z \in T \cup {z} /\ \A y \in T \cup {z} : y = z
      BY <2>1
    <3> QED
      BY <3>1
  <2>2. CASE T # {}
    <3>1. PICK x \in T : \A y \in T : x >= y
      BY <2>2
    <3>2. T \subseteq Nat /\ x \in Nat /\ z \in Nat
      OBVIOUS
    <3>3. CASE x >= z
      BY <3>1, <3>3
    <3>4. CASE ~(x >= z)
      <4>1. \A y \in T \cup {z} : z >= y
        BY <3>1, <3>2, <3>4
      <4> QED
        BY <4>1
    <3> QED
      BY <3>3, <3>4
  <2> QED
    BY <2>1, <2>2
<1> HIDE DEF F
<1>3. S \in F
  BY <1>1, <1>2, PartInduction
<1> QED
  BY <1>3 DEF F

\* The numbers of g at the elements of T.
Cut(g, T) == [x \in DOMAIN g |-> IF x \in T THEN g[x] ELSE 0]
Part(g, T) == SumOver(Cut(g, T))

LEMMA PartType ==
  ASSUME NEW S, IsFiniteSet(S), NEW g \in [S -> Nat], NEW T
  PROVE  Part(g, T) \in Nat
<1>1. Cut(g, T) \in [S -> Nat]
  BY DEF Cut
<1> QED
  BY <1>1, SumType DEF Part

LEMMA EmptyPart ==
  ASSUME NEW S, IsFiniteSet(S), NEW g \in [S -> Nat]
  PROVE  Part(g, {}) = 0
<1> DEFINE n == Cardinality(S)
           order == Listed(S)
           c == Cut(g, {})
           s == [i \in 1..n |-> c[order[i]]]
<1>1. n \in Nat /\ order \in [1..n -> S]
  BY ListedFacts
<1>2. DOMAIN c = S /\ \A x \in S : c[x] = 0
  BY DEF Cut
<1>3. Part(g, {}) = Total(s)
  <2>1. DOMAIN order = 1..n
    BY <1>1
  <2> HIDE DEF order, n, c
  <2> QED
    BY <1>2, <2>1 DEF Part, SumOver, order, c
<1> HIDE DEF order, n, c
<1>4. Len(s) = n /\ \A i \in 1..n : s[i] = 0
  <2>1. s \in Seq(Nat) /\ Len(s) = n
    BY <1>1, <1>2, IsASeq
  <2> QED
    BY <1>1, <1>2, <2>1
<1> HIDE DEF s
<1> QED
  BY <1>1, <1>3, <1>4, ZeroTotal

LEMMA SameFunction ==
  ASSUME NEW S, NEW V, NEW f \in [S -> V], NEW h \in [S -> V], \A y \in S : f[y] = h[y]
  PROVE  h = f
OBVIOUS

LEMMA PartGrows ==
  ASSUME NEW S, IsFiniteSet(S), NEW g \in [S -> Nat], NEW T, NEW U, NEW x \in S,
         x \notin T, U = T \cup {x}
  PROVE  Part(g, U) = Part(g, T) + g[x]
<1> DEFINE c == Cut(g, T)
           k == g[x]
<1>1. c \in [S -> Nat]
  BY DEF Cut
<1>2. c[x] = 0 /\ k \in Nat
  BY DEF Cut
<1>3. Cut(g, U) = [c EXCEPT ![x] = c[x] + k]
  <2> DEFINE h == [c EXCEPT ![x] = c[x] + k]
  <2>1. h \in [S -> Nat] /\ h[x] = k /\ \A y \in S \ {x} : h[y] = c[y]
    <3> HIDE DEF c, k
    <3> QED
      BY <1>1, <1>2
  <2>2. \A y \in S : Cut(g, U)[y] = h[y]
    <3> HIDE DEF h
    <3> QED
      BY <2>1 DEF Cut
  <2>3. Cut(g, U) \in [S -> Nat]
    BY DEF Cut
  <2> HIDE DEF h, c, k
  <2>4. h = Cut(g, U)
    BY <2>1, <2>2, <2>3, SameFunction
  <2> QED
    BY <2>4 DEF h
<1> HIDE DEF c, k
<1>4. SumOver([c EXCEPT ![x] = c[x] + k]) = SumOver(c) + k
  BY ZenonT(30), <1>1, <1>2, RaisedSum
<1> QED
  BY <1>3, <1>4 DEF Part, c, k

\* Two disjoint parts add up.
LEMMA PartsAdd ==
  ASSUME NEW S, IsFiniteSet(S), NEW g \in [S -> Nat],
         NEW T \in SUBSET S, NEW U \in SUBSET S, NEW W, T \cap U = {}, W = T \cup U
  PROVE  Part(g, W) = Part(g, T) + Part(g, U)
<1> DEFINE Adds(V) == \A Z : T \cap V = {} /\ Z = T \cup V =>
                                Part(g, Z) = Part(g, T) + Part(g, V)
           F == {V \in SUBSET S : Adds(V)}
<1>0. \A V : Part(g, V) \in Nat
  BY PartType
<1>1. {} \in F
  <2> SUFFICES ASSUME NEW Z, Z = T PROVE Part(g, Z) = Part(g, T) + Part(g, {})
    OBVIOUS
  <2>1. Part(g, {}) = 0
    BY EmptyPart
  <2>2. Part(g, T) + 0 = Part(g, T)
    BY <1>0
  <2> QED
    BY <2>1, <2>2
<1>2. ASSUME NEW V \in F, NEW x \in S, x \notin V
      PROVE  V \cup {x} \in F
  <2> DEFINE Vx == V \cup {x}
             TV == T \cup V
  <2> SUFFICES ASSUME NEW Z, T \cap Vx = {}, Z = T \cup Vx
               PROVE  Part(g, Z) = Part(g, T) + Part(g, Vx)
    OBVIOUS
  <2>1. x \notin TV /\ Z = TV \cup {x} /\ T \cap V = {}
    BY <1>2
  <2>2. Part(g, TV) = Part(g, T) + Part(g, V)
    BY <2>1
  <2>3. Vx = V \cup {x}
    OBVIOUS
  <2> HIDE DEF TV, Vx
  <2>4. Part(g, Z) = Part(g, TV) + g[x]
    BY <2>1, PartGrows
  <2>5. Part(g, Vx) = Part(g, V) + g[x]
    BY <1>2, <2>3, PartGrows
  <2>6. g[x] \in Nat /\ Part(g, T) \in Nat /\ Part(g, V) \in Nat
    BY <1>0
  <2> QED
    BY <2>2, <2>4, <2>5, <2>6
<1> HIDE DEF F
<1>3. U \in F
  BY <1>1, <1>2, PartInduction
<1> QED
  BY <1>3 DEF F

\* A part of a part is no more, and an element of a part neither.
LEMMA PartOfPart ==
  ASSUME NEW S, IsFiniteSet(S), NEW g \in [S -> Nat], NEW T \in SUBSET S
  PROVE  /\ \A U \in SUBSET T : Part(g, U) <= Part(g, T)
         /\ \A x \in T : g[x] <= Part(g, T)
<1>1. \A V : Part(g, V) \in Nat
  BY PartType
<1>2. ASSUME NEW U \in SUBSET T
      PROVE  Part(g, U) <= Part(g, T)
  <2>1. T = U \cup (T \ U) /\ U \cap (T \ U) = {} /\ T \ U \in SUBSET S /\ U \in SUBSET S
    OBVIOUS
  <2>2. Part(g, T) = Part(g, U) + Part(g, T \ U)
    BY <2>1, PartsAdd
  <2> QED
    BY <1>1, <2>2
<1>3. ASSUME NEW x \in T
      PROVE  g[x] <= Part(g, T)
  <2>1. {x} = {} \cup {x} /\ x \notin {} /\ {x} \in SUBSET T
    OBVIOUS
  <2>2. Part(g, {x}) = Part(g, {}) + g[x]
    BY <2>1, PartGrows
  <2>3. Part(g, {}) = 0 /\ g[x] \in Nat
    BY EmptyPart
  <2>4. Part(g, {x}) <= Part(g, T)
    BY <1>2, <2>1
  <2> QED
    BY <2>2, <2>3, <2>4
<1> QED
  BY <1>2, <1>3

\* f is the recursion of MapThenSumSet over the subsets of T, with the numbers of g.
SumsUp(f, g, T) ==
  f = [s \in SUBSET T |-> IF s = {} THEN 0
                          ELSE LET x == CHOOSE y \in s : TRUE IN g[x] + f[s \ {x}]]

LEMMA SumsUpExists ==
  ASSUME NEW S, IsFiniteSet(S), NEW g \in [S -> Nat], NEW T \in SUBSET S
  PROVE  \E f : SumsUp(f, g, T)
<1> DEFINE f == [s \in SUBSET T |-> Part(g, s)]
<1>1. ASSUME NEW s \in SUBSET T, s # {}
      PROVE  LET x == CHOOSE y \in s : TRUE IN Part(g, s) = g[x] + f[s \ {x}]
  <2> DEFINE x == CHOOSE y \in s : TRUE
  <2>1. x \in s
    BY <1>1
  <2> HIDE DEF x
  <2> DEFINE rest == s \ {x}
  <2>2. s = rest \cup {x} /\ x \notin rest /\ rest \in SUBSET T /\ x \in S
    BY <2>1
  <2> HIDE DEF rest
  <2>3. Part(g, s) = Part(g, rest) + g[x]
    BY <2>2, PartGrows
  <2>4. Part(g, rest) \in Nat /\ g[x] \in Nat /\ f[rest] = Part(g, rest)
    BY <2>2, PartType
  <2>5. Part(g, s) = g[x] + f[rest]
    BY <2>3, <2>4
  <2> QED
    BY <2>5 DEF x, rest
<1>2. Part(g, {}) = 0
  BY EmptyPart
<1>3. f = [s \in SUBSET T |-> IF s = {} THEN 0
                              ELSE LET x == CHOOSE y \in s : TRUE IN g[x] + f[s \ {x}]]
  BY <1>1, <1>2
<1> HIDE DEF f
<1> QED
  BY <1>3 DEF SumsUp

\* It gives the sum, whichever elements it chooses.
LEMMA SumsUpIsPart ==
  ASSUME NEW S, IsFiniteSet(S), NEW g \in [S -> Nat], NEW T \in SUBSET S,
         NEW f, SumsUp(f, g, T)
  PROVE  f[T] = Part(g, T)
<1> DEFINE N == {n \in Nat : \A s \in SUBSET T : Cardinality(s) = n => f[s] = Part(g, s)}
<1>1. \A s \in SUBSET T : IsFiniteSet(s) /\ Cardinality(s) \in Nat /\ s \in SUBSET S
  BY FS_Subset, FS_CardinalityType
<1>2. \A s \in SUBSET T : f[s] = IF s = {} THEN 0
                                 ELSE LET x == CHOOSE y \in s : TRUE IN g[x] + f[s \ {x}]
  BY DEF SumsUp
<1>3. 0 \in N
  BY <1>1, <1>2, EmptyPart, FS_EmptySet
<1>4. ASSUME NEW n \in Nat, n \in N
      PROVE  n + 1 \in N
  <2> SUFFICES ASSUME NEW s \in SUBSET T, Cardinality(s) = n + 1
               PROVE  f[s] = Part(g, s)
    OBVIOUS
  <2> DEFINE x == CHOOSE y \in s : TRUE
             rest == s \ {x}
  <2>1. s # {}
    <3>1. Cardinality({}) = 0 /\ n + 1 # 0
      BY FS_EmptySet
    <3> QED
      BY <3>1
  <2>2. x \in s /\ f[s] = g[x] + f[rest]
    BY <1>2, <2>1
  <2> HIDE DEF x
  <2>3. s = rest \cup {x} /\ x \notin rest /\ rest \in SUBSET T /\ x \in S
    BY <2>2
  <2>4. Cardinality(rest) = n
    <3>1. Cardinality(rest) = Cardinality(s) - 1
      BY <1>1, <2>2, FS_RemoveElement
    <3> QED
      BY <3>1
  <2> HIDE DEF rest
  <2>5. f[rest] = Part(g, rest)
    BY <1>4, <2>3, <2>4
  <2>6. Part(g, s) = Part(g, rest) + g[x]
    BY <2>3, PartGrows
  <2>7. g[x] \in Nat /\ Part(g, rest) \in Nat
    BY <2>3, PartType
  <2> QED
    BY <2>2, <2>5, <2>6, <2>7
<1> HIDE DEF N
<1>5. Nat \subseteq N
  BY <1>3, <1>4, SetInduction
<1> QED
  BY <1>1, <1>5 DEF N
=============================================================================
