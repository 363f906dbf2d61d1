----------------------------- MODULE Induction -----------------------------
(***************************************************************************)
(* Induction over positions, with sets in the place of predicates, and the *)
(* loops that walk over a text from left to right: at position i the loop  *)
(* puts out out[i] and goes on at nx[i], until it is past the end.  Such a *)
(* loop is a recursive function; here it is shown to be well defined.      *)
(***************************************************************************)
EXTENDS Integers, Sequences, WellFoundedInduction, TLAPS

\* A set of natural numbers that is not empty has a least element.
LEMMA LeastElement ==
    ASSUME NEW T \in SUBSET Nat, T # {}
    PROVE  \E n \in T : \A m \in T : n <= m
<1> DEFINE Less == {ss \in Nat \X Nat : ss[1] < ss[2]}
<1>1. IsWellFoundedOn(Less, Nat)
  BY NatLessThanWellFounded DEF OpToRel
<1> HIDE DEF Less
<1>2. PICK n \in T : \A m \in T : ~(<<m, n>> \in Less)
  BY <1>1, WFMin
<1>3. ASSUME NEW m \in T
      PROVE  n <= m
  <2>1. <<m, n>> \in Nat \X Nat /\ <<m, n>>[1] = m /\ <<m, n>>[2] = n
    OBVIOUS
  <2>2. ~(m < n)
    BY <1>2, <2>1 DEF Less
  <2> QED BY <2>2
<1> QED BY <1>3

\* Course of values: a set of natural numbers that contains a number as soon
\* as it contains all the smaller ones contains them all.
LEMMA CourseOfValues ==
    ASSUME NEW S, \A n \in Nat : (\A m \in Nat : m < n => m \in S) => n \in S
    PROVE  Nat \subseteq S
<1>1. SUFFICES ASSUME Nat \ S # {} PROVE FALSE
  OBVIOUS
<1>2. PICK n \in Nat \ S : \A m \in Nat \ S : n <= m
  BY <1>1, LeastElement
<1>3. \A m \in Nat : m < n => m \in S
  BY <1>2
<1> QED BY <1>2, <1>3

\* The positions of a text of N items, from the end: what holds at i as soon as
\* it holds at every later position up to N + 1 holds at all of them.
LEMMA FromTheEnd ==
    ASSUME NEW N \in Nat, NEW S,
           \A i \in 1..(N + 1) : (\A j \in 1..(N + 1) : j > i => j \in S) => i \in S
    PROVE  1..(N + 1) \subseteq S
<1> DEFINE T == {n \in Nat : n <= N => N + 1 - n \in S}
<1>1. ASSUME NEW n \in Nat, \A m \in Nat : m < n => m \in T
      PROVE  n \in T
  <2>1. SUFFICES ASSUME n <= N PROVE N + 1 - n \in S
    OBVIOUS
  <2>2. ASSUME NEW j \in 1..(N + 1), j > N + 1 - n
        PROVE  j \in S
    <3>1. N + 1 - j \in Nat /\ N + 1 - j < n /\ N + 1 - j <= N
      BY <2>1, <2>2
    <3>2. N + 1 - j \in T
      BY <1>1, <3>1
    <3>3. N + 1 - (N + 1 - j) = j
      BY <2>2
    <3> QED BY <3>1, <3>2, <3>3
  <2>3. N + 1 - n \in 1..(N + 1)
    BY <2>1
  <2> QED BY <2>2, <2>3
<1> HIDE DEF T
<1>2. Nat \subseteq T
  BY <1>1, CourseOfValues
<1>3. ASSUME NEW i \in 1..(N + 1)
      PROVE  i \in S
  <2>1. N + 1 - i \in Nat /\ N + 1 - i <= N /\ N + 1 - (N + 1 - i) = i
    OBVIOUS
  <2> QED BY <1>2, <2>1 DEF T
<1> QED BY <1>3

\* The rank falls from round to round, until the loop stops where nx[d] is d.
Descends(D, N, rank, nx) ==
    \A d \in D : rank[d] \in 0..N /\ (nx[d] # d => nx[d] \in D /\ rank[nx[d]] < rank[d])

\* f is the result of a loop: what one round makes of the results of the rounds
\* behind it.
Walks(f, D, nx, out) == f = [d \in D |-> IF nx[d] = d THEN out[d] ELSE out[d] \o f[nx[d]]]
Jumps(f, D, nx) == f = [d \in D |-> IF nx[d] = d THEN d ELSE f[nx[d]]]
Horners(f, D, nx, add) == f = [d \in D |-> IF nx[d] = d THEN 0 ELSE 10 * f[nx[d]] + add[d]]

\* The loop that puts out out[d] at d, and whose rank falls from round to round,
\* has a result: a function that satisfies its equation everywhere.
LEMMA WalkExists ==
    ASSUME NEW D, NEW N \in Nat, NEW rank, NEW nx, NEW out,
           Descends(D, N, rank, nx)
    PROVE  \E f : Walks(f, D, nx, out)
<1>0. \A d \in D : rank[d] \in 0..N /\ (nx[d] # d => nx[d] \in D /\ rank[nx[d]] < rank[d])
  BY DEF Descends
<1> DEFINE Round(f, d) == IF nx[d] = d THEN out[d] ELSE out[d] \o f[nx[d]]
           Runs(f, n) == \A d \in D : rank[d] < n => f[d] = Round(f, d)
           S == {n \in Nat : \E f : Runs(f, n)}
<1>1. ASSUME NEW n \in Nat, NEW f, Runs(f, n)
      PROVE  \E g : Runs(g, n + 1)
  <2> DEFINE g == [d \in D |-> IF rank[d] < n THEN f[d] ELSE Round(f, d)]
  <2>1. ASSUME NEW d \in D, rank[d] < n + 1
        PROVE  g[d] = Round(f, d)
    BY <1>0, <1>1, <2>1
  <2>2. ASSUME NEW d \in D, rank[d] < n + 1
        PROVE  Round(f, d) = Round(g, d)
    <3>1. CASE nx[d] = d
      BY <3>1
    <3>2. CASE nx[d] # d
      <4>1. rank[nx[d]] < n /\ nx[d] \in D
        BY <1>0, <2>2, <3>2
      <4>2. g[nx[d]] = f[nx[d]]
        BY <4>1
      <4> HIDE DEF g
      <4> QED BY <3>2, <4>2
    <3> QED BY <3>1, <3>2
  <2> HIDE DEF g, Round
  <2>3. Runs(g, n + 1)
    BY <2>1, <2>2
  <2> HIDE DEF Runs
  <2> QED BY <2>3
<1>2. \E f : Runs(f, 0)
  <2>1. \A d \in D : ~(rank[d] < 0)
    BY <1>0
  <2> QED BY <2>1
<1> HIDE DEF Runs
<1>3. ASSUME NEW n \in Nat, \A m \in Nat : m < n => m \in S
      PROVE  n \in S
  <2>1. CASE n = 0
    BY <1>2, <2>1
  <2>2. CASE n # 0
    <3>1. n - 1 \in Nat /\ n - 1 < n /\ (n - 1) + 1 = n
      BY <2>2
    <3>2. PICK f : Runs(f, n - 1)
      BY <1>3, <3>1
    <3>3. \E g : Runs(g, n)
      BY <1>1, <3>1, <3>2
    <3> QED BY <3>3
  <2> QED BY <2>1, <2>2
<1> HIDE DEF S
<1>4. Nat \subseteq S
  BY <1>3, CourseOfValues
<1>5. N + 1 \in S
  BY <1>4
<1>6. PICK f : Runs(f, N + 1)
  BY <1>5 DEF S
<1>7. ASSUME NEW d \in D
      PROVE  f[d] = Round(f, d)
  <2>1. rank[d] < N + 1
    BY <1>0
  <2> HIDE DEF Round
  <2> QED BY <1>6, <2>1 DEF Runs
<1> DEFINE h == [d \in D |-> f[d]]
<1>8. ASSUME NEW d \in D
      PROVE  h[d] = Round(h, d)
  <2>1. h[d] = f[d] /\ (nx[d] # d => h[nx[d]] = f[nx[d]])
    BY <1>0
  <2> HIDE DEF h
  <2> QED BY <1>7, <2>1
<1>9. h = [d \in D |-> h[d]]
  OBVIOUS
<1> HIDE DEF h
<1>10. [d \in D |-> IF nx[d] = d THEN out[d] ELSE out[d] \o h[nx[d]]] = [d \in D |-> h[d]]
  BY <1>8
<1>11. Walks(h, D, nx, out)
  BY <1>9, <1>10, Zenon DEF Walks
<1> QED BY <1>11

\* The same for the loop that only looks for the place where it stops.
LEMMA JumpExists ==
    ASSUME NEW D, NEW N \in Nat, NEW rank, NEW nx,
           Descends(D, N, rank, nx)
    PROVE  \E f : Jumps(f, D, nx)
<1>0. \A d \in D : rank[d] \in 0..N /\ (nx[d] # d => nx[d] \in D /\ rank[nx[d]] < rank[d])
  BY DEF Descends
<1> DEFINE Round(f, d) == IF nx[d] = d THEN d ELSE f[nx[d]]
           Runs(f, n) == \A d \in D : rank[d] < n => f[d] = Round(f, d)
           S == {n \in Nat : \E f : Runs(f, n)}
<1>1. ASSUME NEW n \in Nat, NEW f, Runs(f, n)
      PROVE  \E g : Runs(g, n + 1)
  <2> DEFINE g == [d \in D |-> IF rank[d] < n THEN f[d] ELSE Round(f, d)]
  <2>1. ASSUME NEW d \in D, rank[d] < n + 1
        PROVE  g[d] = Round(f, d)
    BY <1>0, <1>1, <2>1
  <2>2. ASSUME NEW d \in D, rank[d] < n + 1
        PROVE  Round(f, d) = Round(g, d)
    <3>1. CASE nx[d] = d
      BY <3>1
    <3>2. CASE nx[d] # d
      <4>1. rank[nx[d]] < n /\ nx[d] \in D
        BY <1>0, <2>2, <3>2
      <4>2. g[nx[d]] = f[nx[d]]
        BY <4>1
      <4> HIDE DEF g
      <4> QED BY <3>2, <4>2
    <3> QED BY <3>1, <3>2
  <2> HIDE DEF g, Round
  <2>3. Runs(g, n + 1)
    BY <2>1, <2>2
  <2> HIDE DEF Runs
  <2> QED BY <2>3
<1>2. \E f : Runs(f, 0)
  <2>1. \A d \in D : ~(rank[d] < 0)
    BY <1>0
  <2> QED BY <2>1
<1> HIDE DEF Runs
<1>3. ASSUME NEW n \in Nat, \A m \in Nat : m < n => m \in S
      PROVE  n \in S
  <2>1. CASE n = 0
    BY <1>2, <2>1
  <2>2. CASE n # 0
    <3>1. n - 1 \in Nat /\ n - 1 < n /\ (n - 1) + 1 = n
      BY <2>2
    <3>2. PICK f : Runs(f, n - 1)
      BY <1>3, <3>1
    <3>3. \E g : Runs(g, n)
      BY <1>1, <3>1, <3>2
    <3> QED BY <3>3
  <2> QED BY <2>1, <2>2
<1> HIDE DEF S
<1>4. Nat \subseteq S
  BY <1>3, CourseOfValues
<1>5. N + 1 \in S
  BY <1>4
<1>6. PICK f : Runs(f, N + 1)
  BY <1>5 DEF S
<1>7. ASSUME NEW d \in D
      PROVE  f[d] = Round(f, d)
  <2>1. rank[d] < N + 1
    BY <1>0
  <2> HIDE DEF Round
  <2> QED BY <1>6, <2>1 DEF Runs
<1> DEFINE h == [d \in D |-> f[d]]
<1>8. ASSUME NEW d \in D
      PROVE  h[d] = Round(h, d)
  <2>1. h[d] = f[d] /\ (nx[d] # d => h[nx[d]] = f[nx[d]])
    BY <1>0
  <2> HIDE DEF h
  <2> QED BY <1>7, <2>1
<1>9. h = [d \in D |-> h[d]]
  OBVIOUS
<1> HIDE DEF h
<1>10. [d \in D |-> IF nx[d] = d THEN d ELSE h[nx[d]]] = [d \in D |-> h[d]]
  BY <1>8
<1>11. Jumps(h, D, nx)
  BY <1>9, <1>10, Zenon DEF Jumps
<1> QED BY <1>11

\* The same for the loop that makes a number of digits.
LEMMA HornerExists ==
    ASSUME NEW D, NEW N \in Nat, NEW rank, NEW nx, NEW add,
           Descends(D, N, rank, nx)
    PROVE  \E f : Horners(f, D, nx, add)
<1>0. \A d \in D : rank[d] \in 0..N /\ (nx[d] # d => nx[d] \in D /\ rank[nx[d]] < rank[d])
  BY DEF Descends
<1> DEFINE Round(f, d) == IF nx[d] = d THEN 0 ELSE 10 * f[nx[d]] + add[d]
           Runs(f, n) == \A d \in D : rank[d] < n => f[d] = Round(f, d)
           S == {n \in Nat : \E f : Runs(f, n)}
<1>1. ASSUME NEW n \in Nat, NEW f, Runs(f, n)
      PROVE  \E g : Runs(g, n + 1)
  <2> DEFINE g == [d \in D |-> IF rank[d] < n THEN f[d] ELSE Round(f, d)]
  <2>1. ASSUME NEW d \in D, rank[d] < n + 1
        PROVE  g[d] = Round(f, d)
    BY <1>0, <1>1, <2>1
  <2>2. ASSUME NEW d \in D, rank[d] < n + 1
        PROVE  Round(f, d) = Round(g, d)
    <3>1. CASE nx[d] = d
      BY <3>1
    <3>2. CASE nx[d] # d
      <4>1. rank[nx[d]] < n /\ nx[d] \in D
        BY <1>0, <2>2, <3>2
      <4>2. g[nx[d]] = f[nx[d]]
        BY <4>1
      <4> HIDE DEF g
      <4> QED BY <3>2, <4>2
    <3> QED BY <3>1, <3>2
  <2> HIDE DEF g, Round
  <2>3. Runs(g, n + 1)
    BY <2>1, <2>2
  <2> HIDE DEF Runs
  <2> QED BY <2>3
<1>2. \E f : Runs(f, 0)
  <2>1. \A d \in D : ~(rank[d] < 0)
    BY <1>0
  <2> QED BY <2>1
<1> HIDE DEF Runs
<1>3. ASSUME NEW n \in Nat, \A m \in Nat : m < n => m \in S
      PROVE  n \in S
  <2>1. CASE n = 0
    BY <1>2, <2>1
  <2>2. CASE n # 0
    <3>1. n - 1 \in Nat /\ n - 1 < n /\ (n - 1) + 1 = n
      BY <2>2
    <3>2. PICK f : Runs(f, n - 1)
      BY <1>3, <3>1
    <3>3. \E g : Runs(g, n)
      BY <1>1, <3>1, <3>2
    <3> QED BY <3>3
  <2> QED BY <2>1, <2>2
<1> HIDE DEF S
<1>4. Nat \subseteq S
  BY <1>3, CourseOfValues
<1>5. N + 1 \in S
  BY <1>4
<1>6. PICK f : Runs(f, N + 1)
  BY <1>5 DEF S
<1>7. ASSUME NEW d \in D
      PROVE  f[d] = Round(f, d)
  <2>1. rank[d] < N + 1
    BY <1>0
  <2> HIDE DEF Round
  <2> QED BY <1>6, <2>1 DEF Runs
<1> DEFINE h == [d \in D |-> f[d]]
<1>8. ASSUME NEW d \in D
      PROVE  h[d] = Round(h, d)
  <2>1. h[d] = f[d] /\ (nx[d] # d => h[nx[d]] = f[nx[d]])
    BY <1>0
  <2> HIDE DEF h
  <2> QED BY <1>7, <2>1
<1>9. h = [d \in D |-> h[d]]
  OBVIOUS
<1> HIDE DEF h
<1>10. [d \in D |-> IF nx[d] = d THEN 0 ELSE 10 * h[nx[d]] + add[d]] = [d \in D |-> h[d]]
  BY <1>8
<1>11. Horners(h, D, nx, add)
  BY <1>9, <1>10, Zenon DEF Horners
<1> QED BY <1>11

=============================================================================
