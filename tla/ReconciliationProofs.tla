------------------------ MODULE ReconciliationProofs ------------------------
(***************************************************************************)
(* What the projection engine computes, for every finite set of evidence   *)
(* and every seed: the replay order is a permutation of the evidence that  *)
(* never goes back in time, folding it never raises, and the sessions it   *)
(* ends with are disjoint, traceable to one TAKE each, and continue the    *)
(* sessions of the seed.  From nothing, they are the declarative history.  *)
(*                                                                         *)
(* Induction over data is over sets of numbers (SetInduction): that the    *)
(* recursive functions behind Ordered, FoldLeft and Held exist is proved   *)
(* first.                                                                  *)
(***************************************************************************)
EXTENDS OccupancyHistory, WellFoundedInduction, FiniteSetTheorems, TLAPS

----------------------------------------------------------------------------
(* Least and greatest elements and induction, from the well-foundedness of *)
(* < on Nat: about SETS of numbers, so that they can be cited without      *)
(* instantiating an operator parameter.                                    *)

\* A nonempty set of natural numbers has a least element.
LEMMA LeastElement ==
  ASSUME NEW T, T \subseteq Nat, T # {}
  PROVE  \E x \in T : \A y \in T : x <= y
<1> DEFINE R == OpToRel(<, Nat)
<1>1. IsWellFoundedOn(R, Nat)
  BY NatLessThanWellFounded, Zenon
<1>2. \A x, y \in Nat : y < x => <<y, x>> \in R
  BY DEF OpToRel
<1> HIDE DEF R
<1>3. \E x \in T : \A y \in T : <<y, x>> \notin R
  BY <1>1, WFMin, Zenon
<1>4. PICK x \in T : \A y \in T : <<y, x>> \notin R
  BY <1>3
<1>5. ASSUME NEW y \in T PROVE x <= y
  <2>1. x \in Nat /\ y \in Nat
    OBVIOUS
  <2>2. ~(y < x)
    BY <2>1, <1>2, <1>4
  <2> QED
    BY <2>1, <2>2
<1> QED
  BY <1>4, <1>5

\* A nonempty set of integers that is bounded above has a greatest element.
LEMMA GreatestElement ==
  ASSUME NEW T, T \subseteq Int, T # {}, NEW b \in Int, \A x \in T : x <= b
  PROVE  \E x \in T : \A y \in T : y <= x
<1> DEFINE D == {b - x : x \in T}
<1>1. D \subseteq Nat /\ D # {}
  <2>1. \A x \in T : b - x \in Nat
    OBVIOUS
  <2> QED
    BY <2>1
<1>2. PICK d \in D : \A c \in D : d <= c
  BY <1>1, LeastElement
<1>3. PICK x \in T : d = b - x
  OBVIOUS
<1>4. \A y \in T : b - x <= b - y
  BY <1>2, <1>3
<1> QED
  BY <1>4

\* A set that holds 0 and is closed under successor holds every natural.
LEMMA SetInduction ==
  ASSUME NEW T, 0 \in T, \A n \in Nat : n \in T => n + 1 \in T
  PROVE  Nat \subseteq T
<1> SUFFICES ASSUME Nat \ T # {} PROVE FALSE
  OBVIOUS
<1>1. PICK m \in Nat \ T : \A y \in Nat \ T : m <= y
  BY LeastElement
<1>2. m # 0 /\ m - 1 \in Nat
  BY <1>1
<1>3. m - 1 \in T
  BY <1>1, <1>2
<1>4. (m - 1) + 1 \in T
  BY <1>2, <1>3
<1> QED
  BY <1>1, <1>4

----------------------------------------------------------------------------
(* Folding a sequence.                                                     *)

LEMMA MaxOfPositions ==
  ASSUME NEW n \in Nat, NEW s, s \subseteq 1..n, s # {}
  PROVE  Max(s) \in s /\ \A x \in s : x <= Max(s)
<1>1. \E x \in s : \A y \in s : y <= x
  <2>1. s \subseteq Int /\ n \in Int /\ \A x \in s : x <= n
    OBVIOUS
  <2> QED
    BY <2>1, GreatestElement, Zenon
<1>2. \E x \in s : \A y \in s : x >= y
  <2>1. \A x \in s : x \in Int
    OBVIOUS
  <2> QED
    BY <1>1, <2>1
<1>3. Max(s) \in s /\ \A y \in s : Max(s) >= y
  BY <1>2, Zenon DEF Max
<1> QED
  BY <1>3

Folded(start, q) == FoldLeft(Apply, start, q)

\* Folding from the left is a chain of applications, one per element.
LEMMA FoldIsChain ==
  ASSUME NEW start, NEW q, NEW n \in Nat, DOMAIN q = 1..n
  PROVE  \E p : /\ p[0] = start
                /\ \A k \in 1..n : p[k] = Apply(p[k - 1], q[k])
                /\ Folded(start, q) = p[n]
<1> DEFINE Body(f, s) == IF s = {} THEN start ELSE Apply(f[s \ {Max(s)}], q[Max(s)])
           IsIter(f, k) == f = [s \in SUBSET (1..k) |-> Body(f, s)]
           T == {k \in Nat : k <= n => \E f : IsIter(f, k)}
<1>1. 0 \in T
  <2> DEFINE f == [s \in SUBSET (1..0) |-> start]
  <2>1. SUBSET (1..0) = {{}}
    OBVIOUS
  <2>2. \A s \in SUBSET (1..0) : Body(f, s) = start
    BY <2>1, Zenon
  <2> HIDE DEF Body
  <2>3. f = [s \in SUBSET (1..0) |-> Body(f, s)]
    BY <2>2, Zenon
  <2> HIDE DEF f
  <2> QED
    BY <2>3
<1>2. ASSUME NEW k \in Nat, k \in T PROVE k + 1 \in T
  <2>0. SUFFICES ASSUME k + 1 <= n PROVE \E f : IsIter(f, k + 1)
    <3> HIDE DEF IsIter
    <3> QED
      OBVIOUS
  <2>1. PICK f : IsIter(f, k)
    <3> HIDE DEF IsIter
    <3> QED
      BY <1>2, <2>0
  <2> DEFINE g == [s \in SUBSET (1..(k + 1)) |-> Body(f, s)]
  <2>2. ASSUME NEW s \in SUBSET (1..(k + 1)), s # {} PROVE s \ {Max(s)} \in SUBSET (1..k)
    <3>1. Max(s) \in s /\ \A x \in s : x <= Max(s)
      <4>1. k + 1 \in Nat /\ s \subseteq 1..(k + 1)
        OBVIOUS
      <4> QED
        BY <2>2, <4>1, MaxOfPositions
    <3>2. ASSUME NEW x \in s \ {Max(s)} PROVE x \in 1..k
      <4> DEFINE m == Max(s)
      <4>1. x \in 1..(k + 1) /\ m \in 1..(k + 1) /\ x <= m /\ x # m
        BY <3>1
      <4> HIDE DEF m
      <4> QED
        BY <4>1
    <3> QED
      BY <3>2
  <2>3. \A s \in SUBSET (1..k) : g[s] = f[s]
    <3>1. \A s \in SUBSET (1..k) : s \in SUBSET (1..(k + 1))
      OBVIOUS
    <3>2. \A s \in SUBSET (1..k) : f[s] = Body(f, s)
      <4> HIDE DEF Body
      <4> QED
        BY <2>1
    <3> HIDE DEF Body
    <3> QED
      BY <3>1, <3>2
  <2>4. \A s \in SUBSET (1..(k + 1)) : Body(f, s) = Body(g, s)
    <3> SUFFICES ASSUME NEW s \in SUBSET (1..(k + 1)) PROVE Body(f, s) = Body(g, s)
      OBVIOUS
    <3> HIDE DEF g
    <3>1. CASE s = {}
      BY <3>1, Zenon
    <3>2. CASE s # {}
      <4>1. g[s \ {Max(s)}] = f[s \ {Max(s)}]
        BY <2>2, <2>3, <3>2, Zenon
      <4> QED
        BY <4>1, Zenon
    <3> QED
      BY <3>1, <3>2
  <2> HIDE DEF Body
  <2>5. IsIter(g, k + 1)
    BY <2>4, Zenon
  <2> HIDE DEF g, IsIter
  <2> QED
    BY <2>5
<1>3. n \in T
  <2> HIDE DEF T
  <2>1. Nat \subseteq T
    BY <1>1, <1>2, SetInduction, Zenon
  <2> QED
    BY <2>1
<1> DEFINE iter == CHOOSE f : f = [s \in SUBSET DOMAIN q |-> Body(f, s)]
<1>4. IsIter(iter, n)
  <2>1. \E f : IsIter(f, n)
    <3> HIDE DEF IsIter
    <3> QED
      BY <1>3
  <2> HIDE DEF Body
  <2> QED
    BY <2>1, Zenon
<1>5. Folded(start, q) = iter[1..n]
  BY DEF Folded, FoldLeft, MapThenFoldSet
<1> HIDE DEF iter
<1> DEFINE p == [k \in 0..n |-> iter[1..k]]
<1>6. p[0] = start
  <2>1. 1..0 = {} /\ {} \in SUBSET (1..n) /\ 0 \in 0..n
    OBVIOUS
  <2>2. iter[{}] = Body(iter, {})
    <3> HIDE DEF Body
    <3> QED
      BY <1>4, <2>1, Zenon
  <2>3. p[0] = iter[{}]
    BY <2>1
  <2> QED
    BY <2>2, <2>3, Zenon
<1>7. ASSUME NEW k \in 1..n PROVE p[k] = Apply(p[k - 1], q[k])
  <2>1. 1..k \in SUBSET (1..n) /\ 1..k # {} /\ k \in Nat /\ k \in 0..n /\ k - 1 \in 0..n
    <3>1. k \in 1..k /\ \A x \in 1..k : x \in 1..n
      OBVIOUS
    <3>2. k \in Nat /\ k \in 0..n /\ k - 1 \in 0..n
      OBVIOUS
    <3> QED
      BY <3>1, <3>2, Zenon
  <2>2. Max(1..k) = k
    <3>1. Max(1..k) \in 1..k /\ \A x \in 1..k : x <= Max(1..k)
      BY <2>1, MaxOfPositions
    <3>2. k \in 1..k
      OBVIOUS
    <3>3. k <= Max(1..k) /\ Max(1..k) <= k /\ Max(1..k) \in Int
      BY <3>1, <3>2
    <3> QED
      BY <3>3
  <2>3. (1..k) \ {k} = 1..(k - 1)
    OBVIOUS
  <2>4. iter[1..k] = Body(iter, 1..k)
    <3> HIDE DEF Body
    <3> QED
      BY <1>4, <2>1, Zenon
  <2>5. Body(iter, 1..k) = Apply(iter[1..(k - 1)], q[k])
    BY <2>1, <2>2, <2>3, Zenon
  <2> QED
    BY <2>1, <2>4, <2>5
<1>8. Folded(start, q) = p[n]
  BY <1>5
<1> HIDE DEF p
<1> QED
  BY <1>6, <1>7, <1>8

----------------------------------------------------------------------------
(* Finite sets.                                                            *)

LEMMA FiniteInduction ==
  ASSUME NEW S, IsFiniteSet(S), NEW C, {} \in C,
         \A T \in SUBSET S : \A x \in S \ T : T \in C => T \union {x} \in C
  PROVE  S \in C
<1> DEFINE D == {n \in Nat : \A T \in SUBSET S : Cardinality(T) = n => T \in C}
<1>0. \A T \in SUBSET S : IsFiniteSet(T) /\ Cardinality(T) \in Nat
  BY FS_Subset, FS_CardinalityType
<1>1. 0 \in D
  <2>1. \A T \in SUBSET S : Cardinality(T) = 0 => T = {}
    BY <1>0, FS_EmptySet
  <2> QED
    BY <2>1
<1>2. ASSUME NEW n \in Nat, n \in D PROVE n + 1 \in D
  <2> SUFFICES ASSUME NEW T \in SUBSET S, Cardinality(T) = n + 1 PROVE T \in C
    OBVIOUS
  <2>1. T # {}
    BY <1>0, FS_EmptySet
  <2>2. PICK x \in T : TRUE
    BY <2>1
  <2>3. Cardinality(T \ {x}) = n
    <3>1. Cardinality(T \ {x}) = Cardinality(T) - 1
      BY <1>0, <2>2, FS_RemoveElement
    <3> QED
      BY <3>1
  <2>4. T \ {x} \in C
    BY <1>2, <2>3
  <2>5. T = (T \ {x}) \union {x} /\ x \in S \ (T \ {x}) /\ T \ {x} \in SUBSET S
    BY <2>2
  <2> QED
    BY <2>4, <2>5, Zenon
<1>3. Nat \subseteq D
  <2> HIDE DEF D
  <2> QED
    BY <1>1, <1>2, SetInduction, Zenon
<1>4. Cardinality(S) \in D /\ S \in SUBSET S
  BY <1>0, <1>3
<1> QED
  BY <1>4

LEMMA FiniteImage ==
  ASSUME NEW S, IsFiniteSet(S), NEW f
  PROVE  IsFiniteSet({f[x] : x \in S})
<1> DEFINE C == {T \in SUBSET S : IsFiniteSet({f[x] : x \in T})}
<1>1. {} \in C
  <2>1. {f[x] : x \in {}} = {}
    OBVIOUS
  <2> QED
    BY <2>1, FS_EmptySet
<1>2. ASSUME NEW T \in SUBSET S, NEW y \in S \ T, T \in C PROVE T \union {y} \in C
  <2>1. {f[x] : x \in T \union {y}} = {f[x] : x \in T} \union {f[y]}
    OBVIOUS
  <2>2. IsFiniteSet({f[x] : x \in T} \union {f[y]})
    BY <1>2, FS_AddElement
  <2> QED
    BY <2>1, <2>2
<1>3. S \in C
  <2> HIDE DEF C
  <2> QED
    BY <1>1, <1>2, FiniteInduction, Zenon
<1> QED
  BY <1>3

----------------------------------------------------------------------------
(* The replay order.                                                       *)

\* Evidence that can be put in order: distinct ids, effects after causes,
\* and no circle of precedences.
Replayable(E) ==
  /\ IsFiniteSet(E)
  /\ \A e \in E : e.time \in Int /\ e.id \in Nat
  /\ \A a, b \in E : a # b => a.id # b.id
  /\ \A a, b \in E : Precedes(a, b) => a.time <= b.time
  /\ \A S \in (SUBSET E) \ {{}} : Ready(S) # {}

LEMMA EarliestExists ==
  ASSUME NEW E, Replayable(E), NEW S, S \subseteq E, S # {}
  PROVE  \E a \in S : \A b \in S \ {a} : Earlier(a, b)
<1> DEFINE Has(T) == T # {} => \E a \in T : \A b \in T \ {a} : Earlier(a, b)
           C == {T \in SUBSET S : Has(T)}
<1>1. {} \in C
  OBVIOUS
<1>2. ASSUME NEW T \in SUBSET S, NEW x \in S \ T, T \in C PROVE T \union {x} \in C
  <2>1. CASE T = {}
    BY <2>1
  <2>2. CASE T # {}
    <3>1. PICK a \in T : \A b \in T \ {a} : Earlier(a, b)
      BY <1>2, <2>2
    <3>2. \A e \in E : e.time \in Int /\ e.id \in Nat
      BY DEF Replayable
    <3>3. x # a /\ x.id # a.id
      BY DEF Replayable
    <3>4. CASE Earlier(a, x)
      BY <3>1, <3>4
    <3>5. CASE ~Earlier(a, x)
      <4>1. Earlier(x, a)
        BY <3>2, <3>3, <3>5 DEF Earlier
      <4>2. \A b \in T : Earlier(x, b)
        BY <3>1, <3>2, <4>1 DEF Earlier
      <4> QED
        BY <4>2
    <3> QED
      BY <3>4, <3>5
  <2> QED
    BY <2>1, <2>2
<1>3. IsFiniteSet(S)
  BY FS_Subset DEF Replayable
<1>4. S \in C
  <2> HIDE DEF C
  <2> QED
    BY <1>1, <1>2, <1>3, FiniteInduction, Zenon
<1> QED
  BY <1>4

\* What is replayed next comes before everything that is left, in time also.
LEMMA FirstReady ==
  ASSUME NEW E, Replayable(E), NEW S, S \subseteq E, S # {}
  PROVE  /\ First(Ready(S)) \in S
         /\ \A b \in S : ~Precedes(b, First(Ready(S)))
         /\ \A b \in S : First(Ready(S)).time <= b.time
<1>1. Ready(S) # {} /\ Ready(S) \subseteq S
  BY DEF Replayable, Ready
<1>2. \E a \in Ready(S) : \A b \in Ready(S) \ {a} : Earlier(a, b)
  BY <1>1, EarliestExists
<1> DEFINE f == First(Ready(S))
<1>3. f \in Ready(S) /\ \A b \in Ready(S) \ {f} : Earlier(f, b)
  BY <1>2, Zenon DEF First
<1> HIDE DEF f
<1>4. PICK m \in S : \A b \in S \ {m} : Earlier(m, b)
  BY EarliestExists
<1> DEFINE M == {x \in S : x.time = m.time}
<1>5. PICK r \in Ready(M) : TRUE
  <2>1. M \in (SUBSET E) \ {{}}
    OBVIOUS
  <2> HIDE DEF M
  <2> QED
    BY <2>1 DEF Replayable
<1>6. r \in M /\ \A x \in M : ~Precedes(x, r)
  BY <1>5 DEF Ready
<1>7. \A e \in E : e.time \in Int
  BY DEF Replayable
<1>8. \A b \in S : m.time <= b.time
  BY <1>4, <1>7 DEF Earlier
<1>9. ASSUME NEW x \in S PROVE ~Precedes(x, r)
  <2> SUFFICES ASSUME Precedes(x, r) PROVE FALSE
    OBVIOUS
  <2>1. x.time <= r.time /\ r.time = m.time
    BY <1>6 DEF Replayable
  <2>2. x \in M
    BY <1>7, <1>8, <2>1
  <2> QED
    BY <1>6, <2>2
<1>10. r \in Ready(S)
  BY <1>6, <1>9 DEF Ready
<1>11. f.time <= m.time
  BY <1>1, <1>3, <1>6, <1>7, <1>10 DEF Earlier
<1>12. \A b \in S : f.time <= b.time
  BY <1>1, <1>3, <1>7, <1>8, <1>11
<1> QED
  BY <1>3, <1>12 DEF Ready, f

\* q lists S, each element once, causes first and never back in time, and
\* always goes on with the first that is ready of what is left.
OrderOf(S, q) ==
  /\ Cardinality(S) \in Nat
  /\ q \in [1..Cardinality(S) -> S]
  /\ \A e \in S : \E i \in 1..Cardinality(S) : q[i] = e
  /\ \A i, j \in 1..Cardinality(S) :
       i < j => q[i] # q[j] /\ ~Precedes(q[j], q[i]) /\ q[i].time <= q[j].time
  /\ \A i \in 1..Cardinality(S) : q[i] = First(Ready({q[j] : j \in i..Cardinality(S)}))

LEMMA Prefixed ==
  ASSUME NEW X, NEW a, NEW n \in Nat, NEW r \in [1..n -> X]
  PROVE  /\ <<a>> \o r \in [1..(n + 1) -> X \union {a}]
         /\ (<<a>> \o r)[1] = a
         /\ \A i \in 1..n : (<<a>> \o r)[i + 1] = r[i]
<1>1. r \in Seq(X) /\ Len(r) = n
  OBVIOUS
<1>2. <<a>> \in Seq({a}) /\ Len(<<a>>) = 1 /\ <<a>>[1] = a
  OBVIOUS
<1>3. r \in Seq(X \union {a}) /\ <<a>> \in Seq(X \union {a})
  OBVIOUS
<1>4. /\ <<a>> \o r \in Seq(X \union {a}) /\ Len(<<a>> \o r) = n + 1
      /\ (<<a>> \o r)[1] = a
      /\ \A i \in 1..n : (<<a>> \o r)[i + 1] = r[i]
  BY <1>1, <1>2, <1>3
<1> DEFINE q == <<a>> \o r
<1> HIDE DEF q
<1>5. q \in [1..(n + 1) -> X \union {a}]
  <2>1. q \in Seq(X \union {a}) /\ Len(q) = n + 1
    BY <1>4 DEF q
  <2> QED
    BY <2>1
<1> QED
  BY <1>4, <1>5 DEF q

LEMMA OrderPrefixed ==
  ASSUME NEW S, IsFiniteSet(S), NEW a \in S, a = First(Ready(S)),
         \A b \in S : ~Precedes(b, a) /\ a.time <= b.time,
         NEW r, OrderOf(S \ {a}, r)
  PROVE  OrderOf(S, <<a>> \o r)
<1> DEFINE n == Cardinality(S \ {a})
           q == <<a>> \o r
<1>1. n \in Nat /\ Cardinality(S) = n + 1
  <2>1. /\ Cardinality(S) \in Nat /\ Cardinality(S \ {a}) \in Nat
        /\ Cardinality(S \ {a}) = Cardinality(S) - 1
    BY FS_CardinalityType, FS_RemoveElement
  <2> QED
    BY <2>1
<1>2. r \in [1..n -> S \ {a}]
  BY DEF OrderOf
<1>3. \A e \in S \ {a} : \E i \in 1..n : r[i] = e
  BY DEF OrderOf
<1>4. \A i, j \in 1..n : i < j => r[i] # r[j] /\ ~Precedes(r[j], r[i]) /\ r[i].time <= r[j].time
  BY DEF OrderOf
<1>g. \A i \in 1..n : r[i] = First(Ready({r[j] : j \in i..n}))
  BY DEF OrderOf
<1> HIDE DEF n
<1>5. /\ q \in [1..(n + 1) -> (S \ {a}) \union {a}] /\ q[1] = a
      /\ \A i \in 1..n : q[i + 1] = r[i]
  <2> DEFINE X == S \ {a}
  <2>1. r \in [1..n -> X]
    BY <1>2
  <2> HIDE DEF X, q
  <2>2. /\ q \in [1..(n + 1) -> X \union {a}] /\ q[1] = a
        /\ \A i \in 1..n : q[i + 1] = r[i]
    <3>1. n \in Nat
      BY <1>1
    <3>2. q \in [1..(n + 1) -> X \union {a}]
      BY <2>1, <3>1, Prefixed, Zenon DEF q
    <3>3. q[1] = a
      BY <2>1, <3>1, Prefixed DEF q
    <3>4. \A i \in 1..n : q[i + 1] = r[i]
      BY <2>1, <3>1, Prefixed DEF q
    <3> QED
      BY <3>2, <3>3, <3>4
  <2> QED
    BY <2>2 DEF X
<1> HIDE DEF q
<1>6. \A i \in 2..(n + 1) : i - 1 \in 1..n /\ q[i] = r[i - 1]
  <2> SUFFICES ASSUME NEW i \in 2..(n + 1) PROVE i - 1 \in 1..n /\ q[i] = r[i - 1]
    OBVIOUS
  <2>1. i - 1 \in 1..n /\ (i - 1) + 1 = i
    BY <1>1
  <2> QED
    BY <1>5, <2>1
<1>7. q \in [1..(n + 1) -> S]
  <2>1. (S \ {a}) \union {a} = S
    OBVIOUS
  <2> QED
    BY <1>5, <2>1
<1>8. ASSUME NEW e \in S PROVE \E i \in 1..(n + 1) : q[i] = e
  <2>1. CASE e = a
    <3>1. 1 \in 1..(n + 1)
      BY <1>1
    <3> QED
      BY <1>5, <2>1, <3>1
  <2>2. CASE e # a
    <3>1. PICK i \in 1..n : r[i] = e
      BY <1>3, <2>2
    <3>2. i + 1 \in 1..(n + 1)
      BY <1>1
    <3> QED
      BY <1>5, <3>1, <3>2
  <2> QED
    BY <2>1, <2>2
<1>9. ASSUME NEW i \in 1..(n + 1), NEW j \in 1..(n + 1), i < j
      PROVE  q[i] # q[j] /\ ~Precedes(q[j], q[i]) /\ q[i].time <= q[j].time
  <2>1. j \in 2..(n + 1)
    BY <1>1, <1>9
  <2>2. j - 1 \in 1..n /\ q[j] = r[j - 1]
    BY <1>6, <2>1
  <2>3. q[j] \in S \ {a}
    BY <1>2, <2>2
  <2>4. CASE i = 1
    BY <1>5, <2>3, <2>4
  <2>5. CASE i # 1
    <3>1. i \in 2..(n + 1)
      BY <1>1, <2>5
    <3>2. i - 1 \in 1..n /\ q[i] = r[i - 1] /\ i - 1 < j - 1
      BY <1>6, <1>9, <3>1
    <3> QED
      BY <1>4, <2>2, <3>2
  <2> QED
    BY <2>4, <2>5
<1>10. ASSUME NEW i \in 1..(n + 1) PROVE q[i] = First(Ready({q[j] : j \in i..(n + 1)}))
  <2>1. CASE i = 1
    <3>1. {q[j] : j \in 1..(n + 1)} = S
      BY <1>7, <1>8
    <3> QED
      BY <1>5, <2>1, <3>1
  <2>2. CASE i # 1
    <3>1. i \in 2..(n + 1)
      BY <1>1, <2>2
    <3>2. i - 1 \in 1..n /\ q[i] = r[i - 1]
      BY <1>6, <3>1
    <3>3. \A j \in i..(n + 1) : j - 1 \in (i - 1)..n /\ q[j] = r[j - 1]
      BY <1>1, <1>6, <3>1
    <3>4. \A j \in (i - 1)..n : j + 1 \in i..(n + 1) /\ q[j + 1] = r[j]
      BY <1>1, <1>5, <3>1
    <3>5. {q[j] : j \in i..(n + 1)} = {r[j] : j \in (i - 1)..n}
      BY <3>3, <3>4
    <3> QED
      BY <1>g, <3>2, <3>5
  <2> QED
    BY <2>1, <2>2
<1>11. OrderOf(S, q)
  BY <1>1, <1>7, <1>8, <1>9, <1>10 DEF OrderOf
<1> QED
  BY <1>11 DEF q

LEMMA OrderedIsOrder ==
  ASSUME NEW E, Replayable(E)
  PROVE  OrderOf(E, Ordered(E))
<1> DEFINE Body(f, S) == IF S = {} THEN <<>>
                         ELSE <<First(Ready(S))>> \o f[S \ {First(Ready(S))}]
           Small(n) == {S \in SUBSET E : Cardinality(S) <= n}
           IsFrom(f, D) == f = [S \in D |-> Body(f, S)]
           T == {n \in Nat : \E f : IsFrom(f, Small(n))}
<1>0. \A S \in SUBSET E : IsFiniteSet(S) /\ Cardinality(S) \in Nat
  BY FS_Subset, FS_CardinalityType DEF Replayable
<1>f. ASSUME NEW S \in SUBSET E, S # {}
      PROVE  /\ First(Ready(S)) \in S
             /\ Cardinality(S \ {First(Ready(S))}) = Cardinality(S) - 1
  <2>1. First(Ready(S)) \in S
    BY <1>f, FirstReady
  <2> QED
    BY <1>0, <2>1, FS_RemoveElement
<1>1. 0 \in T
  <2> DEFINE f == [S \in Small(0) |-> <<>>]
  <2>1. \A S \in Small(0) : S = {}
    BY <1>0, FS_EmptySet
  <2>2. \A S \in Small(0) : Body(f, S) = <<>>
    BY <2>1, Zenon
  <2> HIDE DEF Body, Small
  <2>3. IsFrom(f, Small(0))
    BY <2>2, Zenon
  <2> HIDE DEF f, IsFrom
  <2> QED
    BY <2>3
<1>2. ASSUME NEW n \in Nat, n \in T PROVE n + 1 \in T
  <2>1. PICK f : IsFrom(f, Small(n))
    <3> HIDE DEF IsFrom
    <3> QED
      BY <1>2
  <2> DEFINE g == [S \in Small(n + 1) |-> Body(f, S)]
  <2>2. ASSUME NEW S \in Small(n + 1), S # {} PROVE S \ {First(Ready(S))} \in Small(n)
    BY <1>0, <1>f, <2>2
  <2>3. \A S \in Small(n) : g[S] = f[S]
    <3>1. \A S \in Small(n) : S \in Small(n + 1)
      BY <1>0
    <3> HIDE DEF Body, Small
    <3>2. \A S \in Small(n) : f[S] = Body(f, S)
      BY <2>1
    <3> QED
      BY <3>1, <3>2
  <2>4. \A S \in Small(n + 1) : Body(f, S) = Body(g, S)
    <3> SUFFICES ASSUME NEW S \in Small(n + 1) PROVE Body(f, S) = Body(g, S)
      OBVIOUS
    <3> HIDE DEF g
    <3>1. CASE S = {}
      BY <3>1, Zenon
    <3>2. CASE S # {}
      <4>1. g[S \ {First(Ready(S))}] = f[S \ {First(Ready(S))}]
        <5> HIDE DEF Small
        <5> QED
          BY <2>2, <2>3, <3>2, Zenon
      <4> QED
        BY <4>1, Zenon
    <3> QED
      BY <3>1, <3>2
  <2> HIDE DEF Body, Small
  <2>5. IsFrom(g, Small(n + 1))
    BY <2>4, Zenon
  <2> HIDE DEF g, IsFrom
  <2> QED
    BY <2>5
<1>3. Cardinality(E) \in T /\ Small(Cardinality(E)) = SUBSET E
  <2>1. Nat \subseteq T
    <3> HIDE DEF T
    <3> QED
      BY <1>1, <1>2, SetInduction, Zenon
  <2>2. \A S \in SUBSET E : Cardinality(S) <= Cardinality(E)
    BY FS_Subset DEF Replayable
  <2>3. Small(Cardinality(E)) = SUBSET E
    BY <2>2
  <2>4. Cardinality(E) \in Nat
    BY <1>0
  <2> HIDE DEF T, Small
  <2> QED
    BY <2>1, <2>3, <2>4
<1> DEFINE from == CHOOSE f : f = [S \in SUBSET E |-> Body(f, S)]
<1>4. IsFrom(from, SUBSET E)
  <2>1. \E f : IsFrom(f, SUBSET E)
    <3> HIDE DEF IsFrom, Small
    <3> QED
      BY <1>3, Zenon
  <2> HIDE DEF Body
  <2> QED
    BY <2>1, Zenon
<1>5. Ordered(E) = from[E]
  BY Zenon DEF Ordered
<1> HIDE DEF from
<1>6. \A S \in SUBSET E : from[S] = Body(from, S)
  <2> HIDE DEF Body
  <2> QED
    BY <1>4, Zenon
<1> DEFINE D == {n \in Nat : \A S \in SUBSET E : Cardinality(S) = n => OrderOf(S, from[S])}
<1>7. 0 \in D
  <2> SUFFICES ASSUME NEW S \in SUBSET E, Cardinality(S) = 0 PROVE OrderOf(S, from[S])
    OBVIOUS
  <2>1. S = {}
    BY <1>0, FS_EmptySet
  <2>2. from[S] = <<>>
    BY <1>6, <2>1, Zenon
  <2>3. <<>> \in [1..0 -> S]
    OBVIOUS
  <2> QED
    BY <2>1, <2>2, <2>3 DEF OrderOf
<1>8. ASSUME NEW n \in Nat, n \in D PROVE n + 1 \in D
  <2> SUFFICES ASSUME NEW S \in SUBSET E, Cardinality(S) = n + 1 PROVE OrderOf(S, from[S])
    OBVIOUS
  <2> DEFINE a == First(Ready(S))
  <2>1. S # {}
    BY FS_EmptySet
  <2>2. a \in S /\ \A b \in S : ~Precedes(b, a) /\ a.time <= b.time
    BY <2>1, FirstReady
  <2>3. Cardinality(S \ {a}) = n
    BY <1>f, <2>1
  <2> HIDE DEF a
  <2>4. OrderOf(S \ {a}, from[S \ {a}])
    BY <1>8, <2>3
  <2>5. OrderOf(S, <<a>> \o from[S \ {a}])
    <3>1. a = First(Ready(S))
      BY DEF a
    <3> QED
      BY <1>0, <2>2, <2>4, <3>1, OrderPrefixed
  <2>6. from[S] = <<a>> \o from[S \ {a}]
    BY <1>6, <2>1, Zenon DEF a
  <2> QED
    BY <2>5, <2>6
<1>9. E \in SUBSET E /\ Cardinality(E) \in D
  <2>1. Nat \subseteq D
    <3> HIDE DEF D
    <3> QED
      BY <1>7, <1>8, SetInduction, Zenon
  <2> QED
    BY <1>0, <2>1
<1> QED
  BY <1>5, <1>9

\* What is left of the earlier evidence is first, whatever later is left.
LEMMA FirstOfEarlier ==
  ASSUME NEW E, Replayable(E), NEW B, NEW A, B \subseteq E, A \subseteq E, B # {},
         \A x \in B, y \in A : x.time < y.time
  PROVE  First(Ready(B \union A)) = First(Ready(B))
<1> DEFINE f == First(Ready(B \union A))
           g == First(Ready(B))
<1>1. \A e \in E : e.time \in Int /\ e.id \in Nat
  BY DEF Replayable
<1>2. ASSUME NEW S, S \subseteq E, S # {}
      PROVE  First(Ready(S)) \in Ready(S) /\ \A b \in Ready(S) \ {First(Ready(S))} : Earlier(First(Ready(S)), b)
  <2>1. Ready(S) # {} /\ Ready(S) \subseteq E
    BY <1>2 DEF Replayable, Ready
  <2>2. \E a \in Ready(S) : \A b \in Ready(S) \ {a} : Earlier(a, b)
    BY <2>1, EarliestExists
  <2> QED
    BY <2>2, Zenon DEF First
<1>3. Ready(B) \subseteq Ready(B \union A)
  <2>1. \A r \in B, a \in A : ~Precedes(a, r)
    BY <1>1 DEF Replayable
  <2> QED
    BY <2>1 DEF Ready
<1>4. /\ g \in Ready(B) /\ \A b \in Ready(B) \ {g} : Earlier(g, b)
      /\ f \in Ready(B \union A) /\ \A b \in Ready(B \union A) \ {f} : Earlier(f, b)
  BY <1>2
<1> HIDE DEF f, g
<1>5. f \in B \union A /\ g \in B
  BY <1>4 DEF Ready
<1>6. f = g \/ Earlier(f, g)
  BY <1>3, <1>4
<1>7. f \in B
  BY <1>1, <1>5, <1>6 DEF Earlier
<1>8. f \in Ready(B)
  BY <1>4, <1>7 DEF Ready
<1>9. f = g
  <2>1. ~(Earlier(f, g) /\ Earlier(g, f))
    BY <1>1, <1>5, <1>7 DEF Earlier
  <2> QED
    BY <1>4, <1>6, <1>8, <2>1
<1> QED
  BY <1>9 DEF f, g

SplitInTime(E, B, A) == E = B \union A /\ \A x \in B, y \in A : x.time < y.time

\* Evidence up to an instant is replayed before the rest, each in its own order.
LEMMA OrderedSplits ==
  ASSUME NEW E, Replayable(E), NEW B, NEW A, SplitInTime(E, B, A)
  PROVE  /\ Cardinality(B) \in Nat /\ Cardinality(A) \in Nat
         /\ Cardinality(E) = Cardinality(B) + Cardinality(A)
         /\ \A k \in 1..Cardinality(B) : Ordered(E)[k] = Ordered(B)[k]
         /\ \A k \in 1..Cardinality(A) : Ordered(E)[Cardinality(B) + k] = Ordered(A)[k]
<1> DEFINE m == Cardinality(B)
           n == Cardinality(A)
           q == Ordered(E)
           b == Ordered(B)
           a == Ordered(A)
           r(i) == IF i <= m THEN b[i] ELSE a[i - m]
<1>0. (\A e \in E : e.time \in Int) /\ E = B \union A /\ \A x \in B, y \in A : x.time < y.time
  BY DEF Replayable, SplitInTime
<1>1. Replayable(B) /\ Replayable(A)
  BY <1>0, FS_Subset DEF Replayable
<1>2. B \intersect A = {}
  BY <1>0
<1>3. m \in Nat /\ n \in Nat /\ Cardinality(E) = m + n
  <2>1. Cardinality(B \intersect A) = 0
    BY <1>2, FS_EmptySet
  <2>2. /\ Cardinality(B) \in Nat /\ Cardinality(A) \in Nat /\ Cardinality(B \intersect A) = 0
        /\ Cardinality(B \union A) = Cardinality(B) + Cardinality(A) - Cardinality(B \intersect A)
    BY <1>1, <2>1, FS_Union, FS_CardinalityType DEF Replayable
  <2> QED
    BY <1>0, <2>2
<1>4. /\ q \in [1..(m + n) -> E]
      /\ \A e \in E : \E i \in 1..(m + n) : q[i] = e
      /\ \A i, j \in 1..(m + n) : i < j => q[i] # q[j]
      /\ \A i \in 1..(m + n) : q[i] = First(Ready({q[j] : j \in i..(m + n)}))
  <2>1. OrderOf(E, q)
    BY OrderedIsOrder
  <2> HIDE DEF q, m, n
  <2> QED
    BY <1>3, <2>1 DEF OrderOf
<1>5. /\ b \in [1..m -> B]
      /\ \A e \in B : \E i \in 1..m : b[i] = e
      /\ \A i, j \in 1..m : i < j => b[i] # b[j]
      /\ \A i \in 1..m : b[i] = First(Ready({b[j] : j \in i..m}))
  BY <1>1, OrderedIsOrder DEF OrderOf
<1>6. /\ a \in [1..n -> A]
      /\ \A e \in A : \E i \in 1..n : a[i] = e
      /\ \A i, j \in 1..n : i < j => a[i] # a[j]
      /\ \A i \in 1..n : a[i] = First(Ready({a[j] : j \in i..n}))
  BY <1>1, OrderedIsOrder DEF OrderOf
<1> HIDE DEF m, n, q, a, b
<1>7. \A i \in 1..(m + n) : IF i <= m THEN i \in 1..m /\ r(i) = b[i] /\ r(i) \in B
                                      ELSE i - m \in 1..n /\ r(i) = a[i - m] /\ r(i) \in A
  BY <1>3, <1>5, <1>6
<1>8. \A e \in E : \E i \in 1..(m + n) : r(i) = e
  <2> SUFFICES ASSUME NEW e \in E PROVE \E i \in 1..(m + n) : r(i) = e
    OBVIOUS
  <2>1. CASE e \in B
    <3>1. PICK i \in 1..m : b[i] = e
      BY <1>5, <2>1
    <3>2. i \in 1..(m + n) /\ i <= m
      BY <1>3
    <3> QED
      BY <3>1, <3>2
  <2>2. CASE e \in A
    <3>1. PICK i \in 1..n : a[i] = e
      BY <1>6, <2>2
    <3>2. m + i \in 1..(m + n) /\ ~(m + i <= m) /\ (m + i) - m = i
      BY <1>3
    <3> QED
      BY <3>1, <3>2
  <2> QED
    BY <1>0, <2>1, <2>2
<1>9. \A i, j \in 1..(m + n) : i < j => r(i) # r(j)
  <2> SUFFICES ASSUME NEW i \in 1..(m + n), NEW j \in 1..(m + n), i < j PROVE r(i) # r(j)
    OBVIOUS
  <2> HIDE DEF r
  <2>1. CASE j <= m
    <3>1. i <= m
      BY <1>3, <2>1
    <3> QED
      BY <1>5, <1>7, <2>1, <3>1
  <2>2. CASE ~(j <= m) /\ i <= m
    BY <1>2, <1>7, <2>2
  <2>3. CASE ~(j <= m) /\ ~(i <= m)
    <3>1. i - m < j - m
      BY <1>3
    <3> QED
      BY <1>6, <1>7, <2>3, <3>1
  <2> QED
    BY <2>1, <2>2, <2>3
<1>10. ASSUME NEW i \in 1..(m + n) PROVE r(i) = First(Ready({r(j) : j \in i..(m + n)}))
  <2>1. CASE i <= m
    <3> DEFINE X == {b[j] : j \in i..m}
    <3>1. {r(j) : j \in i..(m + n)} = X \union A
      <4> HIDE DEF r
      <4>1. \A j \in i..(m + n) : j \in 1..(m + n) /\ (j <= m => j \in i..m)
        BY <1>3
      <4>2. \A j \in i..m : j \in i..(m + n) /\ j \in 1..(m + n) /\ j <= m
        BY <1>3
      <4>3. \A j \in 1..n : m + j \in i..(m + n) /\ m + j \in 1..(m + n) /\ ~(m + j <= m) /\ (m + j) - m = j
        BY <1>3, <2>1
      <4>4. \A j \in i..(m + n) : r(j) \in X \union A
        BY <1>7, <4>1
      <4>5. \A x \in X : \E j \in i..(m + n) : r(j) = x
        BY <1>7, <4>2
      <4>6. \A x \in A : \E j \in i..(m + n) : r(j) = x
        BY <1>6, <1>7, <4>3
      <4> QED
        BY <4>4, <4>5, <4>6
    <3>2. X \subseteq B /\ X # {} /\ A \subseteq E
      <4>1. \A j \in i..m : j \in 1..m
        BY <1>3
      <4>2. i \in i..m
        BY <1>3, <2>1
      <4> QED
        BY <1>0, <1>5, <4>1, <4>2
    <3>3. b[i] = First(Ready(X))
      BY <1>5, <1>7, <2>1
    <3>4. r(i) = b[i]
      BY <1>7, <2>1
    <3> HIDE DEF X, r
    <3>5. First(Ready(X \union A)) = First(Ready(X))
      BY <1>0, <3>2, FirstOfEarlier
    <3> QED
      BY <3>1, <3>3, <3>4, <3>5
  <2>2. CASE ~(i <= m)
    <3>1. {r(j) : j \in i..(m + n)} = {a[j] : j \in (i - m)..n}
      <4> HIDE DEF r
      <4>1. \A j \in i..(m + n) : j \in 1..(m + n) /\ ~(j <= m) /\ j - m \in (i - m)..n
        BY <1>3, <2>2
      <4>2. \A j \in (i - m)..n : m + j \in i..(m + n) /\ (m + j) - m = j /\ m + j \in 1..(m + n) /\ ~(m + j <= m)
        BY <1>3, <2>2
      <4>3. \A j \in i..(m + n) : \E x \in (i - m)..n : r(j) = a[x]
        BY <1>7, <4>1
      <4>4. \A x \in (i - m)..n : \E j \in i..(m + n) : r(j) = a[x]
        BY <1>7, <4>2
      <4> QED
        BY <4>3, <4>4
    <3> HIDE DEF r
    <3> QED
      BY <1>6, <1>7, <2>2, <3>1
  <2> QED
    BY <2>1, <2>2
<1> HIDE DEF r
<1> DEFINE T == {k \in Nat : \A i \in 1..(m + n) : i <= k => q[i] = r(i)}
<1>11. 0 \in T
  OBVIOUS
<1>12. ASSUME NEW k \in Nat, k \in T PROVE k + 1 \in T
  <2> SUFFICES ASSUME k + 1 \in 1..(m + n) PROVE q[k + 1] = r(k + 1)
    <3>1. \A i \in 1..(m + n) : i <= k + 1 => i <= k \/ i = k + 1
      BY <1>3
    <3> QED
      BY <1>12, <3>1
  <2>1. \A i \in 1..(m + n) : i <= k => q[i] = r(i)
    BY <1>12
  <2>2. \A i \in 1..(m + n) : i \in (k + 1)..(m + n) \/ i <= k
    BY <1>3
  <2>3. \A i \in (k + 1)..(m + n) : i \in 1..(m + n) /\ \A j \in 1..(m + n) : j <= k => j < i
    BY <1>3
  <2>4. {q[j] : j \in (k + 1)..(m + n)} = {r(j) : j \in (k + 1)..(m + n)}
    <3>1. \A i \in (k + 1)..(m + n) : \E j \in (k + 1)..(m + n) : q[i] = r(j)
      <4> SUFFICES ASSUME NEW i \in (k + 1)..(m + n) PROVE \E j \in (k + 1)..(m + n) : q[i] = r(j)
        OBVIOUS
      <4>1. PICK j \in 1..(m + n) : r(j) = q[i]
        BY <1>4, <1>8, <2>3
      <4>2. ~(j <= k)
        BY <1>4, <2>1, <2>3, <4>1
      <4> QED
        BY <2>2, <4>1, <4>2
    <3>2. \A i \in (k + 1)..(m + n) : \E j \in (k + 1)..(m + n) : r(i) = q[j]
      <4> SUFFICES ASSUME NEW i \in (k + 1)..(m + n) PROVE \E j \in (k + 1)..(m + n) : r(i) = q[j]
        OBVIOUS
      <4>1. r(i) \in E
        BY <1>0, <1>7, <2>3
      <4>2. PICK j \in 1..(m + n) : q[j] = r(i)
        BY <1>4, <4>1
      <4>3. ~(j <= k)
        BY <1>9, <2>1, <2>3, <4>2
      <4> QED
        BY <2>2, <4>2, <4>3
    <3> QED
      BY <3>1, <3>2
  <2> QED
    BY <1>4, <1>10, <2>4
<1>13. \A i \in 1..(m + n) : q[i] = r(i)
  <2>1. Nat \subseteq T
    <3> HIDE DEF T
    <3> QED
      BY <1>11, <1>12, SetInduction, Zenon
  <2>2. \A i \in 1..(m + n) : i \in T /\ i <= i
    BY <1>3, <2>1
  <2> QED
    BY <2>2
<1>14. \A k \in 1..m : q[k] = b[k]
  <2>1. \A k \in 1..m : k \in 1..(m + n) /\ k <= m
    BY <1>3
  <2> QED
    BY <1>7, <1>13, <2>1
<1>15. \A k \in 1..n : q[m + k] = a[k]
  <2>1. \A k \in 1..n : m + k \in 1..(m + n) /\ ~(m + k <= m) /\ (m + k) - m = k
    BY <1>3
  <2> QED
    BY <1>7, <1>13, <2>1
<1> QED
  BY <1>3, <1>14, <1>15 DEF m, n, q, a, b

----------------------------------------------------------------------------
(* What a sound replay starts from.                                        *)

ProjectedShape(s) ==
  s = [user |-> s.user, vehicle |-> s.vehicle, start |-> s.start, anchor |-> s.anchor,
       end |-> s.end, endEvent |-> s.endEvent, reason |-> s.reason]

Carried(seed) == {Reopened(s) : s \in seed.sessions}

Own(seed) == {s.anchor : s \in Carried(seed)}

StartAnchors(seed) ==
  [t \in Own(seed) \union DOMAIN seed.anchors |-> IF t \in Own(seed) THEN t ELSE seed.anchors[t]]

Start(seed) == [sessions |-> Carried(seed), anchors |-> StartAnchors(seed), sound |-> TRUE]

SeedShape(seed) ==
  /\ seed.boundary \in Int
  /\ IsFiniteSet(seed.sessions)
  /\ \A s \in seed.sessions : ProjectedShape(s) /\ s.start \in Int
  /\ \A s, r \in seed.sessions : s.anchor = r.anchor => s = r

\* Every RETURN of E names a TAKE of E, or one that the seed knows and whose
\* session has the RETURN's driver and car.
CausesKnown(seed, E) ==
  \A b \in E : b.type = "return" =>
    \/ \E a \in E : a.id = b.cause
    \/ /\ b.cause \in DOMAIN StartAnchors(seed)
       /\ \E c \in seed.sessions : /\ c.anchor = StartAnchors(seed)[b.cause]
                                   /\ c.user = b.user /\ c.vehicle = b.vehicle

Setting(seed, E) ==
  /\ SeedShape(seed) /\ SoundSeed(seed)
  /\ IsFiniteSet(E)
  /\ \A e \in E : e.time \in Int /\ e.id \in Nat /\ e.type \in {"take", "return"}
  /\ Orderable(E, seed.boundary, DOMAIN StartAnchors(seed))
  /\ CausesKnown(seed, E)

----------------------------------------------------------------------------
(* The invariant of a replay: `done` has been applied and gave p.          *)

SameStart(t, s) ==
  t.anchor = s.anchor /\ t.user = s.user /\ t.vehicle = s.vehicle /\ t.start = s.start

OpensAt(s, e) ==
  e.type = "take" /\ s.anchor = e.id /\ s.user = e.user /\ s.vehicle = e.vehicle /\ s.start = e.time

EndsAt(s, e) == s.end = e.time /\ s.endEvent = e.id /\ s.start <= e.time

\* Where a session comes from, and what ended it.
Traced(seed, done, s) ==
  /\ ProjectedShape(s) /\ s.start \in Int /\ s.end \in Int
  /\ (\E c \in seed.sessions : SameStart(s, c)) \/ (\E e \in done : OpensAt(s, e))
  /\ s.reason \in {"open", "return", "handover", "vehicle_switch"}
  /\ IF Open(s) THEN s.end = s.start /\ s.endEvent = NoEvent ELSE \E e \in done : EndsAt(s, e)

Apart(s, r) ==
  s.user = r.user \/ s.vehicle = r.vehicle => ~EndsAfter(s, r.start) \/ ~EndsAfter(r, s.start)

SessionsInv(seed, E, done, S) ==
  /\ IsFiniteSet(S)
  /\ \A s \in S : Traced(seed, done, s)
  /\ \A s, r \in S : s.anchor = r.anchor => s = r
  /\ \A c \in seed.sessions : \E s \in S : s.anchor = c.anchor
  /\ \A s, r \in S : s # r /\ Open(s) /\ Open(r) => s.user # r.user /\ s.vehicle # r.vehicle
  /\ \A s \in S, e \in E \ done : s.start <= e.time /\ s.end <= e.time
  /\ \A s, r \in S : s # r => Apart(s, r)

AnchorsInv(seed, done, S, anchors) ==
  /\ anchors = [t \in DOMAIN anchors |-> anchors[t]]
  /\ DOMAIN anchors = DOMAIN StartAnchors(seed) \union {e.id : e \in {a \in done : a.type = "take"}}
  /\ \A t \in DOMAIN StartAnchors(seed) : anchors[t] = StartAnchors(seed)[t]
  /\ \A s \in S : s.anchor \in DOMAIN anchors /\ anchors[s.anchor] = s.anchor
  /\ \A a \in done : a.type = "take" =>
       \E s \in S : /\ s.anchor = anchors[a.id] /\ s.start <= a.time
                    /\ s.user = a.user /\ s.vehicle = a.vehicle

RunInv(seed, E, done, p) ==
  /\ p = [sessions |-> p.sessions, anchors |-> p.anchors, sound |-> TRUE]
  /\ SessionsInv(seed, E, done, p.sessions)
  /\ AnchorsInv(seed, done, p.sessions, p.anchors)

\* e is the next event of E to be applied.
NextUp(E, done, e) ==
  /\ done \subseteq E /\ e \in E \ done
  /\ \A b \in E \ done : e.time <= b.time
  /\ \A a \in E : Precedes(a, e) => a \in done

----------------------------------------------------------------------------
(* Closing sessions.                                                       *)

ClosedBy(s, e, returned) ==
  IF Open(s) /\ EndReason(s, e, returned) # "open" THEN Close(s, e, EndReason(s, e, returned)) ELSE s

\* t is s, or s ended by e.
Continues(t, s, e) ==
  /\ ProjectedShape(t) /\ SameStart(t, s)
  /\ \/ t = s
     \/ /\ Open(s) /\ t.end = e.time /\ t.endEvent = e.id
        /\ t.reason \in {"return", "handover", "vehicle_switch"}

LEMMA ClosedContinues ==
  ASSUME NEW s, ProjectedShape(s), NEW e, NEW returned
  PROVE  /\ Continues(ClosedBy(s, e, returned), s, e)
         /\ Open(ClosedBy(s, e, returned)) => Open(s) /\ EndReason(s, e, returned) = "open"
<1> DEFINE reason == EndReason(s, e, returned)
<1>1. reason \in {"open", "return", "handover", "vehicle_switch"}
  BY DEF EndReason
<1> HIDE DEF reason
<1>2. CASE Open(s) /\ reason # "open"
  <2>1. ClosedBy(s, e, returned) = Close(s, e, reason)
    BY <1>2, Zenon DEF ClosedBy, reason
  <2>2. Close(s, e, reason) =
          [user |-> s.user, vehicle |-> s.vehicle, start |-> s.start, anchor |-> s.anchor,
           end |-> e.time, endEvent |-> e.id, reason |-> reason]
    <3>1. PICK a : a = [s EXCEPT !.end = e.time]
      OBVIOUS
    <3>2. PICK b : b = [a EXCEPT !.endEvent = e.id]
      OBVIOUS
    <3>3. PICK c : c = [b EXCEPT !.reason = reason]
      OBVIOUS
    <3>4. Close(s, e, reason) = c
      BY <3>1, <3>2, <3>3, Zenon DEF Close
    <3>5. a = [user |-> s.user, vehicle |-> s.vehicle, start |-> s.start, anchor |-> s.anchor,
               end |-> e.time, endEvent |-> s.endEvent, reason |-> s.reason]
      BY <3>1 DEF ProjectedShape
    <3>6. b = [user |-> s.user, vehicle |-> s.vehicle, start |-> s.start, anchor |-> s.anchor,
               end |-> e.time, endEvent |-> e.id, reason |-> s.reason]
      BY <3>2, <3>5
    <3> QED
      BY <3>3, <3>4, <3>6
  <2>3. /\ Continues(Close(s, e, reason), s, e)
        /\ ~Open(Close(s, e, reason))
    BY <1>1, <1>2, <2>2 DEF Continues, ProjectedShape, SameStart, Open
  <2> QED
    BY <2>1, <2>3
<1>3. CASE ~(Open(s) /\ reason # "open")
  <2>1. ClosedBy(s, e, returned) = s
    BY <1>3, Zenon DEF ClosedBy, reason
  <2> QED
    BY <1>3, <2>1 DEF Continues, SameStart, reason
<1> QED
  BY <1>2, <1>3

LEMMA CloseForIsMap ==
  ASSUME NEW S, NEW e, NEW returned
  PROVE  CloseFor(S, e, returned) = {ClosedBy(s, e, returned) : s \in S}
BY Zenon DEF CloseFor, ClosedBy
LEMMA CloseKeeps ==
  ASSUME NEW seed, NEW E, NEW done, NEW S, NEW e, NEW returned, Setting(seed, E),
         SessionsInv(seed, E, done, S), NextUp(E, done, e)
  PROVE  SessionsInv(seed, E, done \union {e}, CloseFor(S, e, returned))
<1> DEFINE f == [s \in S |-> ClosedBy(s, e, returned)]
           after == {f[s] : s \in S}
           now == done \union {e}
<1>1. CloseFor(S, e, returned) = after
  BY CloseForIsMap, Zenon
<1>2. \A s \in S : Continues(f[s], s, e)
  BY ClosedContinues DEF SessionsInv, Traced
<1> HIDE DEF f
<1>3. IsFiniteSet(after)
  BY FiniteImage DEF SessionsInv
<1>4. \A b \in E : b.time \in Int
  BY DEF Setting
<1>5. \A s \in S : /\ s.start \in Int /\ s.end \in Int
                   /\ \A b \in E \ done : s.start <= b.time /\ s.end <= b.time
  BY DEF SessionsInv, Traced
<1>6. e \in E \ done /\ \A b \in E \ done : e.time <= b.time
  BY DEF NextUp
<1>7. ASSUME NEW s \in S PROVE Traced(seed, now, f[s])
  <2>1. Traced(seed, done, s)
    BY DEF SessionsInv
  <2>2. Continues(f[s], s, e)
    BY <1>2
  <2>3. CASE f[s] = s
    BY <2>1, <2>3 DEF Traced
  <2>4. CASE f[s] # s
    <3>1. /\ f[s].end = e.time /\ f[s].endEvent = e.id
          /\ f[s].reason \in {"return", "handover", "vehicle_switch"}
          /\ SameStart(f[s], s) /\ ProjectedShape(f[s])
      BY <2>2, <2>4 DEF Continues
    <3>2. EndsAt(f[s], e)
      BY <1>5, <1>6, <3>1 DEF EndsAt, SameStart
    <3>3. ~Open(f[s])
      BY <3>1 DEF Open
    <3>4. (\E c \in seed.sessions : SameStart(f[s], c)) \/ (\E a \in now : OpensAt(f[s], a))
      BY <2>1, <3>1 DEF Traced, SameStart, OpensAt
    <3>5. f[s].start \in Int /\ f[s].end \in Int
      BY <1>4, <1>5, <1>6, <3>1 DEF SameStart
    <3> QED
      BY <3>1, <3>2, <3>3, <3>4, <3>5 DEF Traced
  <2> QED
    BY <2>3, <2>4
<1>8. ASSUME NEW s \in S, NEW r \in S, f[s].anchor = f[r].anchor PROVE f[s] = f[r]
  <2>1. s.anchor = r.anchor
    BY <1>2, <1>8 DEF Continues, SameStart
  <2> QED
    BY <2>1 DEF SessionsInv
<1>9. ASSUME NEW c \in seed.sessions PROVE \E t \in after : t.anchor = c.anchor
  <2>1. PICK s \in S : s.anchor = c.anchor
    BY DEF SessionsInv
  <2>2. f[s] \in after /\ f[s].anchor = c.anchor
    BY <1>2, <2>1 DEF Continues, SameStart
  <2> QED
    BY <2>2
<1>10. ASSUME NEW s \in S, NEW r \in S, f[s] # f[r], Open(f[s]), Open(f[r])
       PROVE  f[s].user # f[r].user /\ f[s].vehicle # f[r].vehicle
  <2>1. /\ Open(s) /\ Open(r) /\ s # r
        /\ SameStart(f[s], s) /\ SameStart(f[r], r)
    BY <1>2, <1>10 DEF Continues, Open
  <2>2. s.user # r.user /\ s.vehicle # r.vehicle
    BY <2>1 DEF SessionsInv
  <2> QED
    BY <2>1, <2>2 DEF SameStart
<1>11. ASSUME NEW s \in S, NEW b \in E \ now PROVE f[s].start <= b.time /\ f[s].end <= b.time
  <2>1. b \in E \ done /\ s.start <= b.time /\ s.end <= b.time
    BY <1>5
  <2>2. e.time <= b.time
    BY <1>6, <2>1
  <2> QED
    BY <1>2, <2>1, <2>2 DEF Continues, SameStart
<1>12. ASSUME NEW s \in S, NEW r \in S, f[s] # f[r] PROVE Apart(f[s], f[r])
  <2>1. s # r /\ Apart(s, r)
    BY <1>12 DEF SessionsInv
  <2>2. /\ SameStart(f[s], s) /\ SameStart(f[r], r)
    BY <1>2 DEF Continues
  \* Closing only ever ends a session earlier.
  <2>3. ASSUME NEW x \in S, NEW t \in Int, ~EndsAfter(x, t) PROVE ~EndsAfter(f[x], t)
    BY <1>2, <2>3 DEF Continues, EndsAfter
  <2>4. s.start \in Int /\ r.start \in Int
    BY <1>5
  <2> QED
    BY <2>1, <2>2, <2>3, <2>4 DEF Apart, SameStart
<1> HIDE DEF now
<1>13. SessionsInv(seed, E, now, after)
  BY <1>3, <1>7, <1>8, <1>9, <1>10, <1>11, <1>12 DEF SessionsInv
<1> QED
  BY <1>1, <1>13 DEF now

LEMMA OpenedTraced ==
  ASSUME NEW seed, NEW done, NEW e \in done, e.type = "take", e.time \in Int
  PROVE  Traced(seed, done, Opened(e)) /\ Open(Opened(e))
<1>1. OpensAt(Opened(e), e) /\ Open(Opened(e)) /\ ProjectedShape(Opened(e))
  BY DEF OpensAt, Opened, Open, ProjectedShape
<1> QED
  BY <1>1 DEF Traced, Opened

LEMMA OpenKeeps ==
  ASSUME NEW seed, NEW E, NEW done, NEW S, NEW e \in done, e.type = "take", e.time \in Int,
         SessionsInv(seed, E, done, S), \A b \in E \ done : e.time <= b.time,
         \A s \in S : s.anchor # e.id,
         \A s \in S : Open(s) => s.user # e.user /\ s.vehicle # e.vehicle,
         \A s \in S : s.end <= e.time
  PROVE  SessionsInv(seed, E, done, S \union {Opened(e)})
<1> DEFINE o == Opened(e)
<1>1. Traced(seed, done, o) /\ Open(o)
  BY OpenedTraced
<1>2. o.anchor = e.id /\ o.user = e.user /\ o.vehicle = e.vehicle /\ o.start = e.time /\ o.end = e.time
  BY DEF Opened
<1> HIDE DEF o
<1>3. IsFiniteSet(S \union {o})
  BY FS_AddElement DEF SessionsInv
<1>4. ASSUME NEW s \in S PROVE Apart(s, o) /\ Apart(o, s)
  <2>1. CASE Open(s)
    BY <1>2, <2>1 DEF Apart
  <2>2. CASE ~Open(s)
    <3>1. ~EndsAfter(s, o.start)
      <4>1. s.end <= e.time /\ s.end \in Int
        BY DEF SessionsInv, Traced
      <4> QED
        BY <1>2, <2>2, <4>1 DEF EndsAfter
    <3> QED
      BY <3>1 DEF Apart
  <2> QED
    BY <2>1, <2>2
<1>5. \A s \in S \union {o} : Traced(seed, done, s)
  BY <1>1 DEF SessionsInv
<1>6. \A s, r \in S \union {o} : s.anchor = r.anchor => s = r
  BY <1>2 DEF SessionsInv
<1>7. \A c \in seed.sessions : \E s \in S \union {o} : s.anchor = c.anchor
  BY DEF SessionsInv
<1>8. \A s, r \in S \union {o} : s # r /\ Open(s) /\ Open(r) => s.user # r.user /\ s.vehicle # r.vehicle
  BY <1>2 DEF SessionsInv
<1>9. \A s \in S \union {o}, b \in E \ done : s.start <= b.time /\ s.end <= b.time
  BY <1>2 DEF SessionsInv
<1>10. \A s, r \in S \union {o} : s # r => Apart(s, r)
  BY <1>4 DEF SessionsInv
<1>11. SessionsInv(seed, E, done, S \union {o})
  BY <1>3, <1>5, <1>6, <1>7, <1>8, <1>9, <1>10 DEF SessionsInv
<1> QED
  BY <1>11 DEF o

----------------------------------------------------------------------------
(* The sessions a replay carries over.                                     *)

LEMMA ReopenedFacts ==
  ASSUME NEW s, ProjectedShape(s)
  PROVE  /\ ProjectedShape(Reopened(s)) /\ SameStart(Reopened(s), s) /\ Open(Reopened(s))
         /\ Reopened(s).end = s.start /\ Reopened(s).endEvent = NoEvent
<1>1. PICK a : a = [s EXCEPT !.end = s.start]
  OBVIOUS
<1>2. PICK b : b = [a EXCEPT !.endEvent = NoEvent]
  OBVIOUS
<1>3. PICK c : c = [b EXCEPT !.reason = "open"]
  OBVIOUS
<1>4. Reopened(s) = c
  BY <1>1, <1>2, <1>3, Zenon DEF Reopened
<1>5. a = [user |-> s.user, vehicle |-> s.vehicle, start |-> s.start, anchor |-> s.anchor,
           end |-> s.start, endEvent |-> s.endEvent, reason |-> s.reason]
  BY <1>1 DEF ProjectedShape
<1>6. b = [user |-> s.user, vehicle |-> s.vehicle, start |-> s.start, anchor |-> s.anchor,
           end |-> s.start, endEvent |-> NoEvent, reason |-> s.reason]
  BY <1>2, <1>5
<1>7. c = [user |-> s.user, vehicle |-> s.vehicle, start |-> s.start, anchor |-> s.anchor,
           end |-> s.start, endEvent |-> NoEvent, reason |-> "open"]
  BY <1>3, <1>6
<1> QED
  BY <1>4, <1>7 DEF ProjectedShape, SameStart, Open

LEMMA OwnAnchors ==
  ASSUME NEW seed, SeedShape(seed)
  PROVE  /\ Own(seed) = {c.anchor : c \in seed.sessions}
         /\ Own(seed) \subseteq DOMAIN StartAnchors(seed)
         /\ \A t \in Own(seed) : StartAnchors(seed)[t] = t
<1>1. \A c \in seed.sessions : Reopened(c).anchor = c.anchor
  BY ReopenedFacts DEF SeedShape, SameStart
<1>2. Own(seed) = {c.anchor : c \in seed.sessions}
  BY <1>1 DEF Own, Carried
<1> QED
  BY <1>2 DEF StartAnchors

\* A carried session goes on as the session of its anchor.
LEMMA CarriedUse ==
  ASSUME NEW seed, NEW E, NEW done, NEW S, Setting(seed, E), done \subseteq E,
         SessionsInv(seed, E, done, S), NEW c \in seed.sessions, NEW s \in S, s.anchor = c.anchor
  PROVE  SameStart(s, c)
<1>1. (\E d \in seed.sessions : SameStart(s, d)) \/ (\E e \in done : OpensAt(s, e))
  BY DEF SessionsInv, Traced
<1>2. CASE \E d \in seed.sessions : SameStart(s, d)
  <2>1. PICK d \in seed.sessions : SameStart(s, d)
    BY <1>2
  <2>2. d = c
    BY <2>1 DEF Setting, SeedShape, SameStart
  <2> QED
    BY <2>1, <2>2
<1>3. CASE \E e \in done : OpensAt(s, e)
  <2>1. PICK e \in E : e.id = c.anchor
    BY <1>3 DEF OpensAt
  <2>2. c.anchor \in DOMAIN StartAnchors(seed)
    BY OwnAnchors DEF Setting
  <2> QED
    BY <2>1, <2>2 DEF Setting, Orderable
<1> QED
  BY <1>1, <1>2, <1>3

----------------------------------------------------------------------------
(* Applying one event.                                                     *)

LEMMA FreshTake ==
  ASSUME NEW seed, NEW E, NEW done, NEW S, NEW anchors, NEW e, Setting(seed, E),
         AnchorsInv(seed, done, S, anchors), NextUp(E, done, e)
  PROVE  e.id \notin DOMAIN anchors
<1>1. e.id \notin DOMAIN StartAnchors(seed)
  BY DEF Setting, Orderable, NextUp
<1>2. \A a \in done : a.id # e.id
  BY DEF Setting, Orderable, NextUp
<1> QED
  BY <1>1, <1>2 DEF AnchorsInv

\* The TAKE e is associated with a session that has its driver and car.
LEMMA AnchorsGrow ==
  ASSUME NEW seed, NEW done, NEW S, NEW S2, NEW anchors, NEW e, NEW anchor,
         AnchorsInv(seed, done, S, anchors), e.type = "take", e.id \notin DOMAIN anchors,
         \A s \in S : \E t \in S2 : SameStart(t, s),
         \A t \in S2 : (\E s \in S : SameStart(t, s)) \/ (t.anchor = e.id /\ anchor = e.id),
         \E s \in S2 : /\ s.anchor = anchor /\ s.start <= e.time
                       /\ s.user = e.user /\ s.vehicle = e.vehicle
  PROVE  AnchorsInv(seed, done \union {e}, S2, Associate(anchors, e.id, anchor))
<1> DEFINE g == Associate(anchors, e.id, anchor)
           now == done \union {e}
<1>1. /\ DOMAIN g = DOMAIN anchors \union {e.id} /\ g[e.id] = anchor
      /\ \A t \in DOMAIN anchors : g[t] = anchors[t]
      /\ g = [t \in DOMAIN g |-> g[t]]
  BY DEF Associate
<1> HIDE DEF g
<1>2. DOMAIN g = DOMAIN StartAnchors(seed) \union {a.id : a \in {x \in now : x.type = "take"}}
  BY <1>1 DEF AnchorsInv
<1>3. \A t \in DOMAIN StartAnchors(seed) : g[t] = StartAnchors(seed)[t]
  BY <1>1 DEF AnchorsInv
<1>4. ASSUME NEW t \in S2 PROVE t.anchor \in DOMAIN g /\ g[t.anchor] = t.anchor
  <2>1. CASE \E s \in S : SameStart(t, s)
    <3>1. PICK s \in S : SameStart(t, s)
      BY <2>1
    <3>2. s.anchor \in DOMAIN anchors /\ anchors[s.anchor] = s.anchor
      BY DEF AnchorsInv
    <3> QED
      BY <1>1, <3>1, <3>2 DEF SameStart
  <2>2. CASE t.anchor = e.id /\ anchor = e.id
    BY <1>1, <2>2
  <2> QED
    BY <2>1, <2>2
<1>5. ASSUME NEW a \in now, a.type = "take"
      PROVE  \E s \in S2 : /\ s.anchor = g[a.id] /\ s.start <= a.time
                           /\ s.user = a.user /\ s.vehicle = a.vehicle
  <2>1. CASE a = e
    BY <1>1, <2>1
  <2>2. CASE a \in done
    <3>1. PICK s \in S : /\ s.anchor = anchors[a.id] /\ s.start <= a.time
                         /\ s.user = a.user /\ s.vehicle = a.vehicle
      BY <1>5, <2>2 DEF AnchorsInv
    <3>2. PICK t \in S2 : SameStart(t, s)
      OBVIOUS
    <3>3. a.id \in DOMAIN anchors
      BY <1>5, <2>2 DEF AnchorsInv
    <3> QED
      BY <1>1, <3>1, <3>2, <3>3 DEF SameStart
  <2> QED
    BY <2>1, <2>2
<1> HIDE DEF now
<1>6. AnchorsInv(seed, now, S2, g)
  BY <1>1, <1>2, <1>3, <1>4, <1>5 DEF AnchorsInv
<1> QED
  BY <1>6 DEF g, now

LEMMA DoneGrows ==
  ASSUME NEW seed, NEW E, NEW done, NEW S, NEW e, SessionsInv(seed, E, done, S)
  PROVE  SessionsInv(seed, E, done \union {e}, S)
<1>1. \A s \in S : Traced(seed, done, s) => Traced(seed, done \union {e}, s)
  BY DEF Traced
<1> QED
  BY <1>1 DEF SessionsInv
LEMMA TakeKeeps ==
  ASSUME NEW seed, NEW E, NEW done, NEW p, NEW e, Setting(seed, E),
         RunInv(seed, E, done, p), NextUp(E, done, e), e.type = "take"
  PROVE  RunInv(seed, E, done \union {e}, TakeEvent(p, e))
<1> DEFINE S == p.sessions
           same == {s \in S : Open(s) /\ s.user = e.user /\ s.vehicle = e.vehicle}
           now == done \union {e}
<1>1. /\ SessionsInv(seed, E, done, S) /\ AnchorsInv(seed, done, S, p.anchors)
      /\ p = [sessions |-> S, anchors |-> p.anchors, sound |-> TRUE]
  BY DEF RunInv
<1>2. e.id \notin DOMAIN p.anchors
  BY <1>1, FreshTake
<1>3. \A s \in S : SameStart(s, s)
  BY DEF SameStart
<1>4. \A s \in S : /\ s.start \in Int /\ s.end \in Int /\ s.start <= e.time /\ s.end <= e.time
                   /\ ProjectedShape(s)
  BY <1>1 DEF SessionsInv, Traced, NextUp
<1>5. CASE same # {}
  <2> DEFINE a == CHOOSE s \in same : TRUE
             g == Associate(p.anchors, e.id, a.anchor)
  <2>1. a \in same
    BY <1>5
  <2>2. TakeEvent(p, e) = [p EXCEPT !.anchors = g]
    BY <1>5, Zenon DEF TakeEvent
  <2> HIDE DEF a
  <2>3. AnchorsInv(seed, now, S, g)
    <3>1. a \in S /\ a.start <= e.time /\ a.user = e.user /\ a.vehicle = e.vehicle
      BY <1>4, <2>1
    <3> HIDE DEF S
    <3> QED
      BY <1>1, <1>2, <1>3, <3>1, AnchorsGrow
  <2>4. SessionsInv(seed, E, now, S)
    BY <1>1, DoneGrows
  <2> HIDE DEF g, now
  <2>5. TakeEvent(p, e) = [sessions |-> S, anchors |-> g, sound |-> TRUE]
    <3> DEFINE h == p.anchors
    <3>1. p = [sessions |-> S, anchors |-> h, sound |-> TRUE]
      BY <1>1
    <3> HIDE DEF S, h
    <3> QED
      BY <2>2, <3>1
  <2>6. RunInv(seed, E, now, TakeEvent(p, e))
    <3> HIDE DEF S
    <3> QED
      BY <2>3, <2>4, <2>5 DEF RunInv
  <2> QED
    BY <2>6 DEF now
<1>6. CASE same = {}
  <2> DEFINE closed == CloseFor(S, e, NoEvent)
             S2 == closed \union {Opened(e)}
             g == Associate(p.anchors, e.id, e.id)
             sound == /\ p.sound
                      /\ \A s \in p.sessions :
                           Open(s) /\ EndReason(s, e, NoEvent) # "open" => s.start <= e.time
  <2>1. TakeEvent(p, e) = [sessions |-> S2, anchors |-> g, sound |-> sound]
    BY <1>6, Zenon DEF TakeEvent
  <2>2. sound
    <3>1. p.sound
      BY <1>1
    <3> QED
      BY <1>4, <3>1
  <2>3. closed = {ClosedBy(s, e, NoEvent) : s \in S}
    BY CloseForIsMap, Zenon
  <2>4. \A s \in S : Continues(ClosedBy(s, e, NoEvent), s, e)
    BY <1>4, ClosedContinues
  <2>5. SessionsInv(seed, E, now, closed)
    BY <1>1, CloseKeeps
  <2>6. \A t \in closed : t.anchor # e.id
    <3>1. \A s \in S : s.anchor # e.id
      BY <1>1, <1>2 DEF AnchorsInv
    <3> QED
      BY <2>3, <2>4, <3>1 DEF Continues, SameStart
  <2>7. ASSUME NEW t \in closed, Open(t) PROVE t.user # e.user /\ t.vehicle # e.vehicle
    <3>1. PICK s \in S : t = ClosedBy(s, e, NoEvent)
      BY <2>3
    <3>2. Open(s) /\ EndReason(s, e, NoEvent) = "open"
      BY <1>4, <2>7, <3>1, ClosedContinues
    <3>3. s.user # e.user /\ s.vehicle # e.vehicle
      BY <3>2 DEF EndReason
    <3> QED
      BY <2>4, <3>1, <3>3 DEF Continues, SameStart
  <2>8. \A t \in closed : t.end <= e.time
    <3>1. e.time \in Int
      BY DEF Setting, NextUp
    <3> QED
      BY <1>4, <2>3, <2>4, <3>1 DEF Continues
  <2>9. SessionsInv(seed, E, now, S2)
    <3>1. e \in now /\ e.time \in Int /\ \A b \in E \ now : e.time <= b.time
      BY DEF Setting, NextUp
    <3> HIDE DEF closed, now
    <3> QED
      BY <2>5, <2>6, <2>7, <2>8, <3>1, OpenKeeps
  <2>10. AnchorsInv(seed, now, S2, g)
    <3>1. \A s \in S : \E t \in S2 : SameStart(t, s)
      BY <2>3, <2>4 DEF Continues
    <3>2. Opened(e).anchor = e.id /\ Opened(e).start = e.time /\ Opened(e).user = e.user
          /\ Opened(e).vehicle = e.vehicle
      BY DEF Opened
    <3>3. \A t \in S2 : (\E s \in S : SameStart(t, s)) \/ t.anchor = e.id
      BY <2>3, <2>4, <3>2 DEF Continues
    <3>4. \E s \in S2 : /\ s.anchor = e.id /\ s.start <= e.time
                        /\ s.user = e.user /\ s.vehicle = e.vehicle
      <4>1. e.time \in Int
        BY DEF Setting, NextUp
      <4> QED
        BY <3>2, <4>1
    <3> HIDE DEF S, S2
    <3> QED
      BY <1>1, <1>2, <3>1, <3>3, <3>4, AnchorsGrow
  <2> HIDE DEF S2, g, now, sound
  <2>11. sound = TRUE
    BY <2>2, Zenon DEF sound
  <2>12. TakeEvent(p, e) = [sessions |-> S2, anchors |-> g, sound |-> TRUE]
    BY <2>1, <2>11, Zenon
  <2>13. RunInv(seed, E, now, TakeEvent(p, e))
    BY <2>9, <2>10, <2>12 DEF RunInv
  <2> QED
    BY <2>13 DEF now
<1> QED
  BY <1>5, <1>6

LEMMA ReturnKeeps ==
  ASSUME NEW seed, NEW E, NEW done, NEW p, NEW e, Setting(seed, E),
         RunInv(seed, E, done, p), NextUp(E, done, e), e.type = "return"
  PROVE  RunInv(seed, E, done \union {e}, ReturnEvent(p, e))
<1> DEFINE S == p.sessions
           now == done \union {e}
           anchor == p.anchors[e.cause]
           closed == CloseFor(S, e, anchor)
           sound == p.sound /\ \A s \in p.sessions : s.anchor = anchor =>
                                 /\ s.user = e.user /\ s.vehicle = e.vehicle
                                 /\ Open(s) => s.start <= e.time
<1>1. /\ SessionsInv(seed, E, done, S) /\ AnchorsInv(seed, done, S, p.anchors)
      /\ p = [sessions |-> S, anchors |-> p.anchors, sound |-> TRUE]
  BY DEF RunInv
<1>2. \A s \in S : s.start <= e.time /\ ProjectedShape(s)
  BY <1>1 DEF SessionsInv, Traced, NextUp
\* The RETURN's cause has an anchor, and that session is the RETURN's.
<1>3. /\ e.cause \in DOMAIN p.anchors
      /\ \E s \in S : s.anchor = anchor /\ s.user = e.user /\ s.vehicle = e.vehicle
  <2>1. e \in E
    BY DEF NextUp
  <2>2. CASE \E a \in E : a.id = e.cause
    <3>1. PICK a \in E : a.id = e.cause
      BY <2>2
    <3>2. Precedes(a, e)
      BY <3>1 DEF Precedes
    <3>3. a \in done
      BY <3>1, <3>2 DEF NextUp
    <3>4. a.type = "take" /\ a.user = e.user /\ a.vehicle = e.vehicle
      BY <2>1, <3>1 DEF Setting, Orderable
    <3> QED
      BY <1>1, <3>1, <3>3, <3>4 DEF AnchorsInv
  <2>3. CASE e.cause \in DOMAIN StartAnchors(seed)
             /\ \E c \in seed.sessions : /\ c.anchor = StartAnchors(seed)[e.cause]
                                         /\ c.user = e.user /\ c.vehicle = e.vehicle
    <3>1. PICK c \in seed.sessions : /\ c.anchor = StartAnchors(seed)[e.cause]
                                     /\ c.user = e.user /\ c.vehicle = e.vehicle
      BY <2>3
    <3>2. PICK s \in S : s.anchor = c.anchor
      BY <1>1 DEF SessionsInv
    <3>3. done \subseteq E
      BY DEF NextUp
    <3>4. SameStart(s, c)
      <4> HIDE DEF S
      <4> QED
        BY <1>1, <3>2, <3>3, CarriedUse
    <3>5. e.cause \in DOMAIN p.anchors /\ anchor = c.anchor
      BY <1>1, <2>3, <3>1 DEF AnchorsInv
    <3> QED
      BY <3>1, <3>2, <3>4, <3>5 DEF SameStart
  <2> QED
    BY <2>1, <2>2, <2>3 DEF Setting, CausesKnown
<1>4. sound
  <2>1. p.sound
    BY <1>1
  <2>2. \A s, r \in S : s.anchor = r.anchor => s = r
    BY <1>1 DEF SessionsInv
  <2> QED
    BY <1>2, <1>3, <2>1, <2>2
<1>5. SessionsInv(seed, E, now, closed)
  BY <1>1, CloseKeeps
<1>6. closed = {ClosedBy(s, e, anchor) : s \in S}
  BY CloseForIsMap, Zenon
<1>7. \A s \in S : Continues(ClosedBy(s, e, anchor), s, e)
  BY <1>2, ClosedContinues
<1>8. AnchorsInv(seed, now, closed, p.anchors)
  <2> DEFINE g == p.anchors
  <2>1. AnchorsInv(seed, done, S, g)
    BY <1>1
  <2>2. \A s \in S : \E t \in closed : SameStart(t, s)
    BY <1>6, <1>7 DEF Continues
  <2>3. \A t \in closed : \E s \in S : SameStart(t, s)
    BY <1>6, <1>7 DEF Continues
  <2> HIDE DEF g, S, closed
  <2>4. {a \in now : a.type = "take"} = {a \in done : a.type = "take"}
    OBVIOUS
  <2>5. \A t \in closed : t.anchor \in DOMAIN g /\ g[t.anchor] = t.anchor
    BY <2>1, <2>3 DEF AnchorsInv, SameStart
  <2>6. ASSUME NEW a \in now, a.type = "take"
        PROVE  \E t \in closed : /\ t.anchor = g[a.id] /\ t.start <= a.time
                                 /\ t.user = a.user /\ t.vehicle = a.vehicle
    <3>1. PICK s \in S : /\ s.anchor = g[a.id] /\ s.start <= a.time
                         /\ s.user = a.user /\ s.vehicle = a.vehicle
      BY <2>1, <2>4, <2>6 DEF AnchorsInv
    <3> QED
      BY <2>2, <3>1 DEF SameStart
  <2>7. AnchorsInv(seed, now, closed, g)
    <3> HIDE DEF now
    <3> QED
      BY <2>1, <2>4, <2>5, <2>6 DEF AnchorsInv
  <2> QED
    BY <2>7 DEF g
<1>9. ReturnEvent(p, e) = [sessions |-> closed, anchors |-> p.anchors, sound |-> TRUE]
  <2>1. PICK w : w = [p EXCEPT !.sessions = closed]
    OBVIOUS
  <2>2. PICK x : x = [w EXCEPT !.sound = sound]
    OBVIOUS
  <2>3. ReturnEvent(p, e) = x
    BY <1>3, <2>1, <2>2, Zenon DEF ReturnEvent
  <2> HIDE DEF closed, sound
  <2>4. sound = TRUE
    BY <1>4, Zenon DEF sound
  <2>5. w = [sessions |-> closed, anchors |-> p.anchors, sound |-> TRUE]
    <3> DEFINE h == p.anchors
    <3>1. p = [sessions |-> S, anchors |-> h, sound |-> TRUE]
      BY <1>1
    <3> HIDE DEF S, h
    <3>2. w = [sessions |-> closed, anchors |-> h, sound |-> TRUE]
      BY <2>1, <3>1
    <3> QED
      BY <3>2 DEF h
  <2>6. x = [w EXCEPT !.sound = TRUE]
    BY <2>2, <2>4, Zenon
  <2>7. x = [sessions |-> closed, anchors |-> p.anchors, sound |-> TRUE]
    BY <2>5, <2>6
  <2> QED
    BY <2>3, <2>7
<1> HIDE DEF closed, now
<1>10. RunInv(seed, E, now, ReturnEvent(p, e))
  BY <1>5, <1>8, <1>9 DEF RunInv
<1> QED
  BY <1>10 DEF now

----------------------------------------------------------------------------
(* The whole replay.                                                       *)

LEMMA StartInv ==
  ASSUME NEW seed, NEW E, Setting(seed, E)
  PROVE  RunInv(seed, E, {}, Start(seed))
<1> DEFINE S == Carried(seed)
           g == StartAnchors(seed)
           open == [c \in seed.sessions |-> Reopened(c)]
<1>1. /\ SeedShape(seed) /\ SoundSeed(seed) /\ Orderable(E, seed.boundary, DOMAIN g)
      /\ \A e \in E : e.time \in Int
  BY DEF Setting
<1>2. \A c \in seed.sessions :
        /\ open[c] = Reopened(c) /\ c.start \in Int
        /\ ProjectedShape(open[c]) /\ SameStart(open[c], c) /\ Open(open[c])
        /\ open[c].end = c.start /\ open[c].endEvent = NoEvent
  BY <1>1, ReopenedFacts DEF SeedShape
<1>3. S = {open[c] : c \in seed.sessions}
  BY DEF Carried
<1> HIDE DEF open, S
<1>4. IsFiniteSet(S)
  BY <1>1, <1>3, FiniteImage DEF SeedShape
<1>5. \A s \in S : Traced(seed, {}, s)
  BY <1>2, <1>3 DEF Traced, Open, SameStart
<1>6. \A s, r \in S : s.anchor = r.anchor => s = r
  BY <1>1, <1>2, <1>3 DEF SeedShape, SameStart
<1>7. \A c \in seed.sessions : \E s \in S : s.anchor = c.anchor
  BY <1>2, <1>3 DEF SameStart
<1>8. ASSUME NEW s \in S, NEW r \in S, s # r PROVE s.user # r.user /\ s.vehicle # r.vehicle
  <2>1. PICK c \in seed.sessions : s = open[c]
    BY <1>3
  <2>2. PICK d \in seed.sessions : r = open[d]
    BY <1>3
  <2>3. c # d
    BY <1>8, <2>1, <2>2
  <2>4. c.user # d.user /\ c.vehicle # d.vehicle
    BY <1>1, <2>3 DEF SoundSeed
  <2> QED
    BY <1>2, <2>1, <2>2, <2>4 DEF SameStart
<1>9. ASSUME NEW s \in S, NEW e \in E \ {} PROVE s.start <= e.time /\ s.end <= e.time
  <2>1. PICK c \in seed.sessions : s = open[c]
    BY <1>3
  <2>2. c.start <= seed.boundary /\ seed.boundary < e.time /\ seed.boundary \in Int
    BY <1>1 DEF SoundSeed, Orderable, SeedShape
  <2> QED
    BY <1>1, <1>2, <2>1, <2>2 DEF SameStart
<1>10. SessionsInv(seed, E, {}, S)
  BY <1>4, <1>5, <1>6, <1>7, <1>8, <1>9 DEF SessionsInv, Apart
<1>11. AnchorsInv(seed, {}, S, g)
  <2>1. g = [t \in DOMAIN g |-> g[t]]
    BY DEF StartAnchors
  <2>2. \A s \in S : s.anchor \in Own(seed)
    BY DEF Own, S
  <2>3. \A s \in S : s.anchor \in DOMAIN g /\ g[s.anchor] = s.anchor
    BY <1>1, <2>2, OwnAnchors
  <2> HIDE DEF g
  <2>4. DOMAIN g = DOMAIN StartAnchors(seed) \union {e.id : e \in {a \in {} : a.type = "take"}}
    BY DEF g
  <2>5. \A t \in DOMAIN StartAnchors(seed) : g[t] = StartAnchors(seed)[t]
    BY DEF g
  <2> QED
    BY <2>1, <2>3, <2>4, <2>5 DEF AnchorsInv
<1> HIDE DEF g
<1>12. Start(seed) = [sessions |-> S, anchors |-> g, sound |-> TRUE]
  BY DEF Start, S, g
<1> QED
  BY <1>10, <1>11, <1>12 DEF RunInv

LEMMA SettingReplayable ==
  ASSUME NEW seed, NEW E, Setting(seed, E)
  PROVE  Replayable(E)
BY DEF Setting, Orderable, Replayable

LEMMA ApplyKeeps ==
  ASSUME NEW seed, NEW E, NEW done, NEW p, NEW e, Setting(seed, E),
         RunInv(seed, E, done, p), NextUp(E, done, e)
  PROVE  RunInv(seed, E, done \union {e}, Apply(p, e))
<1>1. e.type \in {"take", "return"}
  BY DEF Setting, NextUp
<1>2. CASE e.type = "take"
  <2>1. Apply(p, e) = TakeEvent(p, e)
    BY <1>2 DEF Apply
  <2> QED
    BY <1>2, <2>1, TakeKeeps
<1>3. CASE e.type = "return"
  <2>1. Apply(p, e) = ReturnEvent(p, e)
    BY <1>3 DEF Apply
  <2> QED
    BY <1>3, <2>1, ReturnKeeps
<1> QED
  BY <1>1, <1>2, <1>3

LEMMA ReconcileUnfolds ==
  ASSUME NEW seed, NEW E, Setting(seed, E)
  PROVE  Reconcile(seed, E) = Folded(Start(seed), Ordered(E))
<1>1. Orderable(E, seed.boundary, DOMAIN StartAnchors(seed)) /\ SoundSeed(seed)
  BY DEF Setting
<1>2. Start(seed).anchors = StartAnchors(seed)
  BY DEF Start
<1>3. Reconcile(seed, E) =
        IF SoundSeed(seed) /\ Orderable(E, seed.boundary, DOMAIN Start(seed).anchors)
        THEN Folded(Start(seed), Ordered(E))
        ELSE [Start(seed) EXCEPT !.sound = FALSE]
  BY Zenon DEF Reconcile, Start, StartAnchors, Own, Carried, Folded
<1> QED
  BY <1>1, <1>2, <1>3, Zenon

\* The states a replay goes through, one per event.
Replays(seed, E, p) ==
  /\ p[0] = Start(seed) /\ p[Cardinality(E)] = Reconcile(seed, E)
  /\ \A k \in 1..Cardinality(E) : p[k] = Apply(p[k - 1], Ordered(E)[k])
  /\ \A k \in 0..Cardinality(E) : RunInv(seed, E, {Ordered(E)[i] : i \in 1..k}, p[k])

LEMMA ReplayRun ==
  ASSUME NEW seed, NEW E, Setting(seed, E)
  PROVE  \E p : Replays(seed, E, p)
<1> DEFINE n == Cardinality(E)
           q == Ordered(E)
<1>1. /\ n \in Nat /\ q \in [1..n -> E]
      /\ \A e \in E : \E i \in 1..n : q[i] = e
      /\ \A i, j \in 1..n : i < j => q[i] # q[j] /\ ~Precedes(q[j], q[i]) /\ q[i].time <= q[j].time
  BY SettingReplayable, OrderedIsOrder DEF OrderOf
<1>2. Reconcile(seed, E) = Folded(Start(seed), q)
  BY ReconcileUnfolds
<1> HIDE DEF n, q
<1> DEFINE start == Start(seed)
<1> HIDE DEF start
<1>3. PICK p : /\ p[0] = start
               /\ \A k \in 1..n : p[k] = Apply(p[k - 1], q[k])
               /\ Folded(start, q) = p[n]
  <2>1. DOMAIN q = 1..n
    BY <1>1
  <2>2. n \in Nat
    BY <1>1
  <2> QED
    BY <2>1, <2>2, FoldIsChain
<1> DEFINE done(k) == {q[i] : i \in 1..k}
           T == {k \in Nat : k <= n => RunInv(seed, E, done(k), p[k])}
<1>4. 0 \in T
  <2>1. done(0) = {}
    OBVIOUS
  <2> QED
    BY <1>3, <2>1, StartInv DEF start
<1>5. ASSUME NEW k \in Nat, k \in T PROVE k + 1 \in T
  <2> SUFFICES ASSUME k + 1 <= n PROVE RunInv(seed, E, done(k + 1), p[k + 1])
    OBVIOUS
  <2>1. RunInv(seed, E, done(k), p[k])
    <3>1. k <= n
      BY <1>1
    <3> QED
      BY <1>5, <3>1
  <2>2. k + 1 \in 1..n /\ p[k + 1] = Apply(p[k], q[k + 1])
    <3>1. k + 1 \in 1..n /\ (k + 1) - 1 = k
      BY <1>1
    <3> QED
      BY <1>3, <3>1
  <2>3. 1..(k + 1) = (1..k) \union {k + 1} /\ 1..k \subseteq 1..n
    BY <1>1
  <2>4. done(k + 1) = done(k) \union {q[k + 1]}
    BY <2>3
  <2>5. NextUp(E, done(k), q[k + 1])
    <3>1. done(k) \subseteq E /\ q[k + 1] \in E
      BY <1>1, <2>2, <2>3
    <3>2. \A j \in 1..n : j <= k \/ j = k + 1 \/ k + 1 < j
      BY <1>1
    <3>3. \A i \in 1..k : i \in 1..n /\ i < k + 1
      BY <2>3
    <3>4. q[k + 1] \notin done(k)
      BY <1>1, <2>2, <3>3
    <3>5. \A e \in E : e.time \in Int /\ ~Precedes(e, e)
      <4>1. \A e \in E : Ready({e}) # {}
        BY DEF Setting, Orderable
      <4> QED
        BY <4>1 DEF Ready, Setting
    <3>6. \A b \in E \ done(k) : q[k + 1].time <= b.time
      <4> SUFFICES ASSUME NEW b \in E \ done(k) PROVE q[k + 1].time <= b.time
        OBVIOUS
      <4>1. PICK j \in 1..n : q[j] = b
        BY <1>1
      <4>2. ~(j <= k)
        BY <4>1
      <4> QED
        BY <1>1, <2>2, <3>1, <3>2, <3>5, <4>1, <4>2
    <3>7. \A a \in E : Precedes(a, q[k + 1]) => a \in done(k)
      <4> SUFFICES ASSUME NEW a \in E, Precedes(a, q[k + 1]) PROVE a \in done(k)
        OBVIOUS
      <4>1. PICK j \in 1..n : q[j] = a
        BY <1>1
      <4>2. j <= k
        BY <1>1, <2>2, <3>1, <3>2, <3>5, <4>1
      <4> QED
        BY <4>1, <4>2
    <3> HIDE DEF done
    <3> QED
      BY <3>1, <3>4, <3>6, <3>7 DEF NextUp
  <2> HIDE DEF done
  <2> QED
    BY <2>1, <2>2, <2>4, <2>5, ApplyKeeps
<1>6. \A k \in 0..n : RunInv(seed, E, done(k), p[k])
  <2>1. Nat \subseteq T
    <3> HIDE DEF T
    <3> QED
      BY <1>4, <1>5, SetInduction, Zenon
  <2>2. \A k \in 0..n : k \in Nat /\ k <= n
    BY <1>1
  <2> HIDE DEF done
  <2> QED
    BY <2>1, <2>2
<1>7. Replays(seed, E, p)
  BY <1>2, <1>3, <1>6 DEF Replays, start, n, q
<1> QED
  BY <1>7

(***************************************************************************)
(* A replay whose causes are known never raises, and leaves every session  *)
(* traceable to the one TAKE that opened it, every TAKE associated with a  *)
(* session of its driver and car, and no driver or car used twice at once. *)
(***************************************************************************)
THEOREM ReplayKeepsInvariant ==
  ASSUME NEW seed, NEW E, Setting(seed, E)
  PROVE  RunInv(seed, E, E, Reconcile(seed, E))
<1>1. PICK p : Replays(seed, E, p)
  BY ReplayRun
<1>2. /\ Cardinality(E) \in Nat /\ Ordered(E) \in [1..Cardinality(E) -> E]
      /\ \A e \in E : \E i \in 1..Cardinality(E) : Ordered(E)[i] = e
  BY SettingReplayable, OrderedIsOrder DEF OrderOf
<1>3. {Ordered(E)[i] : i \in 1..Cardinality(E)} = E
  BY <1>2
<1>4. Cardinality(E) \in 0..Cardinality(E)
  BY <1>2
<1>5. RunInv(seed, E, {Ordered(E)[i] : i \in 1..Cardinality(E)}, p[Cardinality(E)])
  BY <1>1, <1>4 DEF Replays
<1> QED
  BY <1>1, <1>3, <1>5 DEF Replays

----------------------------------------------------------------------------
(* Uninterrupted use: the relation that the declarative history is about.  *)

\* q lists the evidence of a family, every RETURN after the TAKE it names.
Replayed(q) ==
  /\ Len(q) \in Nat
  /\ \A i \in 1..Len(q) : q[i].type \in {"take", "return"}
  /\ \A i, j \in 1..Len(q) : q[i].id = q[j].id => i = j
  /\ \A i \in 1..Len(q) : q[i].type = "return" =>
       \E j \in 1..(i - 1) : q[j].id = q[i].cause /\ q[j].type = "take" /\ SamePair(q[j], q[i])

Lasts(q, c, p) == Held(q)[<<c, p>>]

\* The events at j and c belong to one uninterrupted use.
OneUse(q, j, c) ==
  /\ SamePair(q[j], q[c])
  /\ j = c \/ (j < c /\ Lasts(q, j, c)) \/ (c < j /\ Lasts(q, c, j))

\* The event at k ends the use that the event at c belongs to.
Interrupts(q, c, k) ==
  \/ Displaces(q[c], q[k])
  \/ /\ q[k].type = "return"
     /\ \E j \in 1..(k - 1) : q[j].id = q[k].cause /\ OneUse(q, j, c)

\* The recursive function behind Held exists.
LEMMA HeldDefined ==
  ASSUME NEW q, Len(q) \in Nat
  PROVE  \A c \in 1..Len(q), p \in 1..(Len(q) + 1) :
           Lasts(q, c, p) <=> \A k \in (c + 1)..(p - 1) : ~Interrupts(q, c, k)
<1> DEFINE n == Len(q)
           D == (1..n) \X (1..n + 1)
           Cell(f, c, k) ==
              /\ ~Displaces(q[c], q[k])
              /\ q[k].type = "return" =>
                   \A j \in 1..(k - 1) : q[j].id = q[k].cause =>
                     ~ /\ SamePair(q[j], q[c])
                       /\ \/ j = c
                          \/ j < c /\ f[<<j, c>>]
                          \/ c < j /\ f[<<c, j>>]
           Body(f, cp) == \A k \in (cp[1] + 1)..(cp[2] - 1) : Cell(f, cp[1], k)
           Early(m) == {cp \in D : cp[2] <= m}
           IsFrom(f, S) == f = [cp \in S |-> Body(f, cp)]
           held == CHOOSE f : f = [cp \in D |-> Body(f, cp)]
           T == {m \in Nat : \E f : IsFrom(f, Early(m))}
<1>1. Held(q) = held
  BY Zenon DEF Held
<1>2. 0 \in T
  <2>1. Early(0) = {}
    OBVIOUS
  <2> DEFINE f == [cp \in Early(0) |-> TRUE]
  <2>2. \A cp \in Early(0) : TRUE = Body(f, cp)
    BY <2>1
  <2> HIDE DEF Body, Early
  <2>3. f = [cp \in Early(0) |-> Body(f, cp)]
    BY <2>2, Zenon
  <2> HIDE DEF f
  <2> QED
    BY <2>3, Zenon
<1>3. ASSUME NEW m \in Nat, m \in T PROVE m + 1 \in T
  <2>1. PICK f : IsFrom(f, Early(m))
    <3> HIDE DEF IsFrom
    <3> QED
      BY <1>3
  <2> DEFINE g == [cp \in Early(m + 1) |-> Body(f, cp)]
  <2>2. \A cp \in Early(m) : g[cp] = f[cp]
    <3>1. Early(m) \subseteq Early(m + 1)
      OBVIOUS
    <3> HIDE DEF Body, Early
    <3>2. \A cp \in Early(m) : f[cp] = Body(f, cp)
      BY <2>1, Zenon
    <3> QED
      BY <3>1, <3>2, Zenon
  <2>3. ASSUME NEW c \in 1..n, NEW p \in 1..(n + 1), p <= m + 1, NEW k \in (c + 1)..(p - 1)
        PROVE  Cell(f, c, k) <=> Cell(g, c, k)
    <3>1. \A j \in 1..(k - 1) : /\ j < c => f[<<j, c>>] = g[<<j, c>>]
                                /\ c < j => f[<<c, j>>] = g[<<c, j>>]
      <4> SUFFICES ASSUME NEW j \in 1..(k - 1)
                   PROVE  /\ j < c => f[<<j, c>>] = g[<<j, c>>]
                          /\ c < j => f[<<c, j>>] = g[<<c, j>>]
        OBVIOUS
      <4>1. j \in 1..n /\ c \in 1..n + 1 /\ j \in 1..n + 1 /\ c <= m /\ j <= m
        BY <2>3
      <4>2. <<j, c>> \in Early(m) /\ <<c, j>> \in Early(m)
        BY <4>1
      <4> HIDE DEF Early, g
      <4> QED
        BY <2>2, <4>2, Zenon
    <3> HIDE DEF g
    <3> QED
      BY <3>1, Zenon
  <2>4. \A cp \in Early(m + 1) : Body(f, cp) = Body(g, cp)
    <3> SUFFICES ASSUME NEW cp \in Early(m + 1) PROVE Body(f, cp) = Body(g, cp)
      OBVIOUS
    <3>1. cp[1] \in 1..n /\ cp[2] \in 1..(n + 1) /\ cp[2] <= m + 1
      OBVIOUS
    <3> HIDE DEF Cell, g, Early
    <3>2. \A k \in (cp[1] + 1)..(cp[2] - 1) : Cell(f, cp[1], k) <=> Cell(g, cp[1], k)
      BY <2>3, <3>1
    <3>3. (\A k \in (cp[1] + 1)..(cp[2] - 1) : Cell(f, cp[1], k))
            <=> (\A k \in (cp[1] + 1)..(cp[2] - 1) : Cell(g, cp[1], k))
      BY <3>2, Zenon
    <3> QED
      BY <3>3, Zenon
  <2> HIDE DEF Body, Early
  <2>5. IsFrom(g, Early(m + 1))
    BY <2>4, Zenon
  <2> HIDE DEF g, IsFrom
  <2> QED
    BY <2>5
<1>4. IsFrom(held, D)
  <2>1. Nat \subseteq T
    <3> HIDE DEF T
    <3> QED
      BY <1>2, <1>3, SetInduction, Zenon
  <2>2. n + 1 \in T
    <3> HIDE DEF T
    <3> QED
      BY <2>1
  <2>3. Early(n + 1) = D
    OBVIOUS
  <2>4. \E f : IsFrom(f, D)
    <3> HIDE DEF IsFrom, Early, D
    <3> QED
      BY <2>2, <2>3, Zenon
  <2> HIDE DEF Body, D
  <2> QED
    BY <2>4, Zenon
<1> HIDE DEF held
<1>5. \A cp \in D : held[cp] = Body(held, cp)
  <2> HIDE DEF Body, D
  <2> QED
    BY <1>4, Zenon
<1> SUFFICES ASSUME NEW c \in 1..n, NEW p \in 1..(n + 1)
             PROVE  Lasts(q, c, p) <=> \A k \in (c + 1)..(p - 1) : ~Interrupts(q, c, k)
  OBVIOUS
<1>6. <<c, p>> \in D /\ <<c, p>>[1] = c /\ <<c, p>>[2] = p
  OBVIOUS
<1>7. held[<<c, p>>] = \A k \in (c + 1)..(p - 1) : Cell(held, c, k)
  <2> HIDE DEF Cell, D
  <2>1. held[<<c, p>>] = Body(held, <<c, p>>)
    <3> HIDE DEF Body
    <3> QED
      BY <1>5, <1>6, Zenon
  <2> QED
    BY <1>6, <2>1, Zenon
<1>8. ASSUME NEW k PROVE Cell(held, c, k) <=> ~Interrupts(q, c, k)
  BY <1>1, Zenon DEF Interrupts, OneUse, Lasts
<1> HIDE DEF Cell
<1>9. (\A k \in (c + 1)..(p - 1) : Cell(held, c, k)) <=> \A k \in (c + 1)..(p - 1) : ~Interrupts(q, c, k)
  BY <1>8, Zenon
<1> QED
  BY <1>1, <1>7, <1>9, Zenon DEF Lasts

\* Use is lost one event at a time, and never regained.
LEMMA LastsSteps ==
  ASSUME NEW q, Replayed(q), NEW c \in 1..Len(q)
  PROVE  /\ \A p \in 1..(Len(q) + 1) : p <= c + 1 => Lasts(q, c, p)
         /\ \A p \in (c + 1)..Len(q) : Lasts(q, c, p + 1) <=> Lasts(q, c, p) /\ ~Interrupts(q, c, p)
         /\ \A p, r \in 1..(Len(q) + 1) : r <= p /\ Lasts(q, c, p) => Lasts(q, c, r)
<1>1. Len(q) \in Nat
  BY DEF Replayed
<1>2. \A p \in 1..(Len(q) + 1) : Lasts(q, c, p) <=> \A k \in (c + 1)..(p - 1) : ~Interrupts(q, c, k)
  BY <1>1, HeldDefined
<1>3. ASSUME NEW p \in 1..(Len(q) + 1), p <= c + 1 PROVE Lasts(q, c, p)
  <2>1. (c + 1)..(p - 1) = {}
    BY <1>1, <1>3
  <2> QED
    BY <1>2, <2>1
<1>4. ASSUME NEW p \in (c + 1)..Len(q)
      PROVE  Lasts(q, c, p + 1) <=> Lasts(q, c, p) /\ ~Interrupts(q, c, p)
  <2>1. /\ p \in 1..(Len(q) + 1) /\ p + 1 \in 1..(Len(q) + 1)
        /\ (c + 1)..((p + 1) - 1) = ((c + 1)..(p - 1)) \union {p}
    BY <1>1
  <2> QED
    BY <1>2, <2>1
<1>5. ASSUME NEW p \in 1..(Len(q) + 1), NEW r \in 1..(Len(q) + 1), r <= p, Lasts(q, c, p)
      PROVE  Lasts(q, c, r)
  <2>1. (c + 1)..(r - 1) \subseteq (c + 1)..(p - 1)
    BY <1>1, <1>5
  <2> QED
    BY <1>2, <1>5, <2>1
<1> QED
  BY <1>3, <1>4, <1>5

\* What a RETURN ends is the use of the one TAKE it names.
LEMMA ReturnInterrupts ==
  ASSUME NEW q, Replayed(q), NEW k \in 1..Len(q), q[k].type = "return"
  PROVE  \E j \in Takes(q) :
           /\ j < k /\ q[j].id = q[k].cause /\ SamePair(q[j], q[k])
           /\ \A c \in Takes(q) : Interrupts(q, c, k) <=> OneUse(q, j, c)
<1>1. PICK j \in 1..(k - 1) : q[j].id = q[k].cause /\ q[j].type = "take" /\ SamePair(q[j], q[k])
  BY DEF Replayed
<1>2. Len(q) \in Nat /\ j \in 1..Len(q) /\ j < k
  BY DEF Replayed
<1>3. \A i \in 1..(k - 1) : q[i].id = q[k].cause => i = j
  <2>1. \A i \in 1..(k - 1) : i \in 1..Len(q)
    BY <1>2
  <2> QED
    BY <1>1, <1>2, <2>1 DEF Replayed
<1>4. \A c : ~Displaces(q[c], q[k])
  BY DEF Displaces
<1>5. \A c \in Takes(q) : Interrupts(q, c, k) <=> OneUse(q, j, c)
  BY <1>1, <1>3, <1>4 DEF Interrupts
<1> QED
  BY <1>1, <1>2, <1>5 DEF Takes

\* A TAKE of the same car by its driver interrupts nothing.
LEMMA AliasInterruptsNot ==
  ASSUME NEW q, Replayed(q), NEW c \in Takes(q), NEW d \in Takes(q), SamePair(q[c], q[d])
  PROVE  ~Interrupts(q, c, d)
BY DEF Interrupts, Displaces, SamePair, Takes

\* Two TAKEs of one use are interrupted by the same RETURNs and TAKEs.
JoinedUntil(q, m) ==
  \A c, d \in Takes(q), p \in 1..(Len(q) + 1) :
    c < d /\ d <= p /\ p <= m /\ SamePair(q[c], q[d]) /\ Lasts(q, c, d) => (Lasts(q, c, p) <=> Lasts(q, d, p))

LEMMA OneUseShared ==
  ASSUME NEW q, Replayed(q), NEW k \in 1..Len(q), JoinedUntil(q, k),
         NEW c \in Takes(q), NEW d \in Takes(q), NEW j \in Takes(q),
         c < d, d < k, j < k, SamePair(q[c], q[d]), Lasts(q, c, d)
  PROVE  OneUse(q, j, c) <=> OneUse(q, j, d)
<1>1. /\ Len(q) \in Nat /\ c \in 1..Len(q) /\ d \in 1..Len(q) /\ j \in 1..Len(q)
      /\ c \in 1..(Len(q) + 1) /\ d \in 1..(Len(q) + 1) /\ j \in 1..(Len(q) + 1)
      /\ c \in Int /\ d \in Int /\ j \in Int /\ k \in Int
  BY DEF Replayed, Takes
<1>2. SamePair(q[j], q[c]) <=> SamePair(q[j], q[d])
  BY DEF SamePair
<1> SUFFICES ASSUME SamePair(q[j], q[c]), SamePair(q[j], q[d]) PROVE OneUse(q, j, c) <=> OneUse(q, j, d)
  BY <1>2 DEF OneUse
<1>3. CASE j = c
  BY <1>3 DEF OneUse
<1>4. CASE j = d
  BY <1>1, <1>4 DEF OneUse
<1>5. CASE j < c
  <2>1. Lasts(q, j, d) => Lasts(q, j, c)
    BY <1>1, LastsSteps
  <2>2. Lasts(q, j, c) => Lasts(q, j, d)
    <3>1. d <= k /\ c <= d
      BY <1>1
    <3> QED
      BY <1>1, <1>5, <3>1 DEF JoinedUntil
  <2>3. j < d /\ j # c /\ j # d /\ ~(c < j) /\ ~(d < j)
    BY <1>1, <1>5
  <2> QED
    BY <1>5, <2>1, <2>2, <2>3, Zenon DEF OneUse
<1>6. CASE c < j /\ j < d
  <2>1. Lasts(q, c, j)
    <3>1. j <= d
      BY <1>1, <1>6
    <3> QED
      BY <1>1, <3>1, LastsSteps
  <2>2. SamePair(q[c], q[j])
    BY DEF SamePair
  <2>3. Lasts(q, j, d)
    <3>1. d <= k /\ j <= d
      BY <1>1, <1>6
    <3> QED
      BY <1>1, <1>6, <2>1, <2>2, <3>1 DEF JoinedUntil
  <2> QED
    BY <1>6, <2>1, <2>3 DEF OneUse
<1>7. CASE d < j
  <2>1. Lasts(q, c, j) <=> Lasts(q, d, j)
    <3>1. d <= j /\ j <= k
      BY <1>1, <1>7
    <3> QED
      BY <1>1, <3>1 DEF JoinedUntil
  <2>2. c < j /\ j # c /\ j # d /\ ~(j < c) /\ ~(j < d)
    BY <1>1, <1>7
  <2> QED
    BY <1>7, <2>1, <2>2, Zenon DEF OneUse
<1> QED
  BY <1>1, <1>3, <1>4, <1>5, <1>6, <1>7

LEMMA UseJoins ==
  ASSUME NEW q, Replayed(q)
  PROVE  \A m \in Nat : JoinedUntil(q, m)
<1> DEFINE T == {m \in Nat : JoinedUntil(q, m)}
<1>0. Len(q) \in Nat
  BY DEF Replayed
<1>1. 0 \in T
  BY <1>0 DEF JoinedUntil
<1>2. ASSUME NEW m \in Nat, m \in T PROVE m + 1 \in T
  <2> SUFFICES JoinedUntil(q, m + 1)
    OBVIOUS
  <2> SUFFICES ASSUME NEW c \in Takes(q), NEW d \in Takes(q), NEW p \in 1..(Len(q) + 1),
                      c < d, d <= p, p <= m + 1, SamePair(q[c], q[d]), Lasts(q, c, d)
               PROVE  Lasts(q, c, p) <=> Lasts(q, d, p)
    BY Zenon DEF JoinedUntil
  <2>0. JoinedUntil(q, m)
    BY <1>2
  <2>1. c \in 1..Len(q) /\ d \in 1..Len(q) /\ c \in Int /\ d \in Int /\ p \in Int /\ m \in Int
    BY <1>0 DEF Takes
  <2>2. CASE p <= m
    BY <2>0, <2>2 DEF JoinedUntil
  <2>3. CASE p = d
    <3>1. d \in 1..(Len(q) + 1) /\ d <= d + 1
      BY <1>0, <2>1
    <3>2. Lasts(q, d, d)
      BY <2>1, <3>1, LastsSteps
    <3> QED
      BY <2>3, <3>2
  <2>4. CASE p = m + 1 /\ d < p
    <3>1. m \in 1..Len(q) /\ d <= m /\ m \in (c + 1)..Len(q) /\ m \in 1..(Len(q) + 1)
      BY <1>0, <2>1, <2>4
    <3>2. Lasts(q, c, m) <=> Lasts(q, d, m)
      BY <2>0, <3>1 DEF JoinedUntil
    <3>3. Lasts(q, c, p) <=> Lasts(q, c, m) /\ ~Interrupts(q, c, m)
      BY <2>1, <2>4, <3>1, LastsSteps
    <3>4. CASE d = m
      <4>1. p \in 1..(Len(q) + 1) /\ p <= d + 1
        BY <2>4, <3>4
      <4>2. Lasts(q, d, p)
        BY <2>1, <4>1, LastsSteps
      <4>3. ~Interrupts(q, c, m)
        BY <3>4, AliasInterruptsNot
      <4> QED
        BY <3>3, <3>4, <4>2, <4>3
    <3>5. CASE d < m
      <4>1. m \in (d + 1)..Len(q)
        BY <2>1, <3>1, <3>5
      <4>2. Lasts(q, d, p) <=> Lasts(q, d, m) /\ ~Interrupts(q, d, m)
        BY <2>1, <2>4, <4>1, LastsSteps
      <4>3. Interrupts(q, c, m) <=> Interrupts(q, d, m)
        <5>1. CASE q[m].type = "return"
          <6>1. PICK j \in Takes(q) :
                  j < m /\ \A e \in Takes(q) : Interrupts(q, e, m) <=> OneUse(q, j, e)
            BY <3>1, <5>1, ReturnInterrupts
          <6>2. OneUse(q, j, c) <=> OneUse(q, j, d)
            BY <2>0, <3>1, <3>5, <6>1, OneUseShared
          <6> QED
            BY <6>1, <6>2
        <5>2. CASE q[m].type # "return"
          <6>1. Displaces(q[c], q[m]) <=> Displaces(q[d], q[m])
            BY DEF Displaces, SamePair
          <6> QED
            BY <5>2, <6>1 DEF Interrupts
        <5> QED
          BY <5>1, <5>2
      <4> QED
        BY <3>2, <3>3, <4>2, <4>3
    <3> QED
      BY <2>1, <3>1, <3>4, <3>5
  <2> QED
    BY <2>1, <2>2, <2>3, <2>4
<1> HIDE DEF T
<1>3. Nat \subseteq T
  BY <1>1, <1>2, SetInduction, Zenon
<1> QED
  BY <1>3 DEF T

\* TAKEs of one use are kept or lost together.
LEMMA OneUseLasts ==
  ASSUME NEW q, Replayed(q), NEW c \in Takes(q), NEW d \in Takes(q), NEW p \in 1..(Len(q) + 1),
         c < d, d <= p, SamePair(q[c], q[d]), Lasts(q, c, d)
  PROVE  Lasts(q, c, p) <=> Lasts(q, d, p)
<1>1. p \in Nat /\ p <= p
  BY DEF Replayed
<1>2. JoinedUntil(q, p)
  BY <1>1, UseJoins
<1> QED
  BY <1>1, <1>2 DEF JoinedUntil

----------------------------------------------------------------------------
(* The TAKE that opens a use.                                              *)

\* Nobody held the car for the same driver when c took it.
OpensUse(q, c) ==
  c \in Takes(q) /\ \A j \in Takes(q) : j < c => ~(SamePair(q[j], q[c]) /\ Lasts(q, j, c))

OpeningOf(q, c) == Opening(q, Held(q), c)

LEMMA OpeningFacts ==
  ASSUME NEW q, Replayed(q), NEW c \in Takes(q)
  PROVE  /\ OpeningOf(q, c) \in Takes(q) /\ OpensUse(q, OpeningOf(q, c))
         /\ OneUse(q, OpeningOf(q, c), c) /\ OpeningOf(q, c) <= c
         /\ \A o \in Takes(q) : OpensUse(q, o) /\ o <= c /\ OneUse(q, o, c) => o = OpeningOf(q, c)
<1> DEFINE First_(o) == /\ o = c \/ (o < c /\ SamePair(q[o], q[c]) /\ Lasts(q, o, c))
                        /\ \A j \in Takes(q) : j < o => ~(SamePair(q[j], q[c]) /\ Lasts(q, j, c))
           U == {o \in Takes(q) : o = c \/ (o < c /\ SamePair(q[o], q[c]) /\ Lasts(q, o, c))}
<1>0. /\ Len(q) \in Nat /\ Takes(q) \subseteq 1..Len(q) /\ Takes(q) \subseteq Nat
      /\ Takes(q) \subseteq 1..(Len(q) + 1) /\ SamePair(q[c], q[c])
  BY DEF Replayed, Takes, SamePair
<1>1. PICK o \in U : \A j \in U : o <= j
  <2>1. U \subseteq Nat /\ U # {}
    BY <1>0
  <2> HIDE DEF U
  <2> QED
    BY <2>1, LeastElement
<1>2. o \in Takes(q) /\ First_(o)
  <2>1. o \in Takes(q) /\ (o = c \/ (o < c /\ SamePair(q[o], q[c]) /\ Lasts(q, o, c)))
    OBVIOUS
  <2>2. ASSUME NEW j \in Takes(q), j < o, SamePair(q[j], q[c]), Lasts(q, j, c) PROVE FALSE
    <3>1. j < c /\ ~(o <= j)
      BY <1>0, <2>1, <2>2
    <3>2. j \in U
      BY <2>2, <3>1
    <3> QED
      BY <1>1, <3>1, <3>2
  <2> QED
    BY <2>1, <2>2, Zenon
<1>3. ASSUME NEW a \in Takes(q), First_(a), NEW b \in Takes(q), First_(b) PROVE a = b
  <2>1. a \in Int /\ b \in Int /\ c \in Int
    BY <1>0
  <2>2. ASSUME NEW x \in Takes(q), NEW y \in Takes(q), First_(x), First_(y), x < y PROVE FALSE
    <3>1. x \in Int /\ y \in Int /\ x < c
      BY <1>0, <2>2
    <3>2. SamePair(q[x], q[c]) /\ Lasts(q, x, c)
      BY <2>2, <3>1
    <3> QED
      BY <2>2, <3>2
  <2> HIDE DEF First_
  <2>3. ~(a < b) /\ ~(b < a)
    BY <1>3, <2>2
  <2> QED
    BY <2>1, <2>3
<1>4. OpeningOf(q, c) = CHOOSE x \in Takes(q) : First_(x)
  BY Zenon DEF OpeningOf, Opening, Lasts
<1> HIDE DEF First_
<1>5. OpeningOf(q, c) = o
  <2>1. OpeningOf(q, c) \in Takes(q) /\ First_(OpeningOf(q, c))
    BY <1>2, <1>4, Zenon
  <2> QED
    BY <1>2, <1>3, <2>1, Zenon
<1>6. OneUse(q, o, c) /\ o <= c
  BY <1>0, <1>2 DEF First_, OneUse
<1>7. OpensUse(q, o)
  <2> SUFFICES ASSUME NEW j \in Takes(q), j < o, SamePair(q[j], q[o]), Lasts(q, j, o) PROVE FALSE
    BY <1>2 DEF OpensUse
  <2>1. SamePair(q[o], q[c]) /\ SamePair(q[j], q[c])
    BY <1>6 DEF OneUse, SamePair
  <2>2. Lasts(q, j, c) <=> Lasts(q, o, c)
    BY <1>0, <1>2, <1>6, OneUseLasts
  <2>3. Lasts(q, o, c)
    <3>1. CASE o = c
      <4>1. c \in 1..Len(q) /\ c \in 1..(Len(q) + 1) /\ c <= c + 1
        BY <1>0
      <4> QED
        BY <3>1, <4>1, LastsSteps
    <3>2. CASE o # c
      BY <1>2, <3>2 DEF First_
    <3> QED
      BY <3>1, <3>2
  <2> QED
    BY <1>2, <2>1, <2>2, <2>3 DEF First_
<1>8. ASSUME NEW x \in Takes(q), OpensUse(q, x), x <= c, OneUse(q, x, c) PROVE x = o
  <2>1. x \in Int /\ c \in Int
    BY <1>0
  <2>2. x = c \/ (x < c /\ SamePair(q[x], q[c]) /\ Lasts(q, x, c))
    BY <1>8, <2>1 DEF OneUse
  <2>3. ASSUME NEW j \in Takes(q), j < x, SamePair(q[j], q[c]), Lasts(q, j, c) PROVE FALSE
    <3>1. SamePair(q[j], q[x])
      BY <1>8, <2>3 DEF SamePair, OneUse
    <3>2. Lasts(q, j, x)
      BY <1>0, <1>8, <2>3, LastsSteps
    <3> QED
      BY <1>8, <2>3, <3>1, <3>2 DEF OpensUse
  <2>4. First_(x)
    BY <2>2, <2>3 DEF First_
  <2> QED
    BY <1>2, <1>3, <2>4
<1> QED
  BY <1>2, <1>5, <1>6, <1>7, <1>8

\* An opening TAKE is its own opening.
LEMMA OpensItself ==
  ASSUME NEW q, Replayed(q), NEW c \in Takes(q)
  PROVE  OpensUse(q, c) <=> OpeningOf(q, c) = c
<1>1. OneUse(q, c, c) /\ c <= c
  BY DEF OneUse, SamePair, Takes, Replayed
<1> QED
  BY <1>1, OpeningFacts

----------------------------------------------------------------------------
(* The sessions of the history, and those of a replay of the first events. *)

Ended(q, c, k) == k \in (c + 1)..Len(q) /\ Lasts(q, c, k) /\ ~Lasts(q, c, k + 1)

EndOf(q, c, k) ==
  IF q[k].type = "return" THEN "return"
  ELSE IF q[k].user = q[c].user THEN "vehicle_switch" ELSE "handover"

Entry(q, c, end, reason) ==
  [user |-> q[c].user, vehicle |-> q[c].vehicle, anchor |-> q[c].id, start |-> q[c].time,
   end |-> end, reason |-> reason]

LEMMA EndExists ==
  ASSUME NEW q, Replayed(q), NEW c \in Takes(q), NEW p \in 1..(Len(q) + 1), ~Lasts(q, c, p)
  PROVE  \E k \in (c + 1)..(p - 1) : Ended(q, c, k)
<1> DEFINE U == {r \in 1..(Len(q) + 1) : ~Lasts(q, c, r)}
<1>0. Len(q) \in Nat /\ c \in 1..Len(q)
  BY DEF Replayed, Takes
<1>1. PICK r \in U : \A x \in U : r <= x
  <2>1. U \subseteq Nat /\ U # {}
    BY <1>0
  <2> HIDE DEF U
  <2> QED
    BY <2>1, LeastElement
<1>2. r \in 1..(Len(q) + 1) /\ ~Lasts(q, c, r) /\ r <= p
  BY <1>1
<1>3. ~(r <= c + 1)
  BY <1>0, <1>2, LastsSteps
<1>4. /\ r - 1 \in (c + 1)..(p - 1) /\ r - 1 \in (c + 1)..Len(q) /\ (r - 1) + 1 = r
      /\ r - 1 \in 1..(Len(q) + 1) /\ ~(r <= r - 1)
  BY <1>0, <1>2, <1>3
<1>5. Lasts(q, c, r - 1)
  BY <1>1, <1>4
<1> QED
  BY <1>2, <1>4, <1>5 DEF Ended

LEMMA EndedOnce ==
  ASSUME NEW q, Replayed(q), NEW c \in Takes(q), NEW k, Ended(q, c, k),
         NEW p \in 1..(Len(q) + 1), Lasts(q, c, p)
  PROVE  p <= k
<1>1. Len(q) \in Nat /\ c \in 1..Len(q) /\ k \in (c + 1)..Len(q) /\ ~Lasts(q, c, k + 1)
  BY DEF Replayed, Takes, Ended
<1>2. k + 1 \in 1..(Len(q) + 1)
  BY <1>1
<1>3. ~(k + 1 <= p)
  BY <1>1, <1>2, LastsSteps
<1> QED
  BY <1>1, <1>3

LEMMA HistoryEntry ==
  ASSUME NEW q, Replayed(q), NEW c \in Takes(q)
  PROVE  /\ Lasts(q, c, Len(q) + 1) => HistorySession(q, Held(q), c) = Entry(q, c, q[c].time, "open")
         /\ \A k : Ended(q, c, k) => HistorySession(q, Held(q), c) = Entry(q, c, q[k].time, EndOf(q, c, k))
<1> DEFINE ends == {k \in (c + 1)..Len(q) : ~Lasts(q, c, k + 1)}
           least == CHOOSE i \in ends : \A j \in ends : i <= j
<1>0. Len(q) \in Nat /\ c \in 1..Len(q)
  BY DEF Replayed, Takes
<1>1. HistorySession(q, Held(q), c) =
        [user |-> q[c].user, vehicle |-> q[c].vehicle, anchor |-> q[c].id, start |-> q[c].time,
         end    |-> IF ends = {} THEN q[c].time ELSE q[least].time,
         reason |-> IF ends = {}                      THEN "open"
                    ELSE IF q[least].type = "return"  THEN "return"
                    ELSE IF q[least].user = q[c].user THEN "vehicle_switch"
                    ELSE "handover"]
  BY Zenon DEF HistorySession, Lasts
<1>2. ASSUME Lasts(q, c, Len(q) + 1) PROVE ends = {}
  <2>1. \A k \in (c + 1)..Len(q) : k + 1 \in 1..(Len(q) + 1) /\ Len(q) + 1 \in 1..(Len(q) + 1) /\ k + 1 <= Len(q) + 1
    BY <1>0
  <2>2. \A k \in (c + 1)..Len(q) : Lasts(q, c, k + 1)
    BY <1>0, <1>2, <2>1, LastsSteps
  <2> QED
    BY <2>2
<1>3. ASSUME NEW k, Ended(q, c, k) PROVE ends # {} /\ least = k
  <2>1. k \in ends
    BY <1>3 DEF Ended
  <2>2. \A j \in ends : k <= j
    <3> SUFFICES ASSUME NEW j \in ends, ~(k <= j) PROVE FALSE
      OBVIOUS
    <3>1. k \in (c + 1)..Len(q) /\ Lasts(q, c, k)
      BY <1>3 DEF Ended
    <3>2. j + 1 \in 1..(Len(q) + 1) /\ k \in 1..(Len(q) + 1) /\ j + 1 <= k
      BY <1>0, <3>1
    <3> QED
      BY <1>0, <3>1, <3>2, LastsSteps
  <2>3. \A i \in ends : (\A j \in ends : i <= j) => i = k
    <3> SUFFICES ASSUME NEW i \in ends, \A j \in ends : i <= j PROVE i = k
      OBVIOUS
    <3>1. i <= k /\ k <= i /\ i \in Int /\ k \in Int
      BY <1>0, <2>1, <2>2
    <3> QED
      BY <3>1
  <2> HIDE DEF ends
  <2> QED
    BY <2>1, <2>2, <2>3, Zenon
<1> HIDE DEF ends, least
<1>4. ASSUME Lasts(q, c, Len(q) + 1)
      PROVE  HistorySession(q, Held(q), c) = Entry(q, c, q[c].time, "open")
  BY <1>1, <1>2, <1>4, Zenon DEF Entry
<1>5. ASSUME NEW k, Ended(q, c, k)
      PROVE  HistorySession(q, Held(q), c) = Entry(q, c, q[k].time, EndOf(q, c, k))
  <2>1. ends # {} /\ least = k
    BY <1>3, <1>5
  <2> QED
    BY <1>1, <2>1, Zenon DEF Entry, EndOf
<1> QED
  BY <1>4, <1>5

\* Session s of a replay of m events is the history's of the TAKE at c, so far.
Mirrors(q, m, s, c) ==
  /\ s.user = q[c].user /\ s.vehicle = q[c].vehicle /\ s.anchor = q[c].id /\ s.start = q[c].time
  /\ Open(s) <=> Lasts(q, c, m + 1)
  /\ \A k \in 1..m : Ended(q, c, k) => s.end = q[k].time /\ s.reason = EndOf(q, c, k)

Openers(q, m) == {c \in Takes(q) : c <= m /\ OpensUse(q, c)}

\* Some openers may be left out of the replay: `gone`.
SessionsTrack(q, gone, m, k, S) ==
  /\ \A s \in S : \E c \in Openers(q, m) \ gone : Mirrors(q, k, s, c)
  /\ \A c \in Openers(q, m) \ gone : \E s \in S : Mirrors(q, k, s, c)

AnchorsTrack(q, m, anchors) ==
  \A c \in Takes(q) : c <= m /\ q[c].id \in DOMAIN anchors => anchors[q[c].id] = q[OpeningOf(q, c)].id

Tracks(q, gone, m, p) == SessionsTrack(q, gone, m, m, p.sessions) /\ AnchorsTrack(q, m, p.anchors)

\* The uses left out are over, or later events are of other drivers.
Aside(q, gone, m) ==
  /\ gone \subseteq 1..m
  /\ \A c \in gone : Lasts(q, c, m + 1) => \A k \in (m + 1)..Len(q) : q[k].user # q[c].user

Lone(S) ==
  /\ \A s \in S : ProjectedShape(s)
  /\ \A s, r \in S : s.anchor = r.anchor => s = r
  /\ \A s, r \in S : s # r /\ Open(s) /\ Open(r) => s.user # r.user /\ s.vehicle # r.vehicle

\* Before the event at m + 1 is applied to p.
Stepping(q, gone, m, p) ==
  /\ Replayed(q) /\ m \in Nat /\ m < Len(q)
  /\ p = [sessions |-> p.sessions, anchors |-> p.anchors, sound |-> TRUE]
  /\ Aside(q, gone, m) /\ Tracks(q, gone, m, p) /\ Lone(p.sessions)

LEMMA MirrorStays ==
  ASSUME NEW q, Replayed(q), NEW m \in Nat, m < Len(q), NEW c \in Takes(q), c <= m,
         NEW s, Mirrors(q, m, s, c), ~(Open(s) /\ Interrupts(q, c, m + 1))
  PROVE  Mirrors(q, m + 1, s, c)
<1>0. /\ Len(q) \in Nat /\ c \in 1..Len(q) /\ m + 1 \in (c + 1)..Len(q)
      /\ 1..(m + 1) = (1..m) \union {m + 1} /\ m + 1 \in 1..(Len(q) + 1)
  BY DEF Replayed, Takes
<1>1. Lasts(q, c, (m + 1) + 1) <=> Lasts(q, c, m + 1) /\ ~Interrupts(q, c, m + 1)
  BY <1>0, LastsSteps
<1>2. Open(s) <=> Lasts(q, c, (m + 1) + 1)
  BY <1>1 DEF Mirrors
<1>3. ~Ended(q, c, m + 1)
  BY <1>2 DEF Ended, Mirrors
<1>4. \A k \in 1..(m + 1) : Ended(q, c, k) => s.end = q[k].time /\ s.reason = EndOf(q, c, k)
  BY <1>0, <1>3 DEF Mirrors
<1> QED
  BY <1>2, <1>4, Zenon DEF Mirrors

LEMMA ClosedMirrors ==
  ASSUME NEW q, Replayed(q), NEW m \in Nat, m < Len(q), NEW c \in Takes(q), c <= m,
         NEW s, NEW returned, ProjectedShape(s), Mirrors(q, m, s, c),
         Open(s) => /\ Interrupts(q, c, m + 1) <=> EndReason(s, q[m + 1], returned) # "open"
                    /\ Interrupts(q, c, m + 1) => EndReason(s, q[m + 1], returned) = EndOf(q, c, m + 1)
  PROVE  Mirrors(q, m + 1, ClosedBy(s, q[m + 1], returned), c)
<1> DEFINE e == q[m + 1]
           t == ClosedBy(s, e, returned)
<1>0. /\ Len(q) \in Nat /\ c \in 1..Len(q) /\ m + 1 \in (c + 1)..Len(q) /\ (m + 1) + 1 = m + 2
      /\ 1..(m + 1) = (1..m) \union {m + 1} /\ m + 1 \in 1..(Len(q) + 1)
  BY DEF Replayed, Takes
<1>1. Lasts(q, c, m + 2) <=> Lasts(q, c, m + 1) /\ ~Interrupts(q, c, m + 1)
  BY <1>0, LastsSteps
<1>2. CASE Open(s) /\ Interrupts(q, c, m + 1)
  <2>1. t = Close(s, e, EndOf(q, c, m + 1))
    BY <1>2 DEF ClosedBy
  <2>2. /\ t.user = s.user /\ t.vehicle = s.vehicle /\ t.anchor = s.anchor /\ t.start = s.start
        /\ t.end = e.time /\ t.reason = EndOf(q, c, m + 1)
    BY <2>1 DEF Close, ProjectedShape
  <2>3. EndOf(q, c, m + 1) # "open"
    BY DEF EndOf
  <2>4. \A k \in 1..m : ~Ended(q, c, k)
    <3> SUFFICES ASSUME NEW k \in 1..m, Ended(q, c, k) PROVE FALSE
      OBVIOUS
    <3>1. m + 1 <= k
      BY <1>0, <1>2, EndedOnce DEF Mirrors
    <3> QED
      BY <3>1
  <2> HIDE DEF t
  <2>5. ~Open(t) /\ ~Lasts(q, c, (m + 1) + 1)
    BY <1>0, <1>1, <1>2, <2>2, <2>3 DEF Open
  <2>6. /\ t.user = q[c].user /\ t.vehicle = q[c].vehicle /\ t.anchor = q[c].id /\ t.start = q[c].time
    BY <2>2 DEF Mirrors
  <2>7. \A k \in 1..(m + 1) : Ended(q, c, k) => t.end = q[k].time /\ t.reason = EndOf(q, c, k)
    BY <1>0, <2>2, <2>4
  <2> HIDE DEF e
  <2>8. Mirrors(q, m + 1, t, c)
    BY <2>5, <2>6, <2>7, Zenon DEF Mirrors
  <2> QED
    BY <2>8 DEF t, e
<1>3. CASE ~(Open(s) /\ Interrupts(q, c, m + 1))
  <2>1. t = s
    BY <1>3 DEF ClosedBy
  <2> QED
    BY <1>3, <2>1, MirrorStays
<1> QED
  BY <1>2, <1>3

\* The event at m + 1 ends the sessions that it ends in the history.
LEMMA CloseTracks ==
  ASSUME NEW q, NEW gone, NEW m, NEW p, NEW returned, Stepping(q, gone, m, p),
         \A s \in p.sessions, c \in Openers(q, m) \ gone : Mirrors(q, m, s, c) /\ Open(s) =>
           /\ Interrupts(q, c, m + 1) <=> EndReason(s, q[m + 1], returned) # "open"
           /\ Interrupts(q, c, m + 1) => EndReason(s, q[m + 1], returned) = EndOf(q, c, m + 1)
  PROVE  SessionsTrack(q, gone, m, m + 1, CloseFor(p.sessions, q[m + 1], returned))
<1>1. CloseFor(p.sessions, q[m + 1], returned) = {ClosedBy(s, q[m + 1], returned) : s \in p.sessions}
  BY CloseForIsMap
<1>2. \A s \in p.sessions, c \in Openers(q, m) \ gone :
        Mirrors(q, m, s, c) => Mirrors(q, m + 1, ClosedBy(s, q[m + 1], returned), c)
  <2> SUFFICES ASSUME NEW s \in p.sessions, NEW c \in Openers(q, m) \ gone, Mirrors(q, m, s, c)
               PROVE  Mirrors(q, m + 1, ClosedBy(s, q[m + 1], returned), c)
    OBVIOUS
  <2>1. c \in Takes(q) /\ c <= m /\ ProjectedShape(s) /\ Replayed(q) /\ m \in Nat /\ m < Len(q)
    BY DEF Stepping, Openers, Lone
  <2> QED
    BY <2>1, ClosedMirrors
<1>3. SessionsTrack(q, gone, m, m, p.sessions)
  BY DEF Stepping, Tracks
<1> QED
  BY <1>1, <1>2, <1>3, Zenon DEF SessionsTrack

LEMMA AsideStays ==
  ASSUME NEW q, NEW gone, NEW m, Replayed(q), m \in Nat, m < Len(q), Aside(q, gone, m)
  PROVE  Aside(q, gone, m + 1)
<1>1. /\ Len(q) \in Nat /\ m + 1 \in 1..(Len(q) + 1) /\ (m + 1) + 1 \in 1..(Len(q) + 1)
      /\ m + 1 <= (m + 1) + 1 /\ ((m + 1) + 1)..Len(q) \subseteq (m + 1)..Len(q)
      /\ 1..m \subseteq 1..(m + 1) /\ 1..m \subseteq 1..Len(q)
  BY DEF Replayed
<1>2. \A c \in gone : Lasts(q, c, (m + 1) + 1) => Lasts(q, c, m + 1)
  BY <1>1, LastsSteps DEF Aside
<1> QED
  BY <1>1, <1>2 DEF Aside

\* Which events end the use that an opening TAKE opened.
LEMMA OpenerOf ==
  ASSUME NEW q, Replayed(q), NEW c, OpensUse(q, c), NEW j \in Takes(q)
  PROVE  OneUse(q, j, c) <=> c = OpeningOf(q, j)
<1>0. c \in Takes(q) /\ c \in Int /\ j \in Int
  BY DEF OpensUse, Takes, Replayed
<1>1. OneUse(q, j, c) <=> OneUse(q, c, j)
  BY DEF OneUse, SamePair
<1>2. CASE c <= j
  BY <1>0, <1>1, <1>2, OpeningFacts
<1>3. CASE j < c
  <2>1. ~OneUse(q, j, c)
    BY <1>0, <1>3 DEF OneUse, OpensUse
  <2>2. OpeningOf(q, j) \in Int /\ OpeningOf(q, j) <= j
    BY OpeningFacts DEF Takes, Replayed
  <2> QED
    BY <1>0, <1>3, <2>1, <2>2
<1> QED
  BY <1>0, <1>2, <1>3

LEMMA SteppingFacts ==
  ASSUME NEW q, NEW gone, NEW m, NEW p, Stepping(q, gone, m, p)
  PROVE  /\ Replayed(q) /\ Len(q) \in Nat /\ m \in Nat /\ m < Len(q) /\ m + 1 \in 1..Len(q)
         /\ m + 1 \in 1..(Len(q) + 1) /\ m + 1 \notin gone
         /\ \A c : c \in Takes(q) => c \in 1..Len(q) /\ c \in Nat /\ (c <= m + 1 <=> c <= m \/ c = m + 1)
         /\ \A c \in Takes(q) : c <= m => q[c].id # q[m + 1].id
<1>1. Replayed(q) /\ Len(q) \in Nat /\ m \in Nat /\ m < Len(q) /\ gone \subseteq 1..m
  BY DEF Stepping, Replayed, Aside
<1>2. m + 1 \in 1..Len(q) /\ m + 1 \in 1..(Len(q) + 1) /\ m + 1 \notin gone
  BY <1>1
<1>3. \A c : c \in Takes(q) => c \in 1..Len(q) /\ c \in Nat /\ (c <= m + 1 <=> c <= m \/ c = m + 1)
  BY <1>1 DEF Takes
<1>4. \A c \in Takes(q) : c <= m => q[c].id # q[m + 1].id
  <2> SUFFICES ASSUME NEW c \in Takes(q), c <= m PROVE q[c].id # q[m + 1].id
    OBVIOUS
  <2>1. c \in 1..Len(q) /\ c # m + 1
    BY <1>1, <1>3
  <2> QED
    BY <1>1, <1>2, <2>1 DEF Replayed
<1> QED
  BY <1>1, <1>2, <1>3, <1>4

LEMMA ReturnTracks ==
  ASSUME NEW q, NEW gone, NEW m, NEW p, Stepping(q, gone, m, p),
         q[m + 1].type = "return", q[m + 1].cause \in DOMAIN p.anchors
  PROVE  Tracks(q, gone, m + 1, ReturnEvent(p, q[m + 1]))
<1> DEFINE e == q[m + 1]
           anchor == p.anchors[e.cause]
<1>0. /\ Replayed(q) /\ Len(q) \in Nat /\ m \in Nat /\ m < Len(q) /\ m + 1 \in 1..Len(q)
      /\ \A c : c \in Takes(q) => c \in 1..Len(q) /\ c \in Nat /\ (c <= m + 1 <=> c <= m \/ c = m + 1)
  BY SteppingFacts
<1>1. PICK j \in Takes(q) :
        /\ j < m + 1 /\ q[j].id = e.cause
        /\ \A c \in Takes(q) : Interrupts(q, c, m + 1) <=> OneUse(q, j, c)
  BY <1>0, ReturnInterrupts
<1> DEFINE o == OpeningOf(q, j)
<1>2. o \in Takes(q) /\ anchor = q[o].id
  <2>1. j <= m
    BY <1>0, <1>1
  <2>2. AnchorsTrack(q, m, p.anchors)
    BY DEF Stepping, Tracks
  <2>3. o \in Takes(q)
    BY <1>0, OpeningFacts
  <2> QED
    BY <1>1, <2>1, <2>2, <2>3 DEF AnchorsTrack
<1>3. m + 1 \notin Takes(q)
  BY DEF Takes
<1>4. Openers(q, m + 1) = Openers(q, m)
  BY <1>0, <1>3 DEF Openers
<1>5. ReturnEvent(p, e).sessions = CloseFor(p.sessions, e, anchor) /\ ReturnEvent(p, e).anchors = p.anchors
  <2>1. p = [sessions |-> p.sessions, anchors |-> p.anchors, sound |-> TRUE]
    BY DEF Stepping
  <2> DEFINE S == CloseFor(p.sessions, e, anchor)
             ok == p.sound /\ \A s \in p.sessions : s.anchor = anchor =>
                                   /\ s.user = e.user /\ s.vehicle = e.vehicle
                                   /\ Open(s) => s.start <= e.time
  <2>2. ReturnEvent(p, e) = [p EXCEPT !.sessions = S, !.sound = ok]
    BY Zenon DEF ReturnEvent
  <2> HIDE DEF S, ok
  <2>3. ReturnEvent(p, e) = [sessions |-> S, anchors |-> p.anchors, sound |-> ok]
    BY <2>1, <2>2
  <2> QED
    BY <2>3 DEF S
<1>6. ASSUME NEW s \in p.sessions, NEW c \in Openers(q, m) \ gone, Mirrors(q, m, s, c), Open(s)
      PROVE  /\ Interrupts(q, c, m + 1) <=> EndReason(s, e, anchor) # "open"
             /\ Interrupts(q, c, m + 1) => EndReason(s, e, anchor) = EndOf(q, c, m + 1)
  <2>1. c \in Takes(q) /\ OpensUse(q, c)
    BY DEF Openers
  <2>2. Interrupts(q, c, m + 1) <=> c = o
    BY <1>0, <1>1, <2>1, OpenerOf
  <2>3. c = o <=> s.anchor = anchor
    <3>1. s.anchor = q[c].id
      BY <1>6 DEF Mirrors
    <3>2. c \in 1..Len(q) /\ o \in 1..Len(q)
      BY <1>0, <1>2, <2>1
    <3>3. q[c].id = q[o].id => c = o
      BY <1>0, <3>2 DEF Replayed
    <3> QED
      BY <1>2, <3>1, <3>3
  <2> HIDE DEF anchor, o
  <2> QED
    BY <2>2, <2>3 DEF EndReason, EndOf
<1> HIDE DEF anchor, o
<1>7. SessionsTrack(q, gone, m, m + 1, CloseFor(p.sessions, e, anchor))
  BY <1>6, CloseTracks
<1>8. SessionsTrack(q, gone, m + 1, m + 1, ReturnEvent(p, e).sessions)
  BY <1>4, <1>5, <1>7 DEF SessionsTrack
<1>9. AnchorsTrack(q, m + 1, ReturnEvent(p, e).anchors)
  <2>1. AnchorsTrack(q, m, p.anchors)
    BY DEF Stepping, Tracks
  <2>2. \A c \in Takes(q) : c <= m + 1 => c <= m
    BY <1>0, <1>3
  <2> QED
    BY <1>5, <2>1, <2>2 DEF AnchorsTrack
<1> QED
  BY <1>8, <1>9 DEF Tracks

\* A TAKE of the car its driver has is an alias of the TAKE that opened the use.
LEMMA AliasTracks ==
  ASSUME NEW q, NEW gone, NEW m, NEW p, Stepping(q, gone, m, p), q[m + 1].type = "take",
         NEW s0 \in p.sessions, Open(s0), s0.user = q[m + 1].user, s0.vehicle = q[m + 1].vehicle
  PROVE  /\ SessionsTrack(q, gone, m + 1, m + 1, p.sessions)
         /\ s0.anchor = q[OpeningOf(q, m + 1)].id
<1> DEFINE e == q[m + 1]
<1>0. /\ Replayed(q) /\ Len(q) \in Nat /\ m \in Nat /\ m < Len(q) /\ m + 1 \in 1..Len(q)
      /\ \A c : c \in Takes(q) => c \in 1..Len(q) /\ c \in Nat /\ (c <= m + 1 <=> c <= m \/ c = m + 1)
  BY SteppingFacts
<1>1. m + 1 \in Takes(q)
  BY <1>0 DEF Takes
<1>2. SessionsTrack(q, gone, m, m, p.sessions) /\ Lone(p.sessions)
  BY DEF Stepping, Tracks
<1>3. PICK c0 \in Openers(q, m) \ gone : Mirrors(q, m, s0, c0)
  BY <1>2 DEF SessionsTrack
<1>4. c0 \in Takes(q) /\ c0 <= m /\ OpensUse(q, c0) /\ Lasts(q, c0, m + 1) /\ SamePair(q[c0], e)
      /\ s0.anchor = q[c0].id
  BY <1>3 DEF Openers, Mirrors, SamePair
<1>5. c0 = OpeningOf(q, m + 1)
  <2>1. c0 < m + 1 /\ c0 <= m + 1
    BY <1>0, <1>4
  <2>2. OneUse(q, c0, m + 1)
    BY <1>4, <2>1 DEF OneUse
  <2> QED
    BY <1>0, <1>1, <1>4, <2>1, <2>2, OpeningFacts
<1>6. Openers(q, m + 1) = Openers(q, m)
  <2>1. ~OpensUse(q, m + 1)
    <3>1. c0 # m + 1
      BY <1>0, <1>4
    <3> QED
      BY <1>0, <1>1, <1>5, <3>1, OpensItself
  <2> QED
    BY <1>0, <2>1 DEF Openers
<1>7. ASSUME NEW s \in p.sessions, NEW c \in Openers(q, m) \ gone, Mirrors(q, m, s, c)
      PROVE  Mirrors(q, m + 1, s, c)
  <2>1. c \in Takes(q) /\ c <= m
    BY DEF Openers
  <2>2. ~(Open(s) /\ Interrupts(q, c, m + 1))
    <3> SUFFICES ASSUME Open(s) PROVE ~Interrupts(q, c, m + 1)
      OBVIOUS
    <3>1. s = s0 \/ (s.user # e.user /\ s.vehicle # e.vehicle)
      BY <1>2 DEF Lone
    <3>2. s.user = q[c].user /\ s.vehicle = q[c].vehicle
      BY <1>7 DEF Mirrors
    <3>3. ~Displaces(q[c], e)
      BY <3>1, <3>2 DEF Displaces
    <3> QED
      BY <3>3 DEF Interrupts
  <2> QED
    BY <1>0, <1>7, <2>1, <2>2, MirrorStays
<1>8. SessionsTrack(q, gone, m + 1, m + 1, p.sessions)
  BY <1>2, <1>6, <1>7, Zenon DEF SessionsTrack
<1> QED
  BY <1>4, <1>5, <1>8

\* Any other TAKE opens a use, and displaces who has the car or whom its driver left.
LEMMA OpenTracks ==
  ASSUME NEW q, NEW gone, NEW m, NEW p, Stepping(q, gone, m, p), q[m + 1].type = "take",
         \A s \in p.sessions : ~(Open(s) /\ s.user = q[m + 1].user /\ s.vehicle = q[m + 1].vehicle)
  PROVE  /\ SessionsTrack(q, gone, m + 1, m + 1,
                          CloseFor(p.sessions, q[m + 1], NoEvent) \union {Opened(q[m + 1])})
         /\ OpeningOf(q, m + 1) = m + 1
<1> DEFINE e == q[m + 1]
<1>0. /\ Replayed(q) /\ Len(q) \in Nat /\ m \in Nat /\ m < Len(q) /\ m + 1 \in 1..Len(q)
      /\ m + 1 \in 1..(Len(q) + 1) /\ m + 1 \notin gone
      /\ \A c : c \in Takes(q) => c \in 1..Len(q) /\ c \in Nat /\ (c <= m + 1 <=> c <= m \/ c = m + 1)
  BY SteppingFacts
<1>1. m + 1 \in Takes(q)
  BY <1>0 DEF Takes
<1>2. SessionsTrack(q, gone, m, m, p.sessions) /\ Aside(q, gone, m)
  BY DEF Stepping, Tracks
<1>3. OpensUse(q, m + 1)
  <2> SUFFICES ASSUME NEW j \in Takes(q), j < m + 1, SamePair(q[j], e), Lasts(q, j, m + 1) PROVE FALSE
    BY <1>1 DEF OpensUse
  <2> DEFINE o == OpeningOf(q, j)
  <2>1. o \in Takes(q) /\ OpensUse(q, o) /\ OneUse(q, o, j) /\ o <= j
    BY <1>0, OpeningFacts
  <2>2. o <= m /\ j <= m + 1 /\ (o = j \/ o < j) /\ ~(j < o)
    BY <1>0, <2>1
  <2> HIDE DEF o
  <2>3. SamePair(q[o], q[j]) /\ (o = j \/ Lasts(q, o, j))
    BY <2>1, <2>2 DEF OneUse
  <2>4. Lasts(q, o, m + 1)
    <3>1. CASE o = j
      BY <3>1
    <3>2. CASE o < j
      <4>1. o # j
        BY <1>0, <2>1, <3>2
      <4> QED
        BY <1>0, <2>1, <2>2, <2>3, <3>2, <4>1, OneUseLasts
    <3> QED
      BY <2>2, <3>1, <3>2
  <2>5. SamePair(q[o], e)
    BY <2>3 DEF SamePair
  <2>6. o \notin gone
    <3>1. m + 1 \in (m + 1)..Len(q)
      BY <1>0
    <3> QED
      BY <1>2, <2>4, <2>5, <3>1 DEF Aside, SamePair
  <2>7. o \in Openers(q, m) \ gone
    BY <2>1, <2>2, <2>6 DEF Openers
  <2>8. PICK s \in p.sessions : Mirrors(q, m, s, o)
    BY <1>2, <2>7 DEF SessionsTrack
  <2> QED
    BY <2>4, <2>5, <2>8 DEF Mirrors, SamePair
<1>4. Openers(q, m + 1) = Openers(q, m) \union {m + 1}
  BY <1>0, <1>1, <1>3 DEF Openers
<1>5. ASSUME NEW s \in p.sessions, NEW c \in Openers(q, m) \ gone, Mirrors(q, m, s, c), Open(s)
      PROVE  /\ Interrupts(q, c, m + 1) <=> EndReason(s, e, NoEvent) # "open"
             /\ Interrupts(q, c, m + 1) => EndReason(s, e, NoEvent) = EndOf(q, c, m + 1)
  <2>1. s.user = q[c].user /\ s.vehicle = q[c].vehicle /\ ~(s.user = e.user /\ s.vehicle = e.vehicle)
    BY <1>5 DEF Mirrors
  <2>2. Interrupts(q, c, m + 1) <=> s.user = e.user \/ s.vehicle = e.vehicle
    BY <2>1 DEF Interrupts, Displaces
  <2> QED
    BY <2>1, <2>2 DEF EndReason, EndOf
<1>6. SessionsTrack(q, gone, m, m + 1, CloseFor(p.sessions, e, NoEvent))
  BY <1>5, CloseTracks
<1>7. Mirrors(q, m + 1, Opened(e), m + 1)
  <2>1. Lasts(q, m + 1, (m + 1) + 1)
    <3>1. (m + 1) + 1 \in 1..(Len(q) + 1) /\ (m + 1) + 1 <= (m + 1) + 1
      BY <1>0
    <3> QED
      BY <1>0, <3>1, LastsSteps
  <2>2. \A k \in 1..(m + 1) : ~Ended(q, m + 1, k)
    BY <1>0 DEF Ended
  <2>3. /\ Opened(e).user = e.user /\ Opened(e).vehicle = e.vehicle /\ Opened(e).anchor = e.id
        /\ Opened(e).start = e.time /\ Opened(e).reason = "open"
    BY DEF Opened
  <2> QED
    BY <2>1, <2>2, <2>3 DEF Mirrors, Open
<1>8. SessionsTrack(q, gone, m + 1, m + 1, CloseFor(p.sessions, e, NoEvent) \union {Opened(e)})
  <2> DEFINE S == CloseFor(p.sessions, e, NoEvent)
             N == Opened(e)
  <2> HIDE DEF S, N, e
  <2>1. SessionsTrack(q, gone, m, m + 1, S) /\ Mirrors(q, m + 1, N, m + 1)
    BY <1>6, <1>7 DEF S, N, e
  <2>2. SessionsTrack(q, gone, m + 1, m + 1, S \union {N})
    BY <1>0, <1>4, <2>1 DEF SessionsTrack
  <2> QED
    BY <2>2 DEF S, N, e
<1> QED
  BY <1>0, <1>1, <1>3, <1>8, OpensItself

LEMMA TakeTracks ==
  ASSUME NEW q, NEW gone, NEW m, NEW p, Stepping(q, gone, m, p), q[m + 1].type = "take"
  PROVE  Tracks(q, gone, m + 1, TakeEvent(p, q[m + 1]))
<1> DEFINE e == q[m + 1]
           same == {s \in p.sessions : Open(s) /\ s.user = e.user /\ s.vehicle = e.vehicle}
<1>0. /\ Replayed(q) /\ Len(q) \in Nat /\ m \in Nat /\ m < Len(q) /\ m + 1 \in 1..Len(q)
      /\ \A c : c \in Takes(q) => c \in 1..Len(q) /\ c \in Nat /\ (c <= m + 1 <=> c <= m \/ c = m + 1)
      /\ \A c \in Takes(q) : c <= m => q[c].id # e.id
  BY SteppingFacts
<1>1. p = [sessions |-> p.sessions, anchors |-> p.anchors, sound |-> TRUE] /\ AnchorsTrack(q, m, p.anchors)
  BY DEF Stepping, Tracks
\* Whatever the TAKE is associated with, the other TAKEs keep their anchors.
<1>2. ASSUME NEW a, a = q[OpeningOf(q, m + 1)].id
      PROVE  AnchorsTrack(q, m + 1, Associate(p.anchors, e.id, a))
  <2> DEFINE A == Associate(p.anchors, e.id, a)
  <2>1. /\ DOMAIN A = DOMAIN p.anchors \union {e.id} /\ A[e.id] = a
        /\ \A t \in DOMAIN p.anchors : t # e.id => A[t] = p.anchors[t]
    BY DEF Associate
  <2> HIDE DEF A
  <2>2. ASSUME NEW c \in Takes(q), c <= m + 1, q[c].id \in DOMAIN A
        PROVE  A[q[c].id] = q[OpeningOf(q, c)].id
    <3>1. CASE c = m + 1
      BY <1>2, <2>1, <3>1
    <3>2. CASE c <= m
      <4>1. q[c].id # e.id
        BY <1>0, <3>2
      <4>2. q[c].id \in DOMAIN p.anchors /\ A[q[c].id] = p.anchors[q[c].id]
        BY <2>1, <2>2, <4>1
      <4> QED
        BY <1>1, <3>2, <4>2 DEF AnchorsTrack
    <3> QED
      BY <1>0, <2>2, <3>1, <3>2
  <2> QED
    BY <2>2 DEF AnchorsTrack, A
<1>3. CASE same # {}
  <2> DEFINE s0 == CHOOSE s \in same : TRUE
             A == Associate(p.anchors, e.id, s0.anchor)
  <2>1. s0 \in same
    BY <1>3
  <2>2. TakeEvent(p, e) = [p EXCEPT !.anchors = A]
    BY <1>3, Zenon DEF TakeEvent
  <2>3. SessionsTrack(q, gone, m + 1, m + 1, p.sessions) /\ s0.anchor = q[OpeningOf(q, m + 1)].id
    <3> HIDE DEF s0
    <3>1. s0 \in p.sessions /\ Open(s0) /\ s0.user = e.user /\ s0.vehicle = e.vehicle
      BY <2>1
    <3> QED
      BY <3>1, AliasTracks
  <2>4. AnchorsTrack(q, m + 1, A)
    BY <1>2, <2>3
  <2> HIDE DEF A, e
  <2>5. TakeEvent(p, e).sessions = p.sessions /\ TakeEvent(p, e).anchors = A
    BY <1>1, <2>2
  <2>6. Tracks(q, gone, m + 1, TakeEvent(p, e))
    BY <2>3, <2>4, <2>5 DEF Tracks
  <2> QED
    BY <2>6 DEF e
<1>4. CASE same = {}
  <2> DEFINE A == Associate(p.anchors, e.id, e.id)
             S == CloseFor(p.sessions, e, NoEvent) \union {Opened(e)}
             ok == /\ p.sound
                   /\ \A s \in p.sessions : Open(s) /\ EndReason(s, e, NoEvent) # "open" => s.start <= e.time
  <2>1. TakeEvent(p, e) = [sessions |-> S, anchors |-> A, sound |-> ok]
    BY <1>4, Zenon DEF TakeEvent
  <2>2. SessionsTrack(q, gone, m + 1, m + 1, S) /\ OpeningOf(q, m + 1) = m + 1
    <3>1. \A s \in p.sessions : ~(Open(s) /\ s.user = e.user /\ s.vehicle = e.vehicle)
      BY <1>4
    <3> QED
      BY <3>1, OpenTracks
  <2>3. AnchorsTrack(q, m + 1, A)
    BY <1>2, <2>2
  <2> HIDE DEF A, S, ok, e
  <2>4. TakeEvent(p, e).sessions = S /\ TakeEvent(p, e).anchors = A
    BY <2>1
  <2>5. Tracks(q, gone, m + 1, TakeEvent(p, e))
    BY <2>2, <2>3, <2>4 DEF Tracks
  <2> QED
    BY <2>5 DEF e
<1> QED
  BY <1>3, <1>4

----------------------------------------------------------------------------
(* A whole replay.                                                         *)

LEMMA ApplyTracks ==
  ASSUME NEW q, NEW gone, NEW m, NEW p, Stepping(q, gone, m, p),
         q[m + 1].type = "return" => q[m + 1].cause \in DOMAIN p.anchors
  PROVE  Tracks(q, gone, m + 1, Apply(p, q[m + 1]))
<1>1. q[m + 1].type \in {"take", "return"}
  BY SteppingFacts DEF Replayed
<1>2. CASE q[m + 1].type = "take"
  <2>1. Apply(p, q[m + 1]) = TakeEvent(p, q[m + 1])
    BY <1>2 DEF Apply
  <2> QED
    BY <1>2, <2>1, TakeTracks
<1>3. CASE q[m + 1].type = "return"
  <2>1. Apply(p, q[m + 1]) = ReturnEvent(p, q[m + 1])
    BY <1>3 DEF Apply
  <2> QED
    BY <1>3, <2>1, ReturnTracks
<1> QED
  BY <1>1, <1>2, <1>3

\* The events after position m0 of q are those of E, in replay order.
Segment(q, m0, E) ==
  /\ m0 \in Nat /\ Cardinality(E) \in Nat /\ m0 + Cardinality(E) <= Len(q)
  /\ \A k \in 1..Cardinality(E) : q[m0 + k] = Ordered(E)[k]

\* A replay of a segment of q keeps track of the history of all of q.
LEMMA ReplayTracks ==
  ASSUME NEW seed, NEW E, Setting(seed, E), NEW q, Replayed(q), NEW m0, Segment(q, m0, E), NEW gone,
         Aside(q, gone, m0), Tracks(q, gone, m0, Start(seed))
  PROVE  Tracks(q, gone, m0 + Cardinality(E), Reconcile(seed, E))
<1> DEFINE n == Cardinality(E)
<1>0. /\ n \in Nat /\ Len(q) \in Nat /\ m0 \in Nat /\ m0 + n <= Len(q) /\ m0 + 0 = m0
      /\ \A k \in Nat : k + 1 <= n => /\ m0 + k \in Nat /\ m0 + k < Len(q) /\ (m0 + k) + 1 = m0 + (k + 1)
                                      /\ k + 1 \in 1..n /\ (k + 1) - 1 = k /\ k \in 0..n /\ k + 1 \in 0..n /\ k <= n
  BY DEF Segment, Replayed
<1>1. PICK p : Replays(seed, E, p)
  BY ReplayRun
<1>2. \A k \in 1..n : q[m0 + k] = Ordered(E)[k]
  BY DEF Segment
<1>a. Aside(q, gone, m0) /\ Tracks(q, gone, m0, Start(seed))
  OBVIOUS
<1>b. /\ p[0] = Start(seed) /\ p[n] = Reconcile(seed, E)
      /\ \A k \in 1..n : p[k] = Apply(p[k - 1], Ordered(E)[k])
      /\ \A k \in 0..n : RunInv(seed, E, {Ordered(E)[i] : i \in 1..k}, p[k])
  BY <1>1 DEF Replays
<1> HIDE DEF n
<1> DEFINE T == {k \in Nat : k <= n => Aside(q, gone, m0 + k) /\ Tracks(q, gone, m0 + k, p[k])}
<1>3. 0 \in T
  BY <1>0, <1>a, <1>b
<1>4. ASSUME NEW k \in Nat, k \in T PROVE k + 1 \in T
  <2> SUFFICES ASSUME k + 1 <= n PROVE Aside(q, gone, m0 + (k + 1)) /\ Tracks(q, gone, m0 + (k + 1), p[k + 1])
    OBVIOUS
  <2>1. /\ m0 + k \in Nat /\ m0 + k < Len(q) /\ (m0 + k) + 1 = m0 + (k + 1)
        /\ k + 1 \in 1..n /\ k \in 0..n /\ k + 1 \in 0..n
    BY <1>0
  <2>2. Aside(q, gone, m0 + k) /\ Tracks(q, gone, m0 + k, p[k])
    BY <1>0, <1>4
  <2>3. p[k + 1] = Apply(p[k], q[(m0 + k) + 1])
    BY <1>0, <1>2, <1>b, <2>1
  <2> DEFINE done == {Ordered(E)[i] : i \in 1..k}
             after == {Ordered(E)[i] : i \in 1..(k + 1)}
  <2>4. RunInv(seed, E, done, p[k]) /\ RunInv(seed, E, after, p[k + 1])
    BY <1>b, <2>1
  <2> HIDE DEF done, after
  <2>5. Stepping(q, gone, m0 + k, p[k])
    <3>1. p[k] = [sessions |-> p[k].sessions, anchors |-> p[k].anchors, sound |-> TRUE]
      BY <2>4 DEF RunInv
    <3>2. SessionsInv(seed, E, done, p[k].sessions)
      BY <2>4 DEF RunInv
    <3>3. Lone(p[k].sessions)
      BY <3>2 DEF Lone, SessionsInv, Traced
    <3> QED
      BY <2>1, <2>2, <3>1, <3>3, Zenon DEF Stepping
  <2>6. ASSUME q[(m0 + k) + 1].type = "return" PROVE q[(m0 + k) + 1].cause \in DOMAIN p[k].anchors
    <3> DEFINE e == q[(m0 + k) + 1]
    <3> SUFFICES ASSUME e.cause \notin DOMAIN p[k].anchors PROVE FALSE
      OBVIOUS
    <3>1. p[k + 1] = [p[k] EXCEPT !.sound = FALSE]
      <4> HIDE DEF e
      <4>1. e.type # "take"
        BY <2>6 DEF e
      <4>2. p[k + 1] = ReturnEvent(p[k], e)
        BY <2>3, <4>1, Zenon DEF Apply, e
      <4> QED
        BY <4>2, Zenon DEF ReturnEvent
    <3>2. p[k].sound = TRUE
      BY <2>4 DEF RunInv
    <3>3. p[k] = [sessions |-> p[k].sessions, anchors |-> p[k].anchors, sound |-> TRUE]
      BY <2>4 DEF RunInv
    <3>4. p[k + 1].sound = FALSE
      <4> HIDE DEF e
      <4> DEFINE x == p[k].sessions
                 y == p[k].anchors
      <4> HIDE DEF x, y
      <4>1. p[k] = [sessions |-> x, anchors |-> y, sound |-> TRUE]
        BY <3>3 DEF x, y
      <4> QED
        BY <3>1, <4>1
    <3>5. p[k + 1].sound = TRUE
      BY <2>4 DEF RunInv
    <3> QED
      BY <3>4, <3>5
  <2>7. Tracks(q, gone, (m0 + k) + 1, Apply(p[k], q[(m0 + k) + 1]))
    BY <2>5, <2>6, ApplyTracks
  <2>8. Aside(q, gone, (m0 + k) + 1)
    BY <2>1, <2>2, AsideStays
  <2> QED
    BY <2>1, <2>3, <2>7, <2>8
<1>5. Nat \subseteq T
  <2> HIDE DEF T
  <2> QED
    BY <1>3, <1>4, SetInduction, Zenon
<1>6. n \in Nat /\ n <= n
  BY <1>0
<1>7. Tracks(q, gone, m0 + n, p[n])
  BY <1>5, <1>6
<1> QED
  BY <1>b, <1>7 DEF n

\* What has ended stays as it is.
LEMMA EndedStays ==
  ASSUME NEW q, Replayed(q), NEW m \in Nat, m <= Len(q), NEW c \in Takes(q), c <= m,
         NEW s, Mirrors(q, m, s, c), ~Open(s)
  PROVE  Mirrors(q, Len(q), s, c)
<1>0. Len(q) \in Nat /\ c \in 1..Len(q) /\ m + 1 \in 1..(Len(q) + 1) /\ Len(q) + 1 \in 1..(Len(q) + 1)
  BY DEF Replayed, Takes
<1>1. ~Lasts(q, c, m + 1)
  BY DEF Mirrors
<1>2. PICK k \in (c + 1)..((m + 1) - 1) : Ended(q, c, k)
  BY <1>0, <1>1, EndExists
<1>3. k \in 1..m /\ ~(Len(q) + 1 <= k)
  BY <1>0, <1>2
<1>4. ~Lasts(q, c, Len(q) + 1)
  BY <1>0, <1>2, <1>3, EndedOnce
<1>5. \A j \in 1..Len(q) : Ended(q, c, j) => j = k
  <2> SUFFICES ASSUME NEW j \in 1..Len(q), Ended(q, c, j) PROVE j = k
    OBVIOUS
  <2>1. /\ j \in Nat /\ k \in Nat /\ j \in 1..(Len(q) + 1) /\ k \in 1..(Len(q) + 1)
        /\ Lasts(q, c, j) /\ Lasts(q, c, k)
    BY <1>0, <1>2, <1>3 DEF Ended
  <2>2. j <= k /\ k <= j
    BY <1>2, <2>1, EndedOnce
  <2> QED
    BY <2>1, <2>2
<1> QED
  BY <1>2, <1>3, <1>4, <1>5 DEF Mirrors

\* At the end of the evidence a session is exactly the history's.
LEMMA MirrorIsEntry ==
  ASSUME NEW q, Replayed(q), NEW c \in Takes(q), NEW s, Mirrors(q, Len(q), s, c)
  PROVE  AsHistory(s) = HistorySession(q, Held(q), c)
<1>0. Len(q) \in Nat /\ c \in 1..Len(q) /\ Len(q) + 1 \in 1..(Len(q) + 1)
  BY DEF Replayed, Takes
<1>1. s.user = q[c].user /\ s.vehicle = q[c].vehicle /\ s.anchor = q[c].id /\ s.start = q[c].time
  BY DEF Mirrors
<1>2. CASE Open(s)
  <2>1. HistorySession(q, Held(q), c) = Entry(q, c, q[c].time, "open")
    BY <1>2, HistoryEntry DEF Mirrors
  <2>2. s.reason = "open"
    BY <1>2 DEF Open
  <2>3. AsHistory(s) = Entry(q, c, q[c].time, "open")
    BY <1>1, <1>2, <2>2, Zenon DEF AsHistory, Entry
  <2> QED
    BY <2>1, <2>3
<1>3. CASE ~Open(s)
  <2>1. ~Lasts(q, c, Len(q) + 1)
    BY <1>3 DEF Mirrors
  <2>2. PICK k \in (c + 1)..((Len(q) + 1) - 1) : Ended(q, c, k)
    BY <1>0, <2>1, EndExists
  <2>3. k \in 1..Len(q)
    BY <1>0
  <2>4. s.end = q[k].time /\ s.reason = EndOf(q, c, k)
    BY <2>2, <2>3 DEF Mirrors
  <2>5. HistorySession(q, Held(q), c) = Entry(q, c, q[k].time, EndOf(q, c, k))
    BY <2>2, HistoryEntry
  <2>6. AsHistory(s) = Entry(q, c, q[k].time, EndOf(q, c, k))
    BY <1>1, <1>3, <2>4, Zenon DEF AsHistory, Entry
  <2> QED
    BY <2>5, <2>6
<1> QED
  BY <1>2, <1>3

HistoryOf(q) == {HistorySession(q, Held(q), c) : c \in Openers(q, Len(q))}

LEMMA HistoryOfOrder ==
  ASSUME NEW E, Replayed(Ordered(E))
  PROVE  History(E) = HistoryOf(Ordered(E))
<1> DEFINE q == Ordered(E)
<1>1. History(E) = {HistorySession(q, Held(q), c) : c \in {o \in Takes(q) : OpeningOf(q, o) = o}}
  BY Zenon DEF History, OpeningOf
<1> HIDE DEF q
<1>2. Replayed(q)
  BY DEF q
<1>3. {o \in Takes(q) : OpeningOf(q, o) = o} = Openers(q, Len(q))
  <2>1. \A o \in Takes(q) : o <= Len(q)
    BY <1>2 DEF Takes, Replayed
  <2>2. \A o \in Takes(q) : OpeningOf(q, o) = o <=> OpensUse(q, o)
    BY <1>2, OpensItself
  <2> QED
    BY <2>1, <2>2 DEF Openers
<1>4. History(E) = HistoryOf(q)
  BY <1>1, <1>3, Zenon DEF HistoryOf
<1> QED
  BY <1>4 DEF q

\* What a complete track says: the sessions are the history's.
LEMMA TracksEnd ==
  ASSUME NEW q, Replayed(q), NEW gone, NEW S, SessionsTrack(q, gone, Len(q), Len(q), S)
  PROVE  {AsHistory(s) : s \in S} = {HistorySession(q, Held(q), c) : c \in Openers(q, Len(q)) \ gone}
<1>1. \A s \in S, c \in Openers(q, Len(q)) \ gone :
        Mirrors(q, Len(q), s, c) => AsHistory(s) = HistorySession(q, Held(q), c)
  BY MirrorIsEntry DEF Openers
<1> DEFINE C == Openers(q, Len(q)) \ gone
           Of(c) == HistorySession(q, Held(q), c)
<1>2. \A s \in S : \E c \in C : AsHistory(s) = Of(c)
  BY <1>1 DEF SessionsTrack
<1>3. \A c \in C : \E s \in S : AsHistory(s) = Of(c)
  BY <1>1 DEF SessionsTrack
<1> HIDE DEF C, Of
<1>4. {AsHistory(s) : s \in S} = {Of(c) : c \in C}
  BY <1>2, <1>3
<1> QED
  BY <1>4 DEF C, Of

----------------------------------------------------------------------------
(* The engine and the history.                                             *)

\* Evidence whose RETURNs all name a TAKE of it is replayed cause first.
LEMMA OrderReplayed ==
  ASSUME NEW E, NEW b, Setting(EmptySeed(b), E)
  PROVE  /\ Replayed(Ordered(E)) /\ Len(Ordered(E)) = Cardinality(E) /\ Cardinality(E) \in Nat
         /\ {Ordered(E)[i] : i \in 1..Cardinality(E)} = E
<1> DEFINE n == Cardinality(E)
           q == Ordered(E)
<1>1. /\ n \in Nat /\ q \in [1..n -> E]
      /\ \A e \in E : \E i \in 1..n : q[i] = e
      /\ \A i, j \in 1..n : i < j => q[i] # q[j] /\ ~Precedes(q[j], q[i])
  BY SettingReplayable, OrderedIsOrder DEF OrderOf
<1>2. /\ \A e \in E : e.type \in {"take", "return"}
      /\ \A x, y \in E : x # y => x.id # y.id
      /\ \A x, y \in E : y.type = "return" /\ y.cause = x.id =>
           x.type = "take" /\ x.user = y.user /\ x.vehicle = y.vehicle
      /\ \A x \in E : ~Precedes(x, x)
  <2>1. \A x \in E : Ready({x}) # {}
    BY DEF Setting, Orderable
  <2>2. \A x \in E : ~Precedes(x, x)
    BY <2>1 DEF Ready
  <2> QED
    BY <2>2 DEF Setting, Orderable
<1>3. \A y \in E : y.type = "return" => \E x \in E : x.id = y.cause
  <2>1. Own(EmptySeed(b)) = {} /\ DOMAIN EmptySeed(b).anchors = {}
    BY DEF Own, Carried, EmptySeed
  <2>2. DOMAIN StartAnchors(EmptySeed(b)) = {}
    BY <2>1 DEF StartAnchors
  <2> QED
    BY <2>2 DEF Setting, CausesKnown
<1> HIDE DEF n, q
<1>4. q \in Seq(E) /\ Len(q) = n
  BY <1>1
<1>5. \A i, j \in 1..n : q[i].id = q[j].id => i = j
  <2> SUFFICES ASSUME NEW i \in 1..n, NEW j \in 1..n, q[i].id = q[j].id, i # j PROVE FALSE
    OBVIOUS
  <2>1. q[i] \in E /\ q[j] \in E /\ (i < j \/ j < i)
    BY <1>1
  <2>2. q[i] = q[j]
    BY <1>2, <2>1
  <2> QED
    BY <1>1, <2>1, <2>2
<1>6. ASSUME NEW i \in 1..n, q[i].type = "return"
      PROVE  \E j \in 1..(i - 1) : q[j].id = q[i].cause /\ q[j].type = "take" /\ SamePair(q[j], q[i])
  <2>1. q[i] \in E
    BY <1>1
  <2>2. PICK x \in E : x.id = q[i].cause
    BY <1>3, <1>6, <2>1
  <2>3. PICK j \in 1..n : q[j] = x
    BY <1>1
  <2>4. x.type = "take" /\ SamePair(x, q[i])
    BY <1>2, <1>6, <2>1, <2>2 DEF SamePair
  <2>5. Precedes(q[j], q[i])
    BY <1>6, <2>2, <2>3 DEF Precedes
  <2>6. j # i /\ ~(i < j)
    BY <1>1, <1>2, <2>1, <2>5
  <2>7. j \in 1..(i - 1)
    BY <1>1, <2>6
  <2> QED
    BY <2>2, <2>3, <2>4, <2>7
<1>7. Replayed(q)
  <2>1. \A i \in 1..n : q[i].type \in {"take", "return"}
    BY <1>1, <1>2
  <2> QED
    BY <1>1, <1>4, <1>5, <1>6, <2>1 DEF Replayed
<1>8. {q[i] : i \in 1..n} = E
  BY <1>1
<1> QED
  BY <1>1, <1>4, <1>7, <1>8 DEF n, q

(***************************************************************************)
(* Replaying evidence from nothing is sound and ends in the history that   *)
(* the evidence declares: exactly its sessions, opened and ended where it  *)
(* says, and for every TAKE the session that the history counts it to.     *)
(***************************************************************************)
THEOREM EngineIsHistory ==
  ASSUME NEW E, NEW b, Setting(EmptySeed(b), E)
  PROVE  /\ Reconcile(EmptySeed(b), E).sound
         /\ {AsHistory(s) : s \in Reconcile(EmptySeed(b), E).sessions} = History(E)
         /\ \A e \in E : e.type = "take" => Reconcile(EmptySeed(b), E).anchors[e.id] = AnchorOf(E, e.id)
<1> DEFINE q == Ordered(E)
           n == Cardinality(E)
           start == Start(EmptySeed(b))
           p == Reconcile(EmptySeed(b), E)
<1>1. Replayed(q) /\ Len(q) = n /\ n \in Nat /\ {q[i] : i \in 1..n} = E
  BY OrderReplayed
<1>2. RunInv(EmptySeed(b), E, E, p)
  BY ReplayKeepsInvariant
<1>3. Segment(q, 0, E) /\ 0 + n = Len(q)
  BY <1>1 DEF Segment
<1>4. start.sessions = {}
  BY DEF Start, Carried, EmptySeed
<1> HIDE DEF q, n, p, start
<1>5. Openers(q, 0) = {} /\ \A c \in Takes(q) : ~(c <= 0)
  BY <1>1 DEF Openers, Takes, Replayed
<1>6. Aside(q, {}, 0) /\ Tracks(q, {}, 0, start)
  BY <1>4, <1>5 DEF Aside, Tracks, SessionsTrack, AnchorsTrack
<1>7. Tracks(q, {}, Len(q), p)
  <2>1. Tracks(q, {}, 0 + n, p)
    BY <1>1, <1>3, <1>6, ReplayTracks DEF p, n, start
  <2> QED
    BY <1>3, <2>1
<1>8. p.sound
  BY <1>2 DEF RunInv
<1>9. {AsHistory(s) : s \in p.sessions} = History(E)
  <2>1. {AsHistory(s) : s \in p.sessions} = {HistorySession(q, Held(q), c) : c \in Openers(q, Len(q)) \ {}}
    BY <1>1, <1>7, TracksEnd DEF Tracks
  <2>2. History(E) = HistoryOf(q)
    BY <1>1, HistoryOfOrder DEF q
  <2>3. Openers(q, Len(q)) \ {} = Openers(q, Len(q))
    OBVIOUS
  <2> QED
    BY <2>1, <2>2, <2>3 DEF HistoryOf
<1>10. ASSUME NEW e \in E, e.type = "take" PROVE p.anchors[e.id] = AnchorOf(E, e.id)
  <2> DEFINE c == CHOOSE i \in Takes(q) : q[i].id = e.id
  <2>1. AnchorOf(E, e.id) = q[OpeningOf(q, c)].id
    BY Zenon DEF AnchorOf, OpeningOf, q
  <2>2. \E i \in Takes(q) : q[i].id = e.id
    BY <1>1, <1>10 DEF Takes
  <2>3. c \in Takes(q) /\ q[c].id = e.id
    BY <2>2, Zenon
  <2> HIDE DEF c
  <2>4. c <= Len(q)
    BY <1>1, <2>3 DEF Takes, Replayed
  <2>5. e.id \in DOMAIN p.anchors
    BY <1>2, <1>10 DEF RunInv, AnchorsInv
  <2> QED
    BY <1>7, <2>1, <2>3, <2>4, <2>5, Zenon DEF Tracks, AnchorsTrack
<1> QED
  BY <1>8, <1>9, <1>10 DEF p
=============================================================================
