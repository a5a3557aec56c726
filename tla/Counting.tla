------------------------------ MODULE Counting ------------------------------
(***************************************************************************)
(* Facts about numbers that more than one proof rests on: remainders and   *)
(* the steps of a ring, the least and the greatest member of a set, the    *)
(* members in order, and the existence of a function that is given step by *)
(* step.  The least member takes the place of an induction: a property of  *)
(* numbers that fails fails for a least one.                               *)
(***************************************************************************)
EXTENDS Integers, WellFoundedInduction, TLAPS

\* Division leaves a remainder below the divisor.
LEMMA Division ==
    ASSUME NEW a \in Int, NEW w \in Nat \ {0}
    PROVE  a = w * (a \div w) + (a % w) /\ a % w \in 0 .. w - 1 /\ a \div w \in Int
  OBVIOUS

\* The only multiple of w between -w and w is zero.
LEMMA SmallMultiple ==
    ASSUME NEW k \in Int, NEW w \in Nat \ {0}, w * k < w, -w < w * k
    PROVE  k = 0
<1>1. k >= 1 => w * k >= w
  OBVIOUS
<1>2. k <= -1 => w * k <= -w
  OBVIOUS
<1> QED
  BY <1>1, <1>2

\* The remainder is the only number below w that differs by a multiple of w.
LEMMA Remainder ==
    ASSUME NEW x \in Int, NEW q \in Int, NEW w \in Nat \ {0}, NEW r \in 0 .. w - 1, x = w * q + r
    PROVE  x % w = r
<1>1. x = w * (x \div w) + (x % w) /\ x % w \in 0 .. w - 1 /\ x \div w \in Int
  BY Division
<1>2. w * (q - (x \div w)) = (x % w) - r
  <2>1. w * (q - (x \div w)) = w * q - w * (x \div w)
    BY <1>1
  <2>2. w * q \in Int /\ w * (x \div w) \in Int
    BY <1>1
  <2> QED
    BY <1>1, <2>1, <2>2
<1>3. w * (q - (x \div w)) < w /\ -w < w * (q - (x \div w))
  BY <1>1, <1>2
<1>4. q - (x \div w) = 0
  BY <1>1, <1>3, SmallMultiple
<1> QED
  BY <1>1, <1>2, <1>4

\* A step forward on a ring of w cells comes round at most once ...
LEMMA StepForward ==
    ASSUME NEW w \in Nat \ {0}, NEW h \in 0 .. w - 1, NEW i \in 0 .. w
    PROVE  (h + i) % w = IF h + i < w THEN h + i ELSE h + i - w
<1>1. CASE h + i < w
  <2>1. h + i = w * 0 + (h + i) /\ h + i \in 0 .. w - 1
    BY <1>1
  <2> QED  BY <1>1, <2>1, Remainder
<1>2. CASE ~(h + i < w)
  <2>1. h + i = w * 1 + (h + i - w) /\ h + i - w \in 0 .. w - 1
    BY <1>2
  <2> QED  BY <1>2, <2>1, Remainder
<1> QED  BY <1>1, <1>2

\* ... and so does a step back.
LEMMA StepBack ==
    ASSUME NEW w \in Nat \ {0}, NEW h \in 0 .. w - 1, NEW c \in 0 .. w - 1
    PROVE  (c - h) % w = IF c >= h THEN c - h ELSE c - h + w
<1>1. CASE c >= h
  <2>1. c - h = w * 0 + (c - h) /\ c - h \in 0 .. w - 1
    BY <1>1
  <2> QED  BY <1>1, <2>1, Remainder
<1>2. CASE ~(c >= h)
  <2>1. c - h = w * (-1) + (c - h + w) /\ c - h + w \in 0 .. w - 1
    BY <1>2
  <2> QED  BY <1>2, <2>1, Remainder
<1> QED  BY <1>1, <1>2

\* A remainder may be taken between two steps.
LEMMA TwoSteps ==
    ASSUME NEW x \in Int, NEW y \in Int, NEW w \in Nat \ {0}
    PROVE  ((x % w) + y) % w = (x + y) % w
<1>1. PICK p \in Int : x = w * p + (x % w)
  BY Division
<1>2. x % w \in Int
  BY Division
<1>3. PICK q \in Int, z \in 0 .. w - 1 : (x % w) + y = w * q + z /\ ((x % w) + y) % w = z
  <2>1. (x % w) + y \in Int
    BY <1>2
  <2> QED  BY <2>1, Division
<1>4. p + q \in Int /\ w * (p + q) = w * p + w * q
  OBVIOUS
<1>5. x + y = w * (p + q) + z
  <2>1. w * p \in Int /\ w * q \in Int
    OBVIOUS
  <2> QED  BY <1>1, <1>2, <1>3, <1>4, <2>1
<1>6. PICK u \in Int : x + y = w * u + z
  BY <1>4, <1>5
<1>7. x + y \in Int
  OBVIOUS
<1>8. (x + y) % w = z
  BY <1>6, <1>7, Remainder
<1> QED  BY <1>3, <1>8

\* What is left of a step back is made good by the step forward.
LEMMA ThereAgain ==
    ASSUME NEW w \in Nat \ {0}, NEW i \in 0 .. w - 1, NEW j \in 0 .. w - 1
    PROVE  (i - j) % w \in 0 .. w - 1 /\ (j + ((i - j) % w)) % w = i
<1>1. (i - j) % w = IF i >= j THEN i - j ELSE i - j + w
  BY StepBack
<1>2. (i - j) % w \in 0 .. w - 1 /\ (i - j) % w \in 0 .. w
  BY <1>1
<1>3. (j + ((i - j) % w)) % w = IF j + ((i - j) % w) < w THEN j + ((i - j) % w) ELSE j + ((i - j) % w) - w
  BY <1>2, StepForward
<1> QED  BY <1>1, <1>2, <1>3

\* The place before a place of a ring, a whole round on but for one step.
LEMMA PlaceBefore ==
    ASSUME NEW w \in Nat \ {0}, NEW i \in 0 .. w - 1
    PROVE  (i + (w - 1)) % w \in 0 .. w - 1 /\ (((i + (w - 1)) % w) + 1) % w = i
<1>1. i + (w - 1) \in Int /\ (i + (w - 1)) + 1 = w * 1 + i /\ w * 1 + i \in Int /\ 1 \in Int
  OBVIOUS
<1>2. (i + (w - 1)) % w \in 0 .. w - 1
  BY <1>1, Division
<1>3. (((i + (w - 1)) % w) + 1) % w = ((i + (w - 1)) + 1) % w
  BY <1>1, TwoSteps
<1>4. (w * 1 + i) % w = i
  BY <1>1, Remainder
<1> QED  BY <1>1, <1>2, <1>3, <1>4

\* Two members of a ring are as far apart as their distances from a third.
LEMMA OneRound ==
    ASSUME NEW w \in Nat \ {0}, NEW i \in 0 .. w - 1, NEW a \in 0 .. w - 1, NEW b \in 0 .. w - 1,
           (i + a) % w = (i + b) % w
    PROVE  a = b
<1>1. a \in 0 .. w /\ b \in 0 .. w
  OBVIOUS
<1>2. (i + a) % w = IF i + a < w THEN i + a ELSE i + a - w
  BY <1>1, StepForward
<1>3. (i + b) % w = IF i + b < w THEN i + b ELSE i + b - w
  BY <1>1, StepForward
<1> QED  BY <1>2, <1>3

Less == {p \in Nat \X Nat : p[1] < p[2]}

\* No sequence of natural numbers goes down for ever.
LEMMA LessIsWellFounded == IsWellFoundedOn(Less, Nat)
<1>1. IsWellFoundedOn({p \in Nat \X Nat : p[1] < p[2]}, Nat)
  BY NatLessThanWellFounded, Zenon DEF OpToRel
<1> QED  BY <1>1 DEF Less

\* So a set of them has a least member ...
LEMMA LeastNumber ==
    ASSUME NEW S, S \subseteq Nat, S # {}
    PROVE  \E x \in S : \A y \in S : x <= y
<1>1. PICK x \in S : \A y \in S : ~ (<<y, x>> \in Less)
  BY LessIsWellFounded, WFMin
<1>2. ASSUME NEW y \in S PROVE x <= y
  <2>1. x \in Nat /\ y \in Nat
    OBVIOUS
  <2>2. y < x => <<y, x>> \in Less
    BY <2>1 DEF Less
  <2> QED  BY <1>1, <2>1, <2>2
<1> QED  BY <1>2

\* ... and a bounded one a greatest.
LEMMA GreatestNumber ==
    ASSUME NEW n \in Int, NEW S, S \subseteq 0 .. n, S # {}
    PROVE  \E x \in S : \A y \in S : y <= x
<1> DEFINE U == {m \in Nat : \A y \in S : y <= m}
<1>1. n \in U /\ U \subseteq Nat
  <2>1. \A y \in S : y \in 0 .. n
    OBVIOUS
  <2>2. PICK y \in S : TRUE
    OBVIOUS
  <2>3. n \in Nat
    BY <2>1, <2>2
  <2> QED  BY <2>1, <2>3
<1>2. PICK u \in U : \A m \in U : u <= m
  BY <1>1, LeastNumber
<1>3. u \in Nat /\ \A y \in S : y <= u
  OBVIOUS
<1>4. u \in S
  <2> SUFFICES ASSUME u \notin S PROVE FALSE
    OBVIOUS
  <2>1. \A y \in S : y \in Nat /\ y <= u /\ y # u
    BY <1>3
  <2>2. u - 1 \in Nat /\ \A y \in S : y <= u - 1
    <3>1. PICK y \in S : TRUE
      OBVIOUS
    <3>2. u > 0
      BY <1>3, <2>1, <3>1
    <3> QED  BY <1>3, <2>1, <3>2
  <2>3. u - 1 \in U
    BY <2>2
  <2> QED  BY <1>2, <1>3, <2>3
<1> QED  BY <1>3, <1>4

Runs(f, n, base, step) == f[0] = base /\ \A i \in 1 .. n : f[i] = step[i][f[i - 1]]

\* A function on 0 .. n that is given by its first value and by a step from each value to the
\* next exists.
LEMMA StepByStep ==
    ASSUME NEW S, NEW base \in S, NEW n \in Nat, NEW step \in [1 .. n -> [S -> S]]
    PROVE  \E f \in [0 .. n -> S] : Runs(f, n, base, step)
<1> USE DEF Runs
<1> DEFINE Upto(m) == \E f \in [0 .. m -> S] :
                         f[0] = base /\ \A i \in 1 .. m : f[i] = step[i][f[i - 1]]
           T       == {m \in 0 .. n : ~Upto(m)}
<1> SUFFICES ASSUME n \in T PROVE FALSE
  OBVIOUS
<1>1. T \subseteq Nat /\ T # {}
  OBVIOUS
<1>2. PICK m \in T : \A k \in T : m <= k
  <2> HIDE DEF T
  <2> QED  BY <1>1, LeastNumber
<1>3. m \in 0 .. n /\ ~Upto(m)
  OBVIOUS
<1>4. Upto(0)
  <2>1. [i \in 0 .. 0 |-> base] \in [0 .. 0 -> S]
    OBVIOUS
  <2> WITNESS [i \in 0 .. 0 |-> base] \in [0 .. 0 -> S]
  <2> QED  OBVIOUS
<1>5. m # 0
  BY <1>3, <1>4
<1>6. m - 1 \in 0 .. n /\ m - 1 \notin T
  <2>1. m - 1 \in 0 .. n /\ ~(m <= m - 1)
    BY <1>3, <1>5
  <2> HIDE DEF T
  <2> QED  BY <1>2, <2>1
<1>7. PICK f \in [0 .. m - 1 -> S] : f[0] = base /\ \A i \in 1 .. m - 1 : f[i] = step[i][f[i - 1]]
  BY <1>6
<1> DEFINE g == [i \in 0 .. m |-> IF i = m THEN step[m][f[m - 1]] ELSE f[i]]
<1>8. f[m - 1] \in S /\ step[m][f[m - 1]] \in S
  <2>1. m \in 1 .. n /\ m - 1 \in 0 .. m - 1
    BY <1>3, <1>5
  <2>2. f[m - 1] \in S
    BY <2>1
  <2>3. step[m] \in [S -> S]
    BY <2>1
  <2> QED  BY <2>2, <2>3
<1>9. g \in [0 .. m -> S]
  BY <1>3, <1>8
<1>10. g[0] = base
  BY <1>3, <1>5, <1>7
<1>11. ASSUME NEW i \in 1 .. m PROVE g[i] = step[i][g[i - 1]]
  <2>1. i \in 0 .. m /\ i - 1 \in 0 .. m /\ g[i - 1] = f[i - 1]
    BY <1>3
  <2>2. CASE i = m
    BY <2>1, <2>2
  <2>3. CASE i # m
    <3>1. i \in 1 .. m - 1 /\ g[i] = f[i]
      BY <1>3, <2>1, <2>3
    <3> QED  BY <1>7, <2>1, <3>1
  <2> QED  BY <2>2, <2>3
<1>12. Upto(m)
  BY <1>9, <1>10, <1>11
<1> QED  BY <1>3, <1>12

Lists(e, m, A) ==
  /\ e \in [0 .. m - 1 -> A]
  /\ \A i, j \in 0 .. m - 1 : i < j => e[i] < e[j]
  /\ \A a \in A : \E i \in 0 .. m - 1 : e[i] = a

\* A bounded set of numbers can be listed in ascending order.
LEMMA Ascending ==
    ASSUME NEW n \in Nat, NEW A, A \subseteq 0 .. n - 1
    PROVE  \E m \in 0 .. n : \E e : Lists(e, m, A)
<1> DEFINE Good(k) == \A B \in SUBSET (0 .. k - 1) : \E m \in 0 .. k : \E e : Lists(e, m, B)
           T == {k \in Nat : ~Good(k)}
<1> SUFFICES ASSUME n \in T PROVE FALSE
  OBVIOUS
<1>1. PICK k \in T : \A l \in T : k <= l
  <2>1. T \subseteq Nat /\ T # {}
    OBVIOUS
  <2> HIDE DEF T
  <2> QED  BY <2>1, LeastNumber
<1>2. k \in Nat /\ ~Good(k)
  OBVIOUS
<1>3. PICK B \in SUBSET (0 .. k - 1) : ~ \E m \in 0 .. k : \E e : Lists(e, m, B)
  BY <1>2
<1>4. CASE k = 0
  <2>1. B = {} /\ 0 .. 0 - 1 = {} /\ 0 \in 0 .. k
    BY <1>4
  <2>2. [i \in {} |-> 0] \in [{} -> {}]
    OBVIOUS
  <2>3. Lists([i \in {} |-> 0], 0, B)
    BY <2>1, <2>2 DEF Lists
  <2> QED  BY <1>3, <2>1, <2>3
<1>5. CASE k # 0
  <2>1. k - 1 \in Nat /\ k - 1 \notin T
    <3>1. k - 1 \in Nat /\ ~(k <= k - 1)
      BY <1>2, <1>5
    <3> HIDE DEF T
    <3> QED  BY <1>1, <3>1
  <2> DEFINE C == B \ {k - 1}
  <2>2. C \in SUBSET (0 .. (k - 1) - 1)
    BY <1>2, <1>5
  <2>7. PICK m \in 0 .. k - 1 : \E e : Lists(e, m, C)
    <3>1. Good(k - 1)
      BY <2>1
    <3> HIDE DEF C
    <3> QED  BY <2>2, <3>1
  <2>3. PICK e : Lists(e, m, C)
    BY <2>7
  <2>4. m \in 0 .. k /\ m + 1 \in 0 .. k /\ m \in Nat
    BY <1>2, <1>5
  <2>5. CASE k - 1 \notin B
    <3>1. C = B
      BY <2>5
    <3> QED  BY <1>3, <2>3, <2>4, <3>1
  <2>6. CASE k - 1 \in B
    <3> DEFINE f == [i \in 0 .. m |-> IF i = m THEN k - 1 ELSE e[i]]
    <3>1. \A i \in 0 .. m - 1 : e[i] \in C /\ e[i] \in 0 .. k - 2 /\ f[i] = e[i] /\ i \in 0 .. m
      <4> SUFFICES ASSUME NEW i \in 0 .. m - 1
                   PROVE  e[i] \in C /\ e[i] \in 0 .. k - 2 /\ f[i] = e[i] /\ i \in 0 .. m
        OBVIOUS
      <4>1. e[i] \in C
        BY <2>3 DEF Lists
      <4>2. (k - 1) - 1 = k - 2 /\ i # m /\ i \in 0 .. m
        BY <1>2, <2>4
      <4>3. e[i] \in 0 .. k - 2
        <5> HIDE DEF C
        <5> QED  BY <2>2, <4>1, <4>2
      <4> QED  BY <4>1, <4>2, <4>3
    <3>2. f \in [0 .. (m + 1) - 1 -> B]
      <4>1. (m + 1) - 1 = m
        BY <2>4
      <4>2. ASSUME NEW i \in 0 .. m PROVE (IF i = m THEN k - 1 ELSE e[i]) \in B
        <5>1. i # m => i \in 0 .. m - 1
          BY <2>4
        <5> QED  BY <2>6, <3>1, <5>1
      <4> QED  BY <4>1, <4>2
    <3>3. f[m] = k - 1 /\ m \in 0 .. m
      BY <2>4
    <3>4. ASSUME NEW i \in 0 .. (m + 1) - 1, NEW j \in 0 .. (m + 1) - 1, i < j
          PROVE  f[i] < f[j]
      <4>1. i \in 0 .. m - 1 /\ i \in Int /\ j \in Int
        BY <2>4, <3>4
      <4>2. CASE j = m
        <5>1. f[i] \in 0 .. k - 2
          BY <3>1, <4>1
        <5> HIDE DEF f
        <5> QED  BY <1>2, <3>3, <4>2, <5>1
      <4>3. CASE j # m
        <5>1. j \in 0 .. m - 1
          BY <2>4, <4>3
        <5>2. e[i] < e[j]
          BY <2>3, <3>4, <4>1, <5>1 DEF Lists
        <5> QED  BY <3>1, <4>1, <5>1, <5>2
      <4> QED  BY <4>2, <4>3
    <3>5. ASSUME NEW a \in B PROVE \E i \in 0 .. (m + 1) - 1 : f[i] = a
      <4>1. CASE a = k - 1
        BY <2>4, <3>3, <4>1
      <4>2. CASE a # k - 1
        <5>1. PICK i \in 0 .. m - 1 : e[i] = a
          BY <2>3, <4>2 DEF Lists
        <5>2. i \in 0 .. (m + 1) - 1 /\ f[i] = a
          BY <2>4, <3>1, <5>1
        <5> QED  BY <5>2
      <4> QED  BY <4>1, <4>2
    <3>6. Lists(f, m + 1, B)
      <4> HIDE DEF f
      <4> QED  BY <3>2, <3>4, <3>5 DEF Lists
    <3> QED  BY <1>3, <2>4, <3>6
  <2> QED  BY <2>5, <2>6
<1> QED  BY <1>4, <1>5
=============================================================================
