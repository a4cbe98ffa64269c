--------------------------- MODULE CoverageProofs ---------------------------
(***************************************************************************)
(* Coverage, proved of WindPlanner for every turn, surface and layer:      *)
(* a helical layer that the validators accept is wound evenly and without  *)
(* bare strips, and a lock value they refuse would leave some.             *)
(*                                                                         *)
(* The first half is arithmetic of angles: congruence modulo a turn,       *)
(* Euclid's lemma, and when the starts of the circuits are evenly spaced   *)
(* (StartsEvenlySpaced: if the stride is coprime to the pattern number;    *)
(* SpacingNeedsStride: only then).  The second half is Track, the          *)
(* inductive invariant of a layer being wound: where each circuit lays,    *)
(* and that nothing else is laid.                                          *)
(***************************************************************************)
EXTENDS WindPlannerProofs, FiniteSetTheorems

-----------------------------------------------------------------------------
(* Arithmetic *)

\* Two angles are the same position of the mandrel.
Same(a, b) == \E j \in Int : a - b = j * Turn

\* There is a turn.
LEMMA TurnType == Turn \in Nat \ {0}
BY PlannerAssumption

\* The code reduces angles with %: the same position, the same remainder.
LEMMA SameMod ==
  ASSUME NEW a \in Int, NEW b \in Int PROVE a % Turn = b % Turn <=> Same(a, b)
<1> DEFINE q(x) == x \div Turn
           m(x) == x % Turn
<1>1. /\ q(a) \in Int /\ m(a) \in 0..(Turn - 1) /\ a = Turn * q(a) + m(a)
      /\ q(b) \in Int /\ m(b) \in 0..(Turn - 1) /\ b = Turn * q(b) + m(b)
  BY TurnType
<1> HIDE DEF q, m
<1>2. ASSUME m(a) = m(b) PROVE Same(a, b)
  <2>1. a - b = (q(a) - q(b)) * Turn /\ q(a) - q(b) \in Int
    BY <1>1, <1>2, TurnType
  <2> QED BY <2>1 DEF Same
<1>3. ASSUME Same(a, b) PROVE m(a) = m(b)
  <2>1. PICK j \in Int : a - b = j * Turn
    BY <1>3 DEF Same
  <2>2. a = Turn * (q(b) + j) + m(b) /\ q(b) + j \in Int
    BY <1>1, <2>1, TurnType
  <2>3. (Turn * (q(b) + j) + m(b)) % Turn = m(b)
    BY <1>1, <2>2, ModUnique
  <2> QED BY <2>2, <2>3 DEF m
<1> QED BY <1>2, <1>3 DEF m

\* Reducing an angle does not move the mandrel.
LEMMA SameReduced ==
  ASSUME NEW a \in Int PROVE a % Turn \in Int /\ Same(a % Turn, a)
<1> DEFINE q == a \div Turn
           m == a % Turn
<1>1. q \in Int /\ m \in 0..(Turn - 1) /\ a = Turn * q + m
  BY TurnType
<1> HIDE DEF q, m
<1>2. m - a = (-q) * Turn /\ -q \in Int /\ m \in Int
  BY <1>1, TurnType
<1> QED BY <1>2 DEF Same, m

\* Same is a congruence.
LEMMA SameRefl == ASSUME NEW a \in Int PROVE Same(a, a)
BY TurnType DEF Same

LEMMA SameSym == ASSUME NEW a \in Int, NEW b \in Int, Same(a, b) PROVE Same(b, a)
<1>1. PICK j \in Int : a - b = j * Turn
  BY DEF Same
<1>2. b - a = (-j) * Turn /\ -j \in Int
  BY <1>1, TurnType
<1> QED BY <1>2 DEF Same

LEMMA SameTrans ==
  ASSUME NEW a \in Int, NEW b \in Int, NEW c \in Int, Same(a, b), Same(b, c) PROVE Same(a, c)
<1>1. PICK j \in Int : a - b = j * Turn
  BY DEF Same
<1>2. PICK k \in Int : b - c = k * Turn
  BY DEF Same
<1>3. a - c = (j + k) * Turn /\ j + k \in Int
  BY <1>1, <1>2, TurnType
<1> QED BY <1>3 DEF Same

LEMMA SameAdd ==
  ASSUME NEW a \in Int, NEW b \in Int, NEW c \in Int, NEW d \in Int, Same(a, b), Same(c, d)
  PROVE  Same(a + c, b + d)
<1>1. PICK j \in Int : a - b = j * Turn
  BY DEF Same
<1>2. PICK k \in Int : c - d = k * Turn
  BY DEF Same
<1>3. (a + c) - (b + d) = (j + k) * Turn /\ j + k \in Int
  BY <1>1, <1>2, TurnType
<1> QED BY <1>3 DEF Same

LEMMA SameMultiple ==
  ASSUME NEW a \in Int, NEW b \in Int, NEW n \in Int, Same(a, b) PROVE Same(n * a, n * b)
<1>1. PICK j \in Int : a - b = j * Turn
  BY DEF Same
<1>2. n * a - n * b = n * (a - b)
  OBVIOUS
<1>3. n * (j * Turn) = (n * j) * Turn /\ n * j \in Int
  BY TurnType
<1> QED BY <1>1, <1>2, <1>3 DEF Same

\* Products with one factor in common.
LEMMA Cancel ==
  ASSUME NEW a \in Int, NEW b \in Int, NEW c \in Nat \ {0}, a * c = b * c PROVE a = b
<1>1. (a - b) * c = 0
  OBVIOUS
<1>2. \A x \in Int : x >= 1 => x * c >= 1
  OBVIOUS
<1>3. \A x \in Int : x =< -1 => x * c =< -1
  OBVIOUS
<1> QED BY <1>1, <1>2, <1>3

\* The only multiple of m that is smaller than m.
LEMMA SmallMultiple ==
  ASSUME NEW m \in Nat \ {0}, NEW x \in Int, NEW y \in Int, -m < x, x < m, x = m * y
  PROVE  x = 0
<1>1. y >= 1 => m * y >= m
  OBVIOUS
<1>2. y =< -1 => m * y =< -m
  OBVIOUS
<1>3. y = 0
  BY <1>1, <1>2
<1> QED BY <1>3

\* What \div and % are.
LEMMA Division ==
  ASSUME NEW k \in Int, NEW m \in Nat \ {0}
  PROVE  /\ k \div m \in Int /\ k % m \in 0..(m - 1)
         /\ k = m * (k \div m) + (k % m)
OBVIOUS

\* A multiple leaves no remainder.
LEMMA Divides ==
  ASSUME NEW m \in Nat \ {0}, NEW y \in Int PROVE (m * y) % m = 0
<1> DEFINE q == (m * y) \div m
           r == (m * y) % m
<1>1. m * y \in Int
  OBVIOUS
<1>2. q \in Int /\ r \in 0..(m - 1) /\ m * y = m * q + r
  BY <1>1, Division
<1> HIDE DEF q, r
<1>3. r = m * (y - q) /\ y - q \in Int
  BY <1>2
<1>4. r = 0
  BY <1>2, <1>3, SmallMultiple
<1> QED BY <1>4 DEF r

\* Euclid's lemma: what divides a product and is coprime to one factor divides the other.
LEMMA Euclid ==
  ASSUME NEW a \in Nat, NEW p \in Nat \ {0}, Coprime(a, p),
         NEW k \in Int, NEW e \in Int, a * k = p * e
  PROVE  \E f \in Int : k = p * f
<1> DEFINE S == {x \in Int : \E y \in Int : a * x = p * y}
           T == {x \in S : x >= 1}
<1>1. p \in T
  <2>1. a * p = p * a /\ a \in Int /\ p \in Int /\ p >= 1
    OBVIOUS
  <2> QED BY <2>1
<1>2. T \in SUBSET Nat /\ T # {}
  <2>1. \A x \in T : x \in Nat
    OBVIOUS
  <2> QED BY <1>1, <2>1
<1>3. PICK m \in T : \A y \in T : m =< y
  BY <1>2, LeastNatural
<1>4. PICK e0 \in Int : a * m = p * e0
  BY <1>3
<1>5. m \in Nat \ {0}
  BY <1>3
<1>6. ASSUME NEW x \in S PROVE \E q \in Int : x = m * q
  <2> DEFINE q == x \div m
             r == x % m
  <2>1. x \in Int /\ q \in Int /\ r \in 0..(m - 1) /\ x = m * q + r
    BY <1>5, Division
  <2>2. PICK y \in Int : a * x = p * y
    OBVIOUS
  <2> HIDE DEF q, r
  <2>3. a * r = p * (y - e0 * q)
    <3>1. a * r = a * x - a * (m * q)
      BY <1>5, <2>1
    <3>2. a * (m * q) = (a * m) * q
      BY <1>5, <2>1
    <3>3. (p * e0) * q = p * (e0 * q)
      BY <1>4, <2>1
    <3>4. p * y - p * (e0 * q) = p * (y - e0 * q)
      BY <1>4, <2>1, <2>2
    <3> QED BY <1>4, <2>2, <3>1, <3>2, <3>3, <3>4
  <2>4. y - e0 * q \in Int /\ r \in Int
    BY <1>4, <2>1, <2>2
  <2>5. r \in S
    BY <2>3, <2>4
  <2>6. r = 0
    BY <1>3, <1>5, <2>1, <2>5
  <2>7. x = m * q
    BY <1>5, <2>1, <2>6
  <2> QED BY <2>1, <2>7
<1>7. PICK c \in Int : p = m * c
  BY <1>1, <1>6
<1>8. c >= 1 /\ c =< p
  <2>1. c =< 0 => m * c =< 0
    BY <1>5
  <2>2. c >= 1 => m * c >= c
    BY <1>5
  <2> QED BY <1>7, <2>1, <2>2
<1>9. a = c * e0
  <2>1. a * m = (c * e0) * m
    <3>1. (m * c) * e0 = (c * e0) * m
      BY <1>4, <1>5
    <3> QED BY <1>4, <1>7, <3>1
  <2>2. c * e0 \in Int
    BY <1>4
  <2> QED BY <1>5, <2>1, <2>2, Cancel
<1>10. c = 1
  <2> SUFFICES ASSUME c # 1 PROVE FALSE
    OBVIOUS
  <2>1. c \in 2..p /\ c \in Nat \ {0}
    BY <1>8
  <2>2. a % c = 0
    BY <1>4, <1>9, <2>1, Divides
  <2>3. p = c * m
    BY <1>5, <1>7
  <2>4. p % c = 0
    BY <1>5, <2>1, <2>3, Divides
  <2> QED BY <2>1, <2>2, <2>4 DEF Coprime
<1>11. m = p
  BY <1>5, <1>7, <1>10
<1> QED BY <1>6, <1>11

-----------------------------------------------------------------------------
(* Where circuits start *)

\* The start of circuit n, unreduced, when a circuit advances by u.
StartOf(n, p, u, step) == n * u + (n \div p) * step

\* The angles that N circuits start at, seen from k.
StartAngles(k, p, u, step, N) == {(k + StartOf(n, p, u, step)) % Turn : n \in 0..(N - 1)}

\* No two circuits start at one position.
LEMMA StartsDistinct ==
  ASSUME NEW p \in Nat \ {0}, NEW M \in Nat \ {0}, NEW step \in Nat \ {0},
         Turn = p * (M * step), NEW a \in Nat, Coprime(a, p), NEW u \in Int,
         Same(u, a * (M * step)),
         NEW n1 \in 0..(p * M - 1), NEW n2 \in 0..(p * M - 1),
         Same(StartOf(n1, p, u, step), StartOf(n2, p, u, step))
  PROVE  n1 = n2
<1> DEFINE q1 == n1 \div p
           q2 == n2 \div p
           r1 == n1 % p
           r2 == n2 % p
           D == n1 - n2
           dq == q1 - q2
           dr == r1 - r2
<1>0. /\ p * M \in Nat \ {0} /\ n1 \in Nat /\ n2 \in Nat /\ n1 < p * M /\ n2 < p * M
      /\ M * step \in Nat \ {0}
  OBVIOUS
<1>1. /\ q1 \in Int /\ r1 \in 0..(p - 1) /\ n1 = p * q1 + r1
      /\ q2 \in Int /\ r2 \in 0..(p - 1) /\ n2 = p * q2 + r2
  <2>1. \A k \in Int : /\ k \div p \in Int /\ k % p \in 0..(p - 1)
                       /\ k = p * (k \div p) + (k % p)
    BY Division
  <2>2. n1 \in Int /\ n2 \in Int
    BY <1>0
  <2> QED BY <2>1, <2>2
<1>2. PICK j \in Int : StartOf(n1, p, u, step) - StartOf(n2, p, u, step) = j * Turn
  BY DEF Same
<1>3. PICK x \in Int : u - a * (M * step) = x * Turn
  BY DEF Same
<1>4. StartOf(n1, p, u, step) - StartOf(n2, p, u, step) = D * u + dq * step
  <2>1. \A z1, z2 \in Int : (n1 * u + z1 * step) - (n2 * u + z2 * step) = (n1 - n2) * u + (z1 - z2) * step
    BY <1>0
  <2> QED BY <1>1, <2>1 DEF StartOf
<1> HIDE DEF q1, q2, r1, r2
<1>5. q1 \in 0..(M - 1) /\ q2 \in 0..(M - 1)
  <2>1. ASSUME NEW q \in Int, NEW r \in 0..(p - 1), p * q + r < p * M, p * q + r >= 0
        PROVE q \in 0..(M - 1)
    <3>1. q =< -1 => p * q =< -p
      OBVIOUS
    <3>2. q - M >= 0 => p * (q - M) >= 0
      OBVIOUS
    <3>3. p * (q - M) = p * q - p * M
      OBVIOUS
    <3> QED BY <2>1, <3>1, <3>2, <3>3
  <2> QED BY <1>0, <1>1, <2>1
<1>6. D \in Int /\ dq \in Int /\ dr \in Int /\ D = p * dq + dr
  <2>1. p * (q1 - q2) = p * q1 - p * q2
    BY <1>1
  <2> QED BY <1>0, <1>1, <2>1
<1>7. -M < dq /\ dq < M /\ -p < dr /\ dr < p
  BY <1>1, <1>5
<1> HIDE DEF D, dq, dr
<1>8. PICK g \in Int : D * (a * M) + dq = g * (p * M)
  <2>1. u = a * (M * step) + x * Turn
    BY <1>3, TurnType
  <2>2. D * u = D * (a * (M * step)) + (D * x) * Turn
    BY <1>0, <1>6, <2>1, TurnType
  <2>3. D * (a * (M * step)) + dq * step = (j - D * x) * Turn
    <3>1. (j - D * x) * Turn = j * Turn - (D * x) * Turn
      BY <1>6, TurnType
    <3> QED BY <1>2, <1>4, <1>6, <2>2, <3>1, TurnType
  <2>4. D * (a * (M * step)) + dq * step = (D * (a * M) + dq) * step
    BY <1>6
  <2>5. (j - D * x) * Turn = ((j - D * x) * (p * M)) * step
    <3>1. \A y \in Int : y * (p * (M * step)) = (y * (p * M)) * step
      OBVIOUS
    <3>2. j - D * x \in Int
      BY <1>6
    <3> QED BY <3>1, <3>2
  <2>6. D * (a * M) + dq \in Int /\ (j - D * x) * (p * M) \in Int /\ j - D * x \in Int
    BY <1>6
  <2>7. D * (a * M) + dq = (j - D * x) * (p * M)
    BY <2>3, <2>4, <2>5, <2>6, Cancel
  <2> QED BY <2>6, <2>7
<1>9. dq = 0
  <2>1. dq = M * (g * p - D * a)
    <3>1. M * (g * p - D * a) = g * (p * M) - D * (a * M)
      BY <1>6
    <3>2. g * (p * M) \in Int /\ D * (a * M) \in Int
      BY <1>6
    <3> QED BY <1>6, <1>8, <3>1, <3>2
  <2>2. g * p - D * a \in Int
    BY <1>6
  <2> QED BY <1>6, <1>7, <2>1, <2>2, SmallMultiple
<1>10. D = dr
  <2>1. p * 0 = 0
    OBVIOUS
  <2> QED BY <1>6, <1>9, <2>1
<1>11. a * dr = p * g
  <2>1. D * (a * M) = g * (p * M)
    <3>1. D * (a * M) \in Int
      BY <1>6
    <3> QED BY <1>8, <1>9, <3>1
  <2>2. (a * dr) * M = (p * g) * M
    <3>1. (a * dr) * M = dr * (a * M)
      BY <1>6
    <3>2. (p * g) * M = g * (p * M)
      OBVIOUS
    <3> QED BY <1>10, <2>1, <3>1, <3>2
  <2>3. a * dr \in Int /\ p * g \in Int
    BY <1>6
  <2> QED BY <2>2, <2>3, Cancel
<1>12. dr = 0
  <2>1. PICK f \in Int : dr = p * f
    BY <1>6, <1>11, Euclid
  <2> QED BY <1>6, <1>7, <2>1, SmallMultiple
<1> QED BY <1>0, <1>10, <1>12 DEF D

\* The multiples of a step that divides the turn, counted from an angle.
Multiples(k, N, step) == {(k + i * step) % Turn : i \in 0..(N - 1)}

\* Whatever multiple of the step: it is one of the N.
LEMMA AMultiple ==
  ASSUME NEW N \in Nat \ {0}, NEW step \in Nat \ {0}, Turn = N * step,
         NEW k \in Int, NEW x \in Int, NEW c \in Int, Same(x, c * step)
  PROVE  (k + x) % Turn \in Multiples(k, N, step)
<1> DEFINE i == c % N
           d == c \div N
<1>1. i \in 0..(N - 1) /\ d \in Int /\ c = N * d + i
  BY Division
<1> HIDE DEF i, d
<1>2. Same(c * step, i * step)
  <2>1. c * step - i * step = d * Turn
    <3>1. c * step - i * step = (c - i) * step
      BY <1>1
    <3>2. (N * d) * step = d * (N * step)
      BY <1>1
    <3>3. c - i = N * d
      BY <1>1
    <3> QED BY <3>1, <3>2, <3>3
  <2> QED BY <1>1, <2>1 DEF Same
<1>3. c * step \in Int /\ i * step \in Int
  BY <1>1
<1>4. Same(k + x, k + i * step)
  <2>1. Same(x, i * step)
    BY <1>2, <1>3, SameTrans
  <2> QED BY <1>3, <2>1, SameRefl, SameAdd
<1>5. (k + x) % Turn = (k + i * step) % Turn
  BY <1>3, <1>4, SameMod
<1> QED BY <1>1, <1>5 DEF Multiples

\* There are at most N of them.
LEMMA MultiplesCount ==
  ASSUME NEW N \in Nat \ {0}, NEW step, NEW k
  PROVE  /\ IsFiniteSet(Multiples(k, N, step))
         /\ Cardinality(Multiples(k, N, step)) =< N
<1> DEFINE g == [i \in 0..(N - 1) |-> (k + i * step) % Turn]
<1>1. g \in Surjection(0..(N - 1), Multiples(k, N, step))
  BY DEF Surjection, Multiples
<1>2. IsFiniteSet(0..(N - 1)) /\ Cardinality(0..(N - 1)) = N
  <2>1. 0 \in Int /\ N - 1 \in Int /\ ~(0 > N - 1) /\ (N - 1) - 0 + 1 = N
    OBVIOUS
  <2> QED BY <2>1, FS_Interval
<1> QED BY <1>1, <1>2, FS_Surjection

\* If the N angles a circuit starts at are distinct multiples of the step, they
\* are all of them.
LEMMA AllMultiples ==
  ASSUME NEW N \in Nat \ {0}, NEW step, NEW k,
         NEW f \in [0..(N - 1) -> Multiples(k, N, step)],
         \A n1, n2 \in 0..(N - 1) : f[n1] = f[n2] => n1 = n2
  PROVE  /\ {f[n] : n \in 0..(N - 1)} = Multiples(k, N, step)
         /\ Cardinality(Multiples(k, N, step)) = N
<1>1. IsFiniteSet(0..(N - 1)) /\ Cardinality(0..(N - 1)) = N
  <2>1. 0 \in Int /\ N - 1 \in Int /\ ~(0 > N - 1) /\ (N - 1) - 0 + 1 = N
    OBVIOUS
  <2> QED BY <2>1, FS_Interval
<1>2. f \in Injection(0..(N - 1), Multiples(k, N, step))
  BY DEF Injection, IsInjective
<1>3. /\ IsFiniteSet(Multiples(k, N, step))
      /\ Cardinality(Multiples(k, N, step)) =< N
  BY MultiplesCount
<1>4. Cardinality(Multiples(k, N, step)) \in Nat
  BY <1>3, FS_CardinalityType
<1>5. Cardinality(Multiples(k, N, step)) = N /\ f \in Surjection(0..(N - 1), Multiples(k, N, step))
  BY <1>1, <1>2, <1>3, <1>4, FS_Injection
<1> QED BY <1>5 DEF Surjection

\* The next multiple is one, too.
LEMMA MultiplesClosed ==
  ASSUME NEW N \in Nat \ {0}, NEW step \in Nat \ {0}, Turn = N * step,
         NEW k \in Int, NEW a \in Multiples(k, N, step)
  PROVE  (a + step) % Turn \in Multiples(k, N, step)
<1>1. PICK i \in 0..(N - 1) : a = (k + i * step) % Turn
  BY DEF Multiples
<1>2. k + i * step \in Int /\ a \in Int
  BY <1>1, TurnType
<1>3. Same(a, k + i * step)
  BY <1>1, <1>2, SameReduced
<1>4. Same(a + step, k + (i + 1) * step)
  <2>1. Same(a + step, (k + i * step) + step)
    BY <1>2, <1>3, SameRefl, SameAdd
  <2>2. (k + i * step) + step = k + (i + 1) * step
    OBVIOUS
  <2> QED BY <2>1, <2>2
<1>5. (i + 1) * step \in Int /\ a + step \in Int
  BY <1>2
<1>6. (a + step) % Turn = (k + (i + 1) * step) % Turn
  BY <1>4, <1>5, SameMod
<1>7. Same((i + 1) * step, (i + 1) * step)
  BY <1>5, SameRefl
<1>8. i + 1 \in Int
  OBVIOUS
<1>9. (k + (i + 1) * step) % Turn \in Multiples(k, N, step)
  BY <1>5, <1>7, <1>8, AMultiple
<1> QED BY <1>6, <1>9

\* Quotient and remainder are unique.
LEMMA Quotient ==
  ASSUME NEW m \in Nat \ {0}, NEW q \in Int, NEW r \in 0..(m - 1)
  PROVE  (m * q + r) \div m = q
<1> DEFINE x == m * q + r
           d == x \div m
           e == x % m
<1>1. x \in Int /\ d \in Int /\ e \in 0..(m - 1) /\ x = m * d + e
  <2>1. x \in Int
    OBVIOUS
  <2> HIDE DEF x
  <2> QED BY <2>1, Division
<1> HIDE DEF d, e
<1>2. e - r = m * (q - d) /\ q - d \in Int
  <2>1. m * (q - d) = m * q - m * d
    BY <1>1
  <2> QED BY <1>1, <2>1
<1>3. e - r = 0
  BY <1>1, <1>2, SmallMultiple
<1>4. (q - d) * m = 0 * m
  BY <1>1, <1>2, <1>3
<1>5. q - d = 0
  BY <1>2, <1>4, Cancel
<1>6. d = q
  BY <1>1, <1>5
<1> QED BY <1>6 DEF d

LEMMA Remainder ==
  ASSUME NEW m \in Nat \ {0}, NEW q \in Int, NEW r \in 0..(m - 1)
  PROVE  (m * q + r) % m = r
<1> DEFINE x == m * q + r
           d == x \div m
           e == x % m
<1>1. x \in Int /\ e \in 0..(m - 1) /\ x = m * d + e
  <2>1. x \in Int
    OBVIOUS
  <2> HIDE DEF x
  <2> QED BY <2>1, Division
<1>2. d = q
  BY Quotient
<1> HIDE DEF d, e
<1>3. e = r
  BY <1>1, <1>2
<1> QED BY <1>3 DEF e

\* Induction over the naturals, of a set: its least counterexample has none.
LEMMA SetInduction ==
  ASSUME NEW S, 0 \in S, \A n \in Nat : n \in S => n + 1 \in S
  PROVE  Nat \subseteq S
<1> DEFINE T == Nat \ S
<1> SUFFICES ASSUME T # {} PROVE FALSE
  OBVIOUS
<1>1. PICK x \in T : \A y \in T : x =< y
  <2>1. T \in SUBSET Nat
    OBVIOUS
  <2> QED BY <2>1, LeastNatural
<1>2. x # 0
  OBVIOUS
<1>3. x - 1 \in Nat /\ x - 1 \notin T
  BY <1>1, <1>2
<1>4. (x - 1) + 1 = x
  BY <1>1
<1> QED BY <1>3, <1>4

\* The size of the step between N evenly spaced angles.
LEMMA StepSize ==
  ASSUME NEW N \in Nat \ {0}, NEW step \in Nat \ {0}, Turn = N * step
  PROVE  Turn \div N = step
<1>1. N * step = N * step + 0 /\ 0 \in 0..(N - 1) /\ step \in Int
  OBVIOUS
<1> QED BY <1>1, Quotient

\* Circuits that advance by a stride coprime to the pattern number of slots
\* start evenly spaced, from whatever angle they are measured.
LEMMA StartsEvenlySpaced ==
  ASSUME NEW p \in Nat \ {0}, NEW M \in Nat \ {0}, NEW step \in Nat \ {0},
         Turn = p * (M * step), NEW a \in Nat, Coprime(a, p), NEW u \in Int,
         Same(u, a * (M * step)), NEW k \in Int
  PROVE  EvenlySpaced(StartAngles(k, p, u, step, p * M), p * M)
<1> DEFINE N == p * M
           f == [n \in 0..(N - 1) |-> (k + StartOf(n, p, u, step)) % Turn]
<1>1. N \in Nat \ {0} /\ Turn = N * step /\ M * step \in Int /\ p * step \in Int
  OBVIOUS
<1>2. ASSUME NEW n \in 0..(N - 1)
      PROVE  StartOf(n, p, u, step) \in Int /\ n \in Int /\ n \div p \in Int
  <2>1. n \in Int /\ n \div p \in Int
    BY <1>1, Division
  <2> QED BY <2>1 DEF StartOf
<1>3. ASSUME NEW n \in 0..(N - 1) PROVE f[n] \in Multiples(k, N, step)
  <2>0. n \in Int /\ n \div p \in Int /\ a * (M * step) \in Int
    BY <1>2
  <2>1. Same(n * u, n * (a * (M * step)))
    BY <2>0, SameMultiple
  <2>2. Same(StartOf(n, p, u, step), n * (a * (M * step)) + (n \div p) * step)
    <3>1. n * u \in Int /\ n * (a * (M * step)) \in Int /\ (n \div p) * step \in Int
      BY <2>0
    <3> QED BY <2>1, <3>1, SameRefl, SameAdd DEF StartOf
  <2>3. n * (a * (M * step)) + (n \div p) * step = (n * (a * M) + (n \div p)) * step
    BY <1>2
  <2>4. n * (a * M) + (n \div p) \in Int
    BY <1>2
  <2> HIDE DEF N
  <2> QED BY <1>1, <1>2, <2>2, <2>3, <2>4, AMultiple
<1>4. f \in [0..(N - 1) -> Multiples(k, N, step)]
  BY <1>3
<1>5. ASSUME NEW n1 \in 0..(N - 1), NEW n2 \in 0..(N - 1), f[n1] = f[n2] PROVE n1 = n2
  <2> DEFINE s1 == StartOf(n1, p, u, step)
             s2 == StartOf(n2, p, u, step)
  <2>1. s1 \in Int /\ s2 \in Int
    BY <1>2
  <2>2. (k + s1) % Turn = (k + s2) % Turn
    BY <1>5
  <2> HIDE DEF s1, s2
  <2>3. Same(k + s1, k + s2)
    <3>1. k + s1 \in Int /\ k + s2 \in Int
      BY <2>1
    <3> QED BY <2>2, <3>1, SameMod
  <2>4. Same(s1, s2)
    <3>1. PICK j \in Int : (k + s1) - (k + s2) = j * Turn
      BY <2>3 DEF Same
    <3>2. s1 - s2 = (k + s1) - (k + s2)
      BY <2>1
    <3> QED BY <3>1, <3>2 DEF Same
  <2> QED BY <2>4, StartsDistinct DEF s1, s2
<1>6. /\ {f[n] : n \in 0..(N - 1)} = Multiples(k, N, step)
      /\ Cardinality(Multiples(k, N, step)) = N
  <2> HIDE DEF f, N
  <2> QED BY <1>1, <1>4, <1>5, AllMultiples
<1>7. {(k + StartOf(n, p, u, step)) % Turn : n \in 0..(N - 1)} = Multiples(k, N, step)
  BY <1>6
<1> HIDE DEF N
<1>8. Turn \div N = step
  BY <1>1, StepSize
<1>9. \A x \in Multiples(k, N, step) : (x + step) % Turn \in Multiples(k, N, step)
  BY <1>1, MultiplesClosed
<1>10. EvenlySpaced(Multiples(k, N, step), N)
  BY <1>6, <1>8, <1>9 DEF EvenlySpaced
<1> QED BY <1>7, <1>10 DEF N, StartAngles

\* The multiples are different angles.
LEMMA MultiplesDistinct ==
  ASSUME NEW N \in Nat \ {0}, NEW step \in Nat \ {0}, Turn = N * step,
         NEW i \in 0..(N - 1), NEW j \in 0..(N - 1), Same(i * step, j * step)
  PROVE  i = j
<1>1. PICK x \in Int : i * step - j * step = x * Turn
  BY DEF Same
<1>2. (i - j) * step = (N * x) * step
  <2>1. i * step - j * step = (i - j) * step
    OBVIOUS
  <2>2. x * (N * step) = (N * x) * step
    OBVIOUS
  <2> QED BY <1>1, <2>1, <2>2
<1>3. i - j \in Int /\ N * x \in Int
  OBVIOUS
<1>4. i - j = N * x
  BY <1>2, <1>3, Cancel
<1>5. -N < i - j /\ i - j < N
  OBVIOUS
<1>6. i - j = 0
  BY <1>3, <1>4, <1>5, SmallMultiple
<1> QED BY <1>6

\* Evenly spaced angles that include 0 are the multiples of the step.
LEMMA EvenlySpacedIsMultiples ==
  ASSUME NEW N \in Nat \ {0}, NEW step \in Nat \ {0}, Turn = N * step,
         NEW A, A \subseteq Int, IsFiniteSet(A), EvenlySpaced(A, N), 0 \in A
  PROVE  A = Multiples(0, N, step) /\ Cardinality(Multiples(0, N, step)) = N
<1>1. Cardinality(A) = N /\ \A a \in A : (a + step) % Turn \in A
  BY StepSize DEF EvenlySpaced
<1>2. \A i \in Nat : (i * step) % Turn \in A
  <2> DEFINE I == {i \in Nat : (i * step) % Turn \in A}
  <2>1. 0 \in I
    <3>1. 0 % Turn = 0
      BY TurnType
    <3>2. 0 * step = 0
      OBVIOUS
    <3> QED BY <3>1, <3>2
  <2>2. ASSUME NEW n \in Nat, n \in I PROVE n + 1 \in I
    <3>1. (((n * step) % Turn) + step) % Turn \in A
      BY <1>1, <2>2
    <3>2. n * step \in Int /\ (n + 1) * step \in Int /\ (n + 1) * step = n * step + step
      OBVIOUS
    <3>3. (n * step) % Turn \in Int /\ Same((n * step) % Turn, n * step)
      BY <3>2, SameReduced
    <3>4. Same(((n * step) % Turn) + step, (n + 1) * step)
      <4>1. step \in Int /\ Same(step, step)
        BY SameRefl
      <4>2. Same(((n * step) % Turn) + step, n * step + step)
        BY <3>2, <3>3, <4>1, SameAdd
      <4> QED BY <3>2, <4>2
    <3>5. ((n * step) % Turn) + step \in Int
      BY <3>3
    <3>6. (((n * step) % Turn) + step) % Turn = ((n + 1) * step) % Turn
      BY <3>2, <3>4, <3>5, SameMod
    <3> QED BY <3>1, <3>6
  <2> HIDE DEF I
  <2>3. Nat \subseteq I
    BY <2>1, <2>2, SetInduction
  <2> QED BY <2>3 DEF I
<1>3. Multiples(0, N, step) \subseteq A
  <2> SUFFICES ASSUME NEW i \in 0..(N - 1) PROVE (0 + i * step) % Turn \in A
    BY DEF Multiples
  <2>1. i \in Nat /\ 0 + i * step = i * step
    OBVIOUS
  <2> QED BY <1>2, <2>1
<1>4. Cardinality(Multiples(0, N, step)) = N
  <2> DEFINE f == [i \in 0..(N - 1) |-> (0 + i * step) % Turn]
  <2>1. f \in [0..(N - 1) -> Multiples(0, N, step)]
    BY DEF Multiples
  <2>2. ASSUME NEW i \in 0..(N - 1), NEW j \in 0..(N - 1), f[i] = f[j] PROVE i = j
    <3>1. (0 + i * step) % Turn = (0 + j * step) % Turn
      BY <2>2
    <3>2. i * step \in Int /\ j * step \in Int /\ 0 + i * step = i * step /\ 0 + j * step = j * step
      OBVIOUS
    <3>3. Same(i * step, j * step)
      BY <3>1, <3>2, SameMod
    <3> QED BY <3>3, MultiplesDistinct
  <2> HIDE DEF f
  <2> QED BY <2>1, <2>2, AllMultiples
<1> QED BY <1>1, <1>3, <1>4, FS_Subset

\* Evenly spaced circuits advance by a whole number of slots, a, coprime to the
\* pattern number.  A circuit N later starts M steps, which is a slot, further on;
\* as the N starts between are all there are, it starts where one of the first p
\* does (<1>10).  So the first p starts are closed under adding a slot, and being
\* p they are the slots, one of them u itself (<1>12).
LEMMA SpacingNeedsStride ==
  ASSUME NEW p \in Nat \ {0, 1}, NEW M \in Nat \ {0}, NEW step \in Nat \ {0},
         Turn = p * (M * step), NEW u \in Int,
         EvenlySpaced({StartOf(n, p, u, step) % Turn : n \in 0..(p * M - 1)}, p * M)
  PROVE  \E a \in 0..(p - 1) : Same(u, a * (M * step)) /\ Coprime(a, p)
<1> DEFINE N == p * M
           s(n) == StartOf(n, p, u, step)
           A == {s(n) % Turn : n \in 0..(N - 1)}
           slot == M * step
<1>1. /\ N \in Nat \ {0} /\ Turn = N * step /\ slot \in Nat \ {0} /\ Turn = p * slot
      /\ p =< N /\ p \in Nat \ {0} /\ N = p * M + 0
  <2>1. p * M >= p
    OBVIOUS
  <2> QED BY <2>1
<1>2. ASSUME NEW q \in Nat, NEW r \in 0..(p - 1)
      PROVE  s(p * q + r) = (p * q + r) * u + q * step /\ p * q + r \in Nat
  <2>1. (p * q + r) \div p = q
    BY <1>1, Quotient
  <2> QED BY <2>1 DEF StartOf
<1>3. ASSUME NEW r \in 0..(p - 1) PROVE s(r) = r * u
  <2>1. p * 0 + r = r /\ r * u + 0 * step = r * u /\ 0 \in Nat
    OBVIOUS
  <2> QED BY <1>2, <2>1
<1>4. ASSUME NEW n \in Nat
      PROVE  s(n) \in Int /\ s(n + p) = s(n) + (p * u + step)
  <2> DEFINE q == n \div p
             r == n % p
  <2>1. q \in Int /\ r \in 0..(p - 1) /\ n = p * q + r
    <3>1. n \in Int /\ p \in Nat \ {0}
      BY <1>1
    <3> QED BY ONLY <3>1, Division DEF q, r
  <2>2. (n + p) \div p = q + 1
    <3> HIDE DEF q, r
    <3>1. n + p = p * (q + 1) + r /\ q + 1 \in Int
      BY <2>1
    <3> QED BY <1>1, <2>1, <3>1, Quotient
  <2>3. s(n) = n * u + q * step /\ s(n + p) = (n + p) * u + (q + 1) * step
    BY <2>2 DEF StartOf
  <2> HIDE DEF q, r, s
  <2>4. (n + p) * u = n * u + p * u /\ (q + 1) * step = q * step + step
    BY <2>1
  <2> QED BY <2>1, <2>3, <2>4
<1>5. IsFiniteSet(0..(N - 1)) /\ Cardinality(0..(N - 1)) = N
  <2>1. 0 \in Int /\ N - 1 \in Int /\ ~(0 > N - 1) /\ (N - 1) - 0 + 1 = N
    BY <1>1
  <2> QED BY <2>1, FS_Interval
<1> HIDE DEF s
<1>6. A = Multiples(0, N, step) /\ Cardinality(Multiples(0, N, step)) = N
  <2>1. A \subseteq Int
    <3>1. \A n \in 0..(N - 1) : s(n) % Turn \in Int
      BY <1>4, SameReduced
    <3> QED BY <3>1
  <2>2. IsFiniteSet(A)
    <3> DEFINE h == [n \in 0..(N - 1) |-> s(n) % Turn]
    <3>1. h \in Surjection(0..(N - 1), A)
      BY DEF Surjection
    <3> QED BY <1>5, <3>1, FS_Surjection
  <2>3. 0 \in A
    <3>1. s(0) = 0 * u /\ 0 * u = 0 /\ 0 % Turn = 0 /\ 0 \in 0..(N - 1)
      BY <1>1, <1>3, TurnType
    <3> QED BY <3>1
  <2>4. EvenlySpaced(A, N)
    BY DEF s
  <2> HIDE DEF A, N
  <2> QED BY <1>1, <2>1, <2>2, <2>3, <2>4, EvenlySpacedIsMultiples
<1>7. ASSUME NEW n1 \in 0..(N - 1), NEW n2 \in 0..(N - 1), Same(s(n1), s(n2)) PROVE n1 = n2
  <2> DEFINE f == [n \in 0..(N - 1) |-> s(n) % Turn]
  <2>1. f \in Surjection(0..(N - 1), Multiples(0, N, step))
    BY <1>6 DEF Surjection
  <2> HIDE DEF N
  <2>2. f \in Injection(0..(N - 1), Multiples(0, N, step))
    <3> HIDE DEF f
    <3> QED BY <1>5, <1>6, <2>1, FS_SurjSameCardinalityImpliesInj
  <2>3. s(n1) \in Int /\ s(n2) \in Int
    BY <1>1, <1>4
  <2>4. s(n1) % Turn = s(n2) % Turn
    BY <1>7, <2>3, SameMod
  <2> QED BY <2>2, <2>4 DEF Injection, IsInjective
<1>8. ASSUME NEW i \in Int PROVE \E n \in 0..(N - 1) : Same(s(n), i * step)
  <2>1. i * step \in Int /\ 0 + i * step = i * step /\ 0 \in Int
    OBVIOUS
  <2>2. (0 + i * step) % Turn \in Multiples(0, N, step)
    <3> HIDE DEF N
    <3> QED BY <1>1, <2>1, SameRefl, AMultiple
  <2>3. PICK n \in 0..(N - 1) : s(n) % Turn = (i * step) % Turn
    BY <1>6, <2>1, <2>2
  <2>4. s(n) \in Int
    BY <1>1, <1>4
  <2> QED BY <2>1, <2>3, <2>4, SameMod
<1>9. PICK c \in Int : Same(u, c * step)
  <2>1. s(1) = u /\ 1 \in 0..(N - 1)
    <3>1. 1 \in 0..(p - 1) /\ 1 * u = u
      OBVIOUS
    <3> QED BY <1>1, <1>3, <3>1
  <2>2. u % Turn \in Multiples(0, N, step)
    BY <1>6, <2>1
  <2>3. PICK i \in 0..(N - 1) : u % Turn = (0 + i * step) % Turn
    BY <2>2 DEF Multiples
  <2>4. i \in Int /\ i * step \in Int /\ 0 + i * step = i * step
    BY <1>1
  <2> QED BY <2>3, <2>4, SameMod
<1>10. ASSUME NEW r \in 0..(p - 1) PROVE \E k \in 0..(p - 1) : Same(k * u, r * u + slot)
  <2>0. /\ r \in Int /\ r * u \in Int /\ slot \in Int /\ N * u \in Int /\ N \in Int
        /\ N + r \in Nat /\ c * step \in Int
    <3>1. r \in Nat
      BY <1>1
    <3> QED BY <1>1, <3>1
  <2>1. s(N + r) = (N + r) * u + slot
    <3>1. s(p * M + r) = (p * M + r) * u + M * step
      BY <1>2
    <3> QED BY <3>1
  <2> HIDE DEF N, slot
  <2>2. Same(N * u, 0)
    <3>1. Same(N * u, N * (c * step))
      BY <1>9, <2>0, SameMultiple
    <3>2. N * (c * step) - 0 = c * Turn
      BY <1>1, <2>0
    <3>3. Same(N * (c * step), 0)
      BY <3>2 DEF Same
    <3> QED BY <2>0, <3>1, <3>3, SameTrans
  <2>3. Same(s(N + r), r * u + slot)
    <3>1. s(N + r) = N * u + (r * u + slot)
      BY <2>0, <2>1
    <3>2. Same(N * u + (r * u + slot), 0 + (r * u + slot))
      BY <2>0, <2>2, SameRefl, SameAdd
    <3>3. 0 + (r * u + slot) = r * u + slot
      BY <2>0
    <3> QED BY <3>1, <3>2, <3>3
  <2>4. s(N + r) \in Int /\ r * u + slot \in Int
    BY <1>4, <2>0
  <2>5. PICK i \in Int : Same(s(N + r), i * step)
    <3>1. Same(r * u, r * (c * step))
      BY <1>9, <2>0, SameMultiple
    <3>2. r * (c * step) \in Int
      BY <2>0
    <3>3. Same(r * u + slot, r * (c * step) + slot)
      BY <2>0, <3>1, <3>2, SameRefl, SameAdd
    <3>4. r * (c * step) + slot = (r * c + M) * step /\ r * c + M \in Int
      BY <2>0 DEF slot
    <3>5. Same(s(N + r), (r * c + M) * step)
      BY <2>3, <2>4, <3>3, <3>4, SameTrans
    <3> QED BY <3>4, <3>5
  <2>6. PICK n \in 0..(N - 1) : Same(s(n), i * step)
    BY <1>8
  <2>7. n \in Nat /\ n < N
    BY <1>1
  <2>8. s(n) \in Int /\ i * step \in Int
    BY <1>4, <2>7
  <2>9. Same(s(n), s(N + r))
    <3>1. Same(i * step, s(N + r))
      BY <2>4, <2>5, <2>8, SameSym
    <3> QED BY <2>4, <2>6, <2>8, <3>1, SameTrans
  <2>10. n < p
    <3> SUFFICES ASSUME n >= p PROVE FALSE
      BY <1>1, <2>7
    <3> DEFINE n1 == n - p
               n2 == (N + r) - p
    <3>1. n1 \in 0..(N - 1) /\ n2 \in 0..(N - 1) /\ n1 \in Nat /\ n2 \in Nat
      BY <1>1, <2>0, <2>7
    <3>2. n1 + p = n /\ n2 + p = N + r
      BY <1>1, <2>0, <2>7
    <3> HIDE DEF n1, n2
    <3>3. s(n1) \in Int /\ s(n2) \in Int
      BY <1>4, <3>1
    <3>4. s(n) = s(n1) + (p * u + step) /\ s(N + r) = s(n2) + (p * u + step)
      <4>1. s(n1 + p) = s(n1) + (p * u + step) /\ s(n2 + p) = s(n2) + (p * u + step)
        BY <1>4, <3>1
      <4> QED BY <3>2, <4>1
    <3>5. Same(s(n1), s(n2))
      <4>1. PICK j \in Int : s(n) - s(N + r) = j * Turn
        BY <2>9 DEF Same
      <4>2. s(n1) - s(n2) = s(n) - s(N + r)
        <5>1. p * u + step \in Int
          OBVIOUS
        <5> QED BY <3>3, <3>4, <5>1
      <4> QED BY <4>1, <4>2 DEF Same
    <3>6. n1 = n2
      BY <1>7, <3>1, <3>5
    <3>7. n = N + r
      BY <3>2, <3>6
    <3> QED BY <1>1, <2>0, <2>7, <3>7
  <2>11. n \in 0..(p - 1)
    BY <1>1, <2>7, <2>10
  <2>12. s(n) = n * u
    BY <1>3, <2>11
  <2>13. Same(s(n), r * u + slot)
    BY <2>3, <2>4, <2>8, <2>9, SameTrans
  <2> QED BY <2>11, <2>12, <2>13
<1>11. \A j \in Nat : \E k \in 0..(p - 1) : Same(k * u, j * slot)
  <2> DEFINE J == {j \in Nat : \E k \in 0..(p - 1) : Same(k * u, j * slot)}
  <2>1. 0 \in J
    <3>1. 0 \in 0..(p - 1) /\ 0 * u = 0 /\ 0 * slot = 0 /\ Same(0, 0)
      BY <1>1, SameRefl
    <3> QED BY <3>1
  <2>2. ASSUME NEW j \in Nat, j \in J PROVE j + 1 \in J
    <3>1. PICK r \in 0..(p - 1) : Same(r * u, j * slot)
      BY <2>2
    <3>2. PICK k \in 0..(p - 1) : Same(k * u, r * u + slot)
      BY <1>10
    <3>3. r * u \in Int /\ k * u \in Int /\ slot \in Int /\ j * slot \in Int
      <4>1. r \in Int /\ k \in Int
        BY <1>1
      <4> QED BY <1>1, <4>1
    <3> HIDE DEF slot, N
    <3>4. Same(r * u + slot, j * slot + slot)
      BY <3>1, <3>3, SameRefl, SameAdd
    <3>5. j * slot + slot = (j + 1) * slot
      BY <3>3
    <3>6. Same(k * u, (j + 1) * slot)
      <4>1. r * u + slot \in Int /\ j * slot + slot \in Int
        BY <3>3
      <4> QED BY <3>2, <3>3, <3>4, <3>5, <4>1, SameTrans
    <3>7. j + 1 \in Nat
      OBVIOUS
    <3> QED BY <3>6, <3>7
  <2> HIDE DEF J
  <2>3. Nat \subseteq J
    BY <2>1, <2>2, SetInduction
  <2> QED BY <2>3 DEF J
<1>12. PICK a \in 0..(p - 1) : Same(u, a * slot)
  <2> DEFINE P == 0..(p - 1)
             g == [j \in P |-> CHOOSE k \in P : Same(k * u, j * slot)]
  <2>1. ASSUME NEW j \in P PROVE g[j] \in P /\ Same(g[j] * u, j * slot)
    <3>1. j \in Nat
      BY <1>1
    <3>2. \E k \in P : Same(k * u, j * slot)
      BY <1>11, <3>1
    <3> QED BY <3>2
  <2>2. ASSUME NEW i \in P, NEW j \in P, g[i] = g[j] PROVE i = j
    <3>1. g[i] * u \in Int /\ i * slot \in Int /\ j * slot \in Int
      <4>1. g[i] \in Int /\ i \in Int /\ j \in Int
        BY <1>1, <2>1
      <4> HIDE DEF g, slot
      <4> QED BY <1>1, <4>1
    <3>2. Same(g[i] * u, i * slot) /\ Same(g[i] * u, j * slot)
      BY <2>1, <2>2
    <3> HIDE DEF g, slot, N
    <3>3. Same(i * slot, j * slot)
      BY <3>1, <3>2, SameSym, SameTrans
    <3> QED BY <1>1, <3>3, MultiplesDistinct
  <2>3. g \in Injection(P, P)
    <3>1. g \in [P -> P]
      BY <2>1
    <3> HIDE DEF g
    <3> QED BY <2>2, <3>1 DEF Injection, IsInjective
  <2>4. IsFiniteSet(P)
    BY <1>1, FS_Interval
  <2>5. g \in Surjection(P, P)
    BY <2>3, <2>4, FS_Injection
  <2>6. 1 \in P /\ 1 * u = u
    OBVIOUS
  <2>7. PICK j \in P : g[j] = 1
    BY <2>5, <2>6 DEF Surjection
  <2>8. Same(g[j] * u, j * slot)
    BY <2>1
  <2> HIDE DEF g, slot
  <2>9. Same(u, j * slot)
    BY <2>6, <2>7, <2>8
  <2> QED BY <2>9
<1>13. Coprime(a, p)
  <2> SUFFICES ASSUME NEW d \in 2..p, a % d = 0, p % d = 0 PROVE FALSE
    BY DEF Coprime
  <2> DEFINE e == p \div d
             b == a \div d
  <2>1. d \in Nat \ {0} /\ a \in Int /\ p \in Int
    BY <1>1
  <2>2. e \in Int /\ b \in Int /\ p = d * e /\ a = d * b
    <3>1. /\ p \div d \in Int /\ p = d * (p \div d) + (p % d)
          /\ a \div d \in Int /\ a = d * (a \div d) + (a % d)
      BY <2>1, Division
    <3> QED BY <2>1, <3>1
  <2> HIDE DEF e, b
  <2>3. e \in 1..(p - 1)
    <3>1. e =< 0 => d * e =< 0
      BY <2>1, <2>2
    <3>2. e >= 1 => d * e >= 2 * e
      BY <2>1, <2>2
    <3> QED BY <1>1, <2>2, <3>1, <3>2
  <2>4. Same(e * u, 0)
    <3>0. e \in Int /\ slot \in Int /\ a * slot \in Int
      BY <1>1, <2>1, <2>2
    <3> HIDE DEF slot, N
    <3>1. Same(e * u, e * (a * slot))
      BY <1>12, <3>0, SameMultiple
    <3>2. e * (a * slot) - 0 = b * Turn
      <4>1. e * ((d * b) * slot) = b * ((d * e) * slot)
        BY <2>1, <2>2, <3>0
      <4>2. e * (a * slot) = b * (p * slot)
        BY <2>2, <4>1
      <4> QED BY <1>1, <3>0, <4>2
    <3>3. Same(e * (a * slot), 0)
      BY <2>2, <3>2 DEF Same
    <3> QED BY <3>0, <3>1, <3>3, SameTrans
  <2>5. s(e) = e * u /\ s(0) = 0 /\ e \in 0..(N - 1) /\ 0 \in 0..(N - 1)
    <3>1. e \in 0..(p - 1) /\ 0 \in 0..(p - 1) /\ 0 * u = 0
      BY <1>1, <2>3
    <3>2. e \in 0..(N - 1) /\ 0 \in 0..(N - 1)
      BY <1>1, <2>3
    <3> QED BY <1>3, <3>1, <3>2
  <2>6. e = 0
    BY <1>7, <2>4, <2>5
  <2> QED BY <2>3, <2>6
<1> QED BY <1>12, <1>13

-----------------------------------------------------------------------------
(* The lock conditions *)

\* What a circuit turns the mandrel by.
CircuitTurn(l, lock) == 2 * lock + l.skip * Slot(l)

\* A helical layer whose circuits divide into patterns.
LEMMA LayerNumbers ==
  ASSUME surface \in Surfaces, NEW l \in HelicalLayers(surface),
         l.winding.circuits % l.pattern = 0
  PROVE  \E M \in Nat \ {0} :
           /\ l.pattern \in Nat \ {0} /\ PatternStep(l) \in Nat \ {0}
           /\ l.skip \in Nat \ {0} /\ l.lock \in Nat \ {0}
           /\ l.winding.circuits = l.pattern * M
           /\ Turn = l.pattern * (M * PatternStep(l))
           /\ Slot(l) = M * PatternStep(l)
<1> DEFINE p == l.pattern
           N == l.winding.circuits
           M == N \div p
           step == PatternStep(l)
<1>1. /\ p \in Nat \ {0} /\ N \in Nat \ {0} /\ Turn \in Nat \ {0} /\ Turn % N = 0
      /\ l.skip \in Nat \ {0} /\ l.lock \in Nat \ {0}
  <2>1. l.winding \in surface.windings
    BY DEF HelicalLayers
  <2>2. Turn % N = 0
    BY <2>1, PlannerAssumption DEF SurfaceType
  <2> QED BY <2>2, HelicalNumbers, TurnType
<1> HIDE DEF p, N
<1>2. M \in Int /\ N = p * M
  <2>1. M \in Int /\ N = p * M + (N % p)
    BY <1>1, Division
  <2>2. N % p = 0
    BY DEF N, p
  <2> QED BY <1>1, <2>1, <2>2
<1>3. step \in Int /\ Turn = N * step
  <2>1. step = Turn \div N
    BY DEF PatternStep, N
  <2>2. Turn \div N \in Int /\ Turn = N * (Turn \div N) + (Turn % N)
    BY <1>1, Division
  <2> QED BY <1>1, <2>1, <2>2
<1> HIDE DEF M, step
<1>4. M \in Nat \ {0} /\ step \in Nat \ {0}
  <2>1. M =< 0 => p * M =< 0
    BY <1>1, <1>2
  <2>2. step =< 0 => N * step =< 0
    BY <1>1, <1>3
  <2> QED BY <1>1, <1>2, <1>3, <2>1, <2>2
<1>5. Turn = p * (M * step)
  BY <1>1, <1>2, <1>3, <1>4
<1>6. Slot(l) = M * step
  <2>1. Slot(l) = Turn \div p
    BY DEF Slot, p
  <2>2. M * step \in Nat \ {0}
    BY <1>4
  <2> QED BY <1>1, <1>5, <2>1, <2>2, StepSize
<1> QED BY <1>1, <1>2, <1>4, <1>5, <1>6 DEF p, N, step

\* A lock that meets condition 1 advances each circuit by whole slots, and the
\* stride of condition 2 is how many.
LEMMA StrideIsAdvance ==
  ASSUME NEW l, NEW v \in Nat, l.skip \in Nat, l.pattern \in Nat \ {0},
         Slot(l) \in Nat \ {0}, Turn = l.pattern * Slot(l), OnSlots(l, v)
  PROVE  /\ Stride(l, v) \in 0..(l.pattern - 1)
         /\ Same(CircuitTurn(l, v), Stride(l, v) * Slot(l))
<1> DEFINE p == l.pattern
           slot == Slot(l)
           w == (2 * v) % Turn
           m == w \div slot
           x == m + l.skip
           y == x % p
           q == x \div p
<1>1. w \in Nat /\ Same(w, 2 * v)
  <2>1. 2 * v \in Int /\ (2 * v) % Turn \in 0..(Turn - 1)
    BY TurnType
  <2> QED BY <2>1, SameReduced, TurnType
<1>2. m \in Int /\ w = slot * m
  <2> HIDE DEF w
  <2>1. m \in Int /\ w = slot * m + (w % slot)
    <3>1. slot \in Nat \ {0} /\ w \in Int
      BY <1>1
    <3> HIDE DEF slot
    <3> QED BY <3>1, Division
  <2>2. w % slot = 0
    BY DEF OnSlots, w
  <2> HIDE DEF m, slot
  <2> QED BY <1>1, <2>1, <2>2 DEF slot
<1> HIDE DEF m, w
<1>3. x \in Int /\ y \in 0..(p - 1) /\ q \in Int /\ x = p * q + y
  <2>1. x \in Int
    BY <1>2
  <2> HIDE DEF x
  <2> QED BY <2>1, Division
<1> HIDE DEF x, y, q
<1>4. w + l.skip * slot = x * slot
  BY <1>2 DEF x
<1>5. x * slot = Turn * q + y * slot
  <2>1. (p * q + y) * slot = (p * slot) * q + y * slot
    BY <1>3
  <2> QED BY <1>3, <2>1
<1>6. y * slot \in 0..(Turn - 1)
  <2>1. y * slot >= 0
    BY <1>3
  <2>2. (p - y) * slot >= slot
    BY <1>3
  <2>3. (p - y) * slot = p * slot - y * slot
    BY <1>3
  <2> QED BY <1>3, <2>1, <2>2, <2>3
<1>7. (w + l.skip * slot) % Turn = y * slot
  <2>1. (Turn * q + y * slot) % Turn = y * slot
    BY <1>3, <1>6, ModUnique
  <2> QED BY <1>4, <1>5, <2>1
<1>8. (y * slot) \div slot = y
  <2>1. y * slot = slot * y + 0 /\ 0 \in 0..(slot - 1)
    BY <1>3
  <2> QED BY <1>3, <2>1, Quotient
<1>9. y % p = y
  BY <1>3
<1>10. Stride(l, v) = y
  BY <1>7, <1>8, <1>9 DEF Stride, w
<1>11. Same(CircuitTurn(l, v), y * slot)
  <2>1. CircuitTurn(l, v) \in Int /\ x * slot \in Int /\ y * slot \in Int /\ l.skip * slot \in Int
    BY <1>3 DEF CircuitTurn
  <2> HIDE DEF slot
  <2>2. Same(2 * v, w)
    BY <1>1, SameSym
  <2>3. Same(2 * v + l.skip * slot, w + l.skip * slot)
    <3>1. 2 * v \in Int /\ w \in Int /\ Same(l.skip * slot, l.skip * slot)
      BY <1>1, <2>1, SameRefl
    <3> QED BY <2>1, <2>2, <3>1, SameAdd
  <2>4. Same(CircuitTurn(l, v), x * slot)
    BY <1>4, <2>3 DEF CircuitTurn, slot
  <2>5. Same(x * slot, y * slot)
    <3>1. x * slot - y * slot = q * Turn
      BY <1>3, <1>5, <2>1, TurnType
    <3> QED BY <1>3, <3>1 DEF Same
  <2> QED BY <2>1, <2>4, <2>5, SameTrans
<1> QED BY <1>3, <1>10, <1>11

\* Both lock conditions: circuits start evenly spaced.
LEMMA ValidLockCovers ==
  ASSUME surface \in Surfaces, NEW l \in HelicalLayers(surface),
         l.winding.circuits % l.pattern = 0, NEW v \in Nat, ValidLock(l, v), NEW k \in Int
  PROVE  EvenlySpaced(StartAngles(k, l.pattern, CircuitTurn(l, v), PatternStep(l),
                                  l.winding.circuits), l.winding.circuits)
<1>1. PICK M \in Nat \ {0} :
           /\ l.pattern \in Nat \ {0} /\ PatternStep(l) \in Nat \ {0}
           /\ l.skip \in Nat \ {0} /\ l.lock \in Nat \ {0}
           /\ l.winding.circuits = l.pattern * M
           /\ Turn = l.pattern * (M * PatternStep(l))
           /\ Slot(l) = M * PatternStep(l)
  BY LayerNumbers
<1>2. Slot(l) \in Nat \ {0} /\ Turn = l.pattern * Slot(l) /\ CircuitTurn(l, v) \in Int
  BY <1>1 DEF CircuitTurn
<1>3. /\ Stride(l, v) \in 0..(l.pattern - 1)
      /\ Same(CircuitTurn(l, v), Stride(l, v) * Slot(l))
  BY <1>1, <1>2, StrideIsAdvance DEF ValidLock
<1>4. Stride(l, v) \in Nat /\ Coprime(Stride(l, v), l.pattern)
  BY <1>1, <1>3 DEF ValidLock
<1> DEFINE p == l.pattern
           step == PatternStep(l)
           u == CircuitTurn(l, v)
           a == Stride(l, v)
<1>5. Same(u, a * (M * step))
  BY <1>1, <1>3
<1>6. p \in Nat \ {0} /\ step \in Nat \ {0} /\ Turn = p * (M * step) /\ u \in Int
  BY <1>1, <1>2
<1>7. a \in Nat /\ Coprime(a, p)
  BY <1>4
<1>8. l.winding.circuits = p * M
  BY <1>1
<1> HIDE DEF p, step, u, a
<1>9. EvenlySpaced(StartAngles(k, p, u, step, p * M), p * M)
  BY <1>5, <1>6, <1>7, StartsEvenlySpaced
<1> QED BY <1>8, <1>9 DEF p, step, u

\* A start is a whole number of units.
LEMMA StartType ==
  ASSUME surface \in Surfaces, NEW l \in HelicalLayers(surface),
         l.winding.circuits % l.pattern = 0, NEW v \in Nat
  PROVE  \A n \in 0..(l.winding.circuits - 1) :
           StartOf(n, l.pattern, CircuitTurn(l, v), PatternStep(l)) \in Int
<1>1. PICK M \in Nat \ {0} :
           /\ l.pattern \in Nat \ {0} /\ PatternStep(l) \in Nat \ {0}
           /\ l.skip \in Nat \ {0} /\ l.lock \in Nat \ {0}
           /\ l.winding.circuits = l.pattern * M
           /\ Turn = l.pattern * (M * PatternStep(l))
           /\ Slot(l) = M * PatternStep(l)
  BY LayerNumbers
<1>2. CircuitTurn(l, v) \in Int
  BY <1>1 DEF CircuitTurn
<1>3. ASSUME NEW n \in Int PROVE n \div l.pattern \in Int
  BY <1>1, Division
<1> QED BY <1>1, <1>2, <1>3 DEF StartOf

\* Where circuits start, in closed form.
LEMMA ClosedForm ==
  ASSUME NEW l
  PROVE  CircuitStarts(l) =
              {StartOf(n, l.pattern, CircuitTurn(l, l.lock), PatternStep(l)) % Turn :
                  n \in 0..(l.winding.circuits - 1)}
BY DEF CircuitStarts, StartOf, CircuitTurn

\* Evenly spaced circuit starts need both lock conditions.
LEMMA SpacingNeedsValidLock ==
  ASSUME surface \in Surfaces, NEW l \in HelicalLayers(surface),
         l.winding.circuits % l.pattern = 0, l.pattern > 1,
         EvenlySpaced(CircuitStarts(l), l.winding.circuits)
  PROVE  ValidLock(l, l.lock)
<1> DEFINE p == l.pattern
           step == PatternStep(l)
           slot == Slot(l)
           u == CircuitTurn(l, l.lock)
<1>1. PICK M \in Nat \ {0} :
           /\ p \in Nat \ {0} /\ step \in Nat \ {0}
           /\ l.skip \in Nat \ {0} /\ l.lock \in Nat \ {0}
           /\ l.winding.circuits = p * M
           /\ Turn = p * (M * step)
           /\ slot = M * step
  BY LayerNumbers
<1>2. slot \in Nat \ {0} /\ Turn = p * slot /\ u \in Int /\ p \in Nat \ {0, 1}
  BY <1>1 DEF CircuitTurn
<1>3. PICK a \in 0..(p - 1) : Same(u, a * slot) /\ Coprime(a, p)
  <2>1. EvenlySpaced({StartOf(n, p, u, step) % Turn : n \in 0..(p * M - 1)}, p * M)
    BY <1>1, ClosedForm
  <2> HIDE DEF p, step, slot, u
  <2> QED BY <1>1, <1>2, <2>1, SpacingNeedsStride
<1>4. OnSlots(l, l.lock)
  <2> DEFINE w == (2 * l.lock) % Turn
  <2>1. w \in Int /\ Same(w, 2 * l.lock) /\ 2 * l.lock \in Int
    <3>1. 2 * l.lock \in Int
      BY <1>1
    <3> QED BY <3>1, SameReduced
  <2>2. u = 2 * l.lock + l.skip * slot
    BY DEF CircuitTurn
  <2>3. l.skip \in Int /\ a \in Int
    BY <1>1, <1>3
  <2> HIDE DEF w, u, slot, p
  <2>4. PICK j \in Int : w - 2 * l.lock = j * Turn
    BY <2>1 DEF Same
  <2>5. PICK i \in Int : u - a * slot = i * Turn
    BY <1>3 DEF Same
  <2>6. w = slot * ((i + j) * p + a - l.skip)
    <3>1. w = (i + j) * Turn + a * slot - l.skip * slot
      <4>1. (i + j) * Turn = i * Turn + j * Turn
        BY <2>4, <2>5, TurnType
      <4>2. a * slot \in Int /\ l.skip * slot \in Int /\ i * Turn \in Int /\ j * Turn \in Int
        BY <1>2, <2>3, TurnType
      <4> QED BY <1>2, <2>1, <2>2, <2>4, <2>5, <4>1, <4>2
    <3>2. (i + j) * (p * slot) + a * slot - l.skip * slot = slot * ((i + j) * p + a - l.skip)
      BY <1>2, <2>3
    <3> QED BY <1>2, <3>1, <3>2
  <2>7. (i + j) * p + a - l.skip \in Int
    BY <1>2, <2>3
  <2>8. w % slot = 0
    BY <1>2, <2>6, <2>7, Divides
  <2> QED BY <2>8 DEF OnSlots, w, slot
<1>5. Stride(l, l.lock) \in 0..(p - 1) /\ Same(u, Stride(l, l.lock) * slot)
  <2>1. l.lock \in Nat /\ l.skip \in Nat
    BY <1>1
  <2> QED BY <1>2, <1>4, <2>1, StrideIsAdvance
<1>6. Stride(l, l.lock) = a
  <2> HIDE DEF p, slot, u
  <2>1. Stride(l, l.lock) * slot \in Int /\ a * slot \in Int
    BY <1>2, <1>3, <1>5
  <2>2. Same(Stride(l, l.lock) * slot, a * slot)
    BY <1>2, <1>3, <1>5, <2>1, SameSym, SameTrans
  <2> QED BY <1>2, <1>3, <1>5, <2>2, MultiplesDistinct
<1> QED BY <1>3, <1>4, <1>6 DEF ValidLock

-----------------------------------------------------------------------------
(* Rejections *)

\* A layer was rejected for the first check it fails.
Refused ==
  reason # "none" =>
    /\ phase = "rejected"
    /\ layer \in LayersOn(surface)
    /\ \E i \in DOMAIN Checks : /\ reason = Checks[i] /\ Fails(layer, Checks[i])
                                /\ \A k \in 1..(i - 1) : ~Fails(layer, Checks[k])

\* Reject reports the least failing check.
LEMMA RefusedReject ==
  ASSUME NEW l \in LayersOn(surface), Reject(l) PROVE Refused'
<1> DEFINE failing == {i \in DOMAIN Checks : Fails(l, Checks[i])}
<1>1. failing # {}
  BY DEF Reject, Accepted
<1>2. DOMAIN Checks = 1..12
  BY DEF Checks
<1>3. failing \in SUBSET Nat
  BY <1>2
<1>4. Min(failing) \in failing /\ \A k \in failing : Min(failing) =< k
  BY <1>1, <1>3, LeastIsMin
<1>5. PICK i \in DOMAIN Checks : i = Min(failing) /\ Fails(l, Checks[i])
  BY <1>4
<1>6. ASSUME NEW k \in 1..(i - 1) PROVE ~Fails(l, Checks[k])
  <2>1. k \in DOMAIN Checks /\ ~(i =< k)
    BY <1>2
  <2> QED BY <1>4, <1>5, <2>1
<1>7. reason' = Checks[i] /\ layer' = l /\ phase' = "rejected" /\ UNCHANGED <<surface, terminal>>
  BY <1>5 DEF Reject, RejectReason
<1>8. \A c : Fails(l, c)' = Fails(l, c)
  BY <1>7 DEF Fails, AfterTerminal, HoopUnsupported, HelicalFails, CylinderFails, ConeFails,
               ProfileFails, CoverageFails
<1>9. \A c : Fails(layer, c)' <=> Fails(l, c)
  BY <1>7, <1>8 DEF Fails, AfterTerminal, HoopUnsupported, HelicalFails, CylinderFails, ConeFails,
               ProfileFails, CoverageFails
<1>10. LayersOn(surface)' = LayersOn(surface)
  BY <1>7, SameLayers
<1> QED BY <1>5, <1>6, <1>7, <1>9, <1>10 DEF Refused

\* A refused layer stays refused for the same reason: planning has stopped.
LEMMA RefusedStep == ASSUME Refused, [Next]_vars PROVE Refused'
<1>1. ASSUME NEW l \in LayersOn(surface), Reject(l) PROVE Refused'
  BY <1>1, RefusedReject
<1>2. ASSUME ~(\E l \in LayersOn(surface) : Reject(l)), Next
      PROVE  reason' = reason /\ phase # "rejected"
  BY <1>2 DEF Next, Dispatch, HelicalPrologue, PassStart, Lay, LeadOut, CloseLock,
     HoopPrologue, HoopFar, HoopNear, HoopTerminal, Skip, MoveAndZero, ZeroAxes, Finish, LayerDone
<1>3. CASE UNCHANGED vars
  BY <1>3, SameLayers
     DEF Refused, vars, Fails, AfterTerminal, HoopUnsupported, HelicalFails, CylinderFails,
         ConeFails, ProfileFails, CoverageFails
<1> QED BY <1>1, <1>2, <1>3 DEF Refused

\* Refused is an invariant of the planner.
LEMMA RefusedHolds == Spec => []Refused
<1>1. Init => Refused
  BY DEF Init, Refused
<1> QED BY <1>1, RefusedStep, PTL DEF Spec

\* What is known of a layer refused for its lock: all earlier checks pass.
LEMMA LockRefused ==
  ASSUME Refused, surface \in Surfaces, reason \in {"slot", "alias"}
  PROVE  /\ layer \in HelicalLayers(surface)
         /\ layer.winding.circuits % layer.pattern = 0 /\ layer.pattern > 1
         /\ ~ValidLock(layer, layer.lock)
<1>1. PICK i \in DOMAIN Checks : /\ reason = Checks[i] /\ Fails(layer, Checks[i])
                                 /\ \A k \in 1..(i - 1) : ~Fails(layer, Checks[k])
  BY DEF Refused
<1>2. i \in {11, 12}
  BY <1>1 DEF Checks
<1>3. /\ layer.kind = "helical" /\ layer.pattern > 1 /\ ~ValidLock(layer, layer.lock)
  <2>1. Fails(layer, reason)
    BY <1>1
  <2>2. layer.kind = "helical" /\ HelicalFails(layer, reason)
    BY <2>1 DEF Fails
  <2>3. CoverageFails(layer, reason)
    BY <2>2 DEF HelicalFails, CylinderFails, ConeFails, ProfileFails
  <2> QED BY <2>2, <2>3 DEF CoverageFails, ValidLock
<1>4. layer \in HelicalLayers(surface)
  BY <1>3 DEF Refused, LayersOn, HoopLayers, SkipLayers
<1>5. ~Fails(layer, "circuits")
  <2>1. 10 \in 1..(i - 1) /\ Checks[10] = "circuits"
    BY <1>2 DEF Checks
  <2> QED BY <1>1, <2>1
<1>6. layer.winding.circuits % layer.pattern = 0
  BY <1>3, <1>5 DEF Fails, HelicalFails, CoverageFails
<1> QED BY <1>3, <1>4, <1>6

\* A lock value is refused only if it would leave bare strips: divisibility and
\* non-aliasing (validators.py) are necessary for coverage, not just sufficient.
THEOREM RefusedLocksLeaveBareStrips == Spec => []LockRejectionsAreNeeded
<1>1. Refused /\ PlannerInv => LockRejectionsAreNeeded
  BY LockRefused, SpacingNeedsValidLock DEF PlannerInv, Position, LockRejectionsAreNeeded
<1> QED BY <1>1, RefusedHolds, PlannerInvHolds, PTL

\* The half steps that suggestions are looked for among: two to a slot, and the
\* layer's own lock is near the centre-th.
LEMMA HalfSteps ==
  ASSUME surface \in Surfaces, layer \in HelicalLayers(surface)
  PROVE  /\ layer.pattern \in Nat \ {0} /\ layer.lock \in Nat /\ layer.skip \in Nat
         /\ Slot(layer) \div 2 \in Nat \ {0}
         /\ Slot(layer) = 2 * (Slot(layer) \div 2)
         /\ Turn = layer.pattern * Slot(layer)
         /\ RoundDiv(layer.lock, Slot(layer) \div 2) \in Nat
<1> DEFINE p == layer.pattern
           h == Turn \div (2 * p)
<1>1. p \in Nat \ {0} /\ layer.lock \in Nat /\ layer.skip \in Nat
  BY HelicalNumbers
<1>2. 2 * p \in Nat \ {0} /\ Turn % (2 * p) = 0
  BY <1>1, PlannerAssumption DEF HelicalLayers
<1> HIDE DEF p
<1>3. h \in Int /\ Turn = (2 * p) * h
  <2>1. h \in Int /\ Turn = (2 * p) * h + (Turn % (2 * p))
    <3>1. Turn \in Int
      BY TurnType
    <3> QED BY <1>2, <3>1, Division
  <2> HIDE DEF h
  <2> QED BY <1>2, <2>1, TurnType
<1> HIDE DEF h
<1>4. h >= 1
  <2>1. h =< 0 => (2 * p) * h =< 0
    BY <1>1, <1>3
  <2> QED BY <1>3, <2>1, TurnType
<1>5. Slot(layer) = 2 * h
  <2>1. Turn = p * (2 * h) + 0 /\ 2 * h \in Int /\ 0 \in 0..(p - 1)
    BY <1>1, <1>3
  <2>2. Turn \div p = 2 * h
    BY <1>1, <2>1, Quotient
  <2> QED BY <2>2 DEF Slot, p
<1>6. Slot(layer) \div 2 = h
  BY <1>3, <1>5
<1>7. RoundDiv(layer.lock, h) \in Nat
  <2> DEFINE q == layer.lock \div h
  <2>1. q \in Nat
    <3> DEFINE k == layer.lock
               r == k % h
    <3>1. k \in Int /\ k >= 0 /\ h \in Nat \ {0}
      BY <1>1, <1>3, <1>4
    <3> HIDE DEF k
    <3>2. q \in Int /\ r \in 0..(h - 1) /\ k = h * q + r
      BY <3>1, Division DEF k
    <3> HIDE DEF q, r
    <3>3. q < 0 => h * q =< -h
      BY <3>1, <3>2
    <3> QED BY <3>1, <3>2, <3>3
  <2>2. RoundDiv(layer.lock, h) \in {q, q + 1}
    BY DEF RoundDiv
  <2> HIDE DEF q
  <2> QED BY <2>1, <2>2
<1>8. Turn = p * Slot(layer)
  <2>1. (2 * p) * h = p * (2 * h)
    BY <1>1, <1>3
  <2> QED BY <1>3, <1>5, <2>1
<1> QED BY <1>1, <1>3, <1>4, <1>5, <1>6, <1>7, <1>8 DEF p

\* One of each pattern number of successive half steps advances a circuit by
\* exactly one slot, and is valid.
LEMMA UnitStrideIsValid ==
  ASSUME surface \in Surfaces, layer \in HelicalLayers(surface), layer.pattern > 1,
         NEW k \in Nat, NEW j \in Int, k + layer.skip = layer.pattern * j + 1
  PROVE  ValidLock(layer, k * (Slot(layer) \div 2))
<1> DEFINE p == layer.pattern
           h == Slot(layer) \div 2
           slot == Slot(layer)
           v == k * h
<1>1. /\ p \in Nat \ {0} /\ p > 1 /\ layer.skip \in Nat
      /\ h \in Nat \ {0} /\ slot = 2 * h /\ slot \in Nat \ {0} /\ Turn = p * slot
  BY HalfSteps
<1> HIDE DEF p, slot, h
<1>2. v \in Nat /\ 2 * v = slot * k
  BY <1>1
<1> HIDE DEF v
<1>3. ((2 * v) % Turn) % slot = 0
  <2> DEFINE r == (2 * v) % Turn
             q == (2 * v) \div Turn
  <2>1. q \in Int /\ r \in Int /\ 2 * v = Turn * q + r
    BY <1>2, TurnType, Division
  <2> HIDE DEF r, q
  <2>2. r = slot * (k - p * q) /\ k - p * q \in Int
    BY <1>1, <1>2, <2>1
  <2>3. r % slot = 0
    BY <1>1, <2>2, Divides
  <2> QED BY <2>3 DEF r
<1>4. OnSlots(layer, v)
  BY <1>3 DEF OnSlots, slot
<1> DEFINE a == Stride(layer, v)
<1>5. a \in 0..(p - 1) /\ Same(CircuitTurn(layer, v), a * slot)
  BY <1>1, <1>2, <1>4, StrideIsAdvance DEF p, slot
<1> HIDE DEF a
<1>6. CircuitTurn(layer, v) = (p * j + 1) * slot
  <2>1. CircuitTurn(layer, v) = 2 * v + layer.skip * slot
    BY DEF CircuitTurn, slot
  <2>2. slot * k + layer.skip * slot = (k + layer.skip) * slot
    BY <1>1
  <2> QED BY <1>2, <2>1, <2>2 DEF p
<1>7. PICK i \in Int : (p * j + 1) * slot - a * slot = i * Turn
  BY <1>5, <1>6 DEF Same
<1>8. (p * j + 1 - a) * slot = (p * i) * slot
  <2>1. a \in Int /\ p * j \in Int
    BY <1>1, <1>5
  <2>2. (p * j + 1) * slot - a * slot = (p * j + 1 - a) * slot
    BY <1>1, <2>1
  <2>3. i * (p * slot) = (p * i) * slot
    BY <1>1
  <2> QED BY <1>1, <1>7, <2>2, <2>3
<1>9. p * j + 1 - a = p * i
  <2>1. p * j + 1 - a \in Int /\ p * i \in Int
    BY <1>1, <1>5
  <2> QED BY <1>1, <1>8, <2>1, Cancel
<1>10. a = 1
  <2>1. a - 1 = p * (j - i) /\ j - i \in Int
    BY <1>1, <1>5, <1>9
  <2>2. -p < a - 1 /\ a - 1 < p /\ a - 1 \in Int
    BY <1>1, <1>5
  <2>3. a - 1 = 0
    BY <1>1, <2>1, <2>2, SmallMultiple
  <2> QED BY <1>5, <2>3
<1>11. Coprime(1, p)
  <2>1. \A d \in 2..p : 1 % d = 1
    BY <1>1
  <2> QED BY <2>1 DEF Coprime
<1> QED BY <1>4, <1>10, <1>11 DEF ValidLock, a, v, h, p

\* Sixteen half steps above the layer's own are enough for up to sixteen slots.
LEMMA SuggestionFound ==
  ASSUME surface \in Surfaces, layer \in HelicalLayers(surface),
         layer.pattern > 1, layer.pattern =< 16
  PROVE  NearestValidLocks(layer) # {}
<1> DEFINE p == layer.pattern
           h == Slot(layer) \div 2
           centre == RoundDiv(layer.lock, h)
           found == {v \in {(centre + d) * h : d \in -16..16} : v > 0 /\ ValidLock(layer, v)}
           e == (1 - (centre + 1 + layer.skip)) % p
           k == centre + 1 + e
<1>0. /\ layer.pattern \in Nat \ {0} /\ layer.skip \in Nat
      /\ Slot(layer) \div 2 \in Nat \ {0}
      /\ RoundDiv(layer.lock, Slot(layer) \div 2) \in Nat
  BY HalfSteps
<1>1. /\ p \in 2..16 /\ layer.skip \in Nat /\ h \in Nat \ {0} /\ centre \in Nat
  BY <1>0
<1> HIDE DEF p, h, centre
<1>2. /\ e \in 0..(p - 1) /\ \E i \in Int : 1 - (centre + 1 + layer.skip) = p * i + e
  <2> DEFINE y == 1 - (centre + 1 + layer.skip)
  <2>1. y \in Int /\ p \in Nat \ {0}
    BY <1>1
  <2> HIDE DEF y
  <2>2. /\ y \div p \in Int /\ y % p \in 0..(p - 1)
        /\ y = p * (y \div p) + (y % p)
    BY <2>1, Division
  <2> QED BY <2>2 DEF y
<1> HIDE DEF e
<1>3. PICK i \in Int : 1 - (centre + 1 + layer.skip) = p * i + e
  BY <1>2
<1>4. k \in Nat /\ k > 0 /\ k + layer.skip = p * (-i) + 1 /\ -i \in Int
  <2>1. p * (-i) = -(p * i) /\ p * i \in Int
    BY <1>1
  <2> QED BY <1>1, <1>2, <1>3, <2>1
<1>5. k = centre + (1 + e) /\ 1 + e \in -16..16
  BY <1>1, <1>2
<1> HIDE DEF k
<1>6. ValidLock(layer, k * h)
  BY <1>1, <1>4, UnitStrideIsValid DEF p, h
<1>7. k * h \in Nat /\ k * h > 0
  BY <1>1, <1>4
<1>8. k * h \in found
  BY <1>5, <1>6, <1>7
<1>9. found \in SUBSET Nat
  <2> SUFFICES ASSUME NEW d \in -16..16, (centre + d) * h > 0 PROVE (centre + d) * h \in Nat
    OBVIOUS
  <2>1. (centre + d) * h \in Int
    BY <1>1
  <2> QED BY <2>1
<1>10. NearestValidLocks(layer) = {v \in found : Cardinality({w \in found : w < v}) < 3}
  BY DEF NearestValidLocks, centre, h
<1> HIDE DEF found
<1>11. PICK m \in found : \A w \in found : m =< w
  BY <1>8, <1>9, LeastNatural
<1>12. {w \in found : w < m} = {}
  <2>1. \A w \in found : w \in Nat /\ m \in Nat /\ m =< w
    BY <1>9, <1>11
  <2>2. \A w \in found : ~(w < m)
    BY <2>1
  <2> QED BY <2>2
<1>13. Cardinality({w \in found : w < m}) = 0
  BY <1>12, FS_EmptySet
<1> QED BY <1>10, <1>11, <1>13

\* Each lock a rejection suggests would cover the mandrel.
SuggestionsCover ==
  reason \in {"slot", "alias"} =>
    \A v \in NearestValidLocks(layer) :
      EvenlySpaced(CircuitStarts([layer EXCEPT !.lock = v]), layer.winding.circuits)

\* The nearest valid locks that validators.py lists in a rejection do cover, for any
\* pattern number.
THEOREM SuggestedLocksCover == Spec => []SuggestionsCover
<1>1. Refused /\ PlannerInv => SuggestionsCover
  <2> SUFFICES ASSUME Refused, PlannerInv, reason \in {"slot", "alias"},
                      NEW v \in NearestValidLocks(layer)
               PROVE  EvenlySpaced(CircuitStarts([layer EXCEPT !.lock = v]), layer.winding.circuits)
    BY DEF SuggestionsCover
  <2>1. surface \in Surfaces
    BY DEF PlannerInv, Position
  <2>2. /\ layer \in HelicalLayers(surface)
        /\ layer.winding.circuits % layer.pattern = 0
    BY <2>1, LockRefused
  <2>3. v \in Nat /\ ValidLock(layer, v)
    <3>1. /\ Slot(layer) \div 2 \in Nat \ {0}
          /\ RoundDiv(layer.lock, Slot(layer) \div 2) \in Nat
      BY <2>1, <2>2, HalfSteps
    <3>2. PICK d \in -16..16 : v = (RoundDiv(layer.lock, Slot(layer) \div 2) + d) * (Slot(layer) \div 2)
                           /\ v > 0 /\ ValidLock(layer, v)
      BY DEF NearestValidLocks
    <3>3. v \in Int
      BY <3>1, <3>2
    <3> QED BY <3>2, <3>3
  <2> DEFINE l2 == [layer EXCEPT !.lock = v]
             S == StartAngles(0, layer.pattern, CircuitTurn(layer, v), PatternStep(layer),
                              layer.winding.circuits)
  <2>4. /\ l2.lock = v /\ l2.pattern = layer.pattern /\ l2.skip = layer.skip
        /\ l2.winding = layer.winding
    BY <2>2 DEF HelicalLayers
  <2>5. /\ CircuitTurn(l2, l2.lock) = CircuitTurn(layer, v)
        /\ PatternStep(l2) = PatternStep(layer)
    BY <2>4 DEF CircuitTurn, PatternStep, Slot
  <2>6. EvenlySpaced(S, layer.winding.circuits)
    <3>1. 0 \in Int
      OBVIOUS
    <3> HIDE DEF PlannerInv
    <3> QED BY <2>1, <2>2, <2>3, <3>1, ValidLockCovers
  <2>7. CircuitStarts(l2) = {StartOf(n, layer.pattern, CircuitTurn(layer, v), PatternStep(layer)) % Turn :
                          n \in 0..(layer.winding.circuits - 1)}
    BY <2>4, <2>5, ClosedForm
  <2>8. S = CircuitStarts(l2)
    <3>1. \A n \in 0..(layer.winding.circuits - 1) :
            StartOf(n, layer.pattern, CircuitTurn(layer, v), PatternStep(layer)) \in Int
      BY <2>1, <2>2, <2>3, StartType
    <3> QED BY <2>7, <3>1 DEF StartAngles
  <2> QED BY <2>6, <2>8
<1> QED BY <1>1, RefusedHolds, PlannerInvHolds, PTL

\* And it lists at least one, if no pattern number exceeds the half steps searched on
\* one side: a circuit's stride runs through every residue.
THEOREM SuggestionsAlwaysPass ==
  (\A p \in Patterns : p =< 16) => (Spec => []SuggestionsPass)
<1> SUFFICES ASSUME \A p \in Patterns : p =< 16 PROVE Spec => []SuggestionsPass
  OBVIOUS
<1>1. Refused /\ PlannerInv /\ SuggestionsCover => SuggestionsPass
  <2> SUFFICES ASSUME Refused, PlannerInv, SuggestionsCover, reason \in {"slot", "alias"}
               PROVE  NearestValidLocks(layer) # {}
    BY DEF SuggestionsPass, SuggestionsCover
  <2>1. surface \in Surfaces
    BY DEF PlannerInv, Position
  <2>2. layer \in HelicalLayers(surface) /\ layer.pattern > 1
    BY <2>1, LockRefused
  <2>3. layer.pattern =< 16
    BY <2>2 DEF HelicalLayers
  <2> QED BY <2>1, <2>2, <2>3, SuggestionFound
<1> QED BY <1>1, RefusedHolds, PlannerInvHolds, SuggestedLocksCover, PTL

-----------------------------------------------------------------------------
(* The track of a layer: where every pass lays *)

\* What the lock conditions and the check on circuits leave of helical layers.
Coverable(l) == l.winding.circuits % l.pattern = 0 /\ ValidLock(l, l.lock)

\* A pass and the lock after it turn the mandrel by the lock and whole turns.
PassTurn(l) == l.lock + Turn * (PassRotation(l) \div Turn)

\* The mandrel's logical angle when circuit n starts, and when it is at a station.
CircuitAngle(l, n) ==
  n * (2 * PassTurn(l) + l.skip * Slot(l)) + (n \div l.pattern) * PatternStep(l)
PointAngle(l, n, back, z) ==
  CircuitAngle(l, n) + (IF back THEN PassTurn(l) + PassRotation(l) - l.winding.wrap[z]
                                ELSE l.winding.wrap[z])

\* Where the carriage is after k stations of a pass.
Reached(l, back, k) ==
  IF k = 0 THEN IF back THEN l.winding.band ELSE 0 ELSE Stations(l, back)[k]

\* The carriage stays on the wound band.
LEMMA ReachedOnBand ==
  ASSUME surface \in Surfaces, NEW l, Windable(l), NEW back \in BOOLEAN,
         NEW k \in 0..Len(Stations(l, back))
  PROVE  Reached(l, back, k) \in 0..l.winding.band
<1>1. /\ l.winding.band \in 1..surface.length /\ surface.length \in Nat
      /\ Len(Stations(l, back)) \in Nat \ {0}
      /\ \A i \in 1..Len(Stations(l, back)) : Stations(l, back)[i] \in 0..l.winding.band
  BY StationsOnBand
<1>2. k # 0 => k \in 1..Len(Stations(l, back))
  BY <1>1
<1> QED BY <1>1, <1>2 DEF Reached

\* The carriage moves outwards in a pass out, and inwards in a pass back.
LEMMA ReachedInOrder ==
  ASSUME surface \in Surfaces, NEW l, Windable(l), NEW back \in BOOLEAN,
         NEW k \in 0..(Len(Stations(l, back)) - 1)
  PROVE  IF back THEN Reached(l, back, k + 1) =< Reached(l, back, k)
                 ELSE Reached(l, back, k) =< Reached(l, back, k + 1)
<1>1. /\ l.winding.band \in Nat \ {0} /\ l.leadIn \in Nat \ {0} /\ l.leadIn < l.winding.band
  <2>1. l \in HelicalLayers(surface)
    BY DEF Windable
  <2>2. l.winding.band \in 1..surface.length /\ surface.length \in Nat /\ l.leadIn \in Nat \ {0}
    BY <2>1, HelicalNumbers
  <2> QED BY <2>2 DEF Windable, LeadInTooLong
<1>2. CASE surface.shape = "cylinder"
  <2>1. Stations(l, back) = IF back THEN <<l.winding.band - l.leadIn, 0>> ELSE <<l.leadIn, l.winding.band>>
    BY <1>2 DEF Stations, CylinderStations
  <2>2. k \in {0, 1}
    BY <2>1
  <2>3. CASE back
    <3>1. /\ Reached(l, back, 0) = l.winding.band /\ Reached(l, back, 1) = l.winding.band - l.leadIn
          /\ Reached(l, back, 2) = 0
      BY <2>1, <2>3 DEF Reached
    <3>2. CASE k = 0
      <4>1. k + 1 = 1 /\ l.winding.band - l.leadIn =< l.winding.band
        BY <1>1, <3>2
      <4> QED BY <2>3, <3>1, <3>2, <4>1
    <3>3. CASE k = 1
      <4>1. k + 1 = 2 /\ 0 =< l.winding.band - l.leadIn
        BY <1>1, <3>3
      <4> QED BY <2>3, <3>1, <3>3, <4>1
    <3> QED BY <2>2, <3>2, <3>3
  <2>4. CASE ~back
    <3>1. /\ Reached(l, back, 0) = 0 /\ Reached(l, back, 1) = l.leadIn
          /\ Reached(l, back, 2) = l.winding.band
      BY <2>1, <2>4 DEF Reached
    <3> QED BY <1>1, <2>2, <2>4, <3>1
  <2> QED BY <2>3, <2>4
<1>3. CASE surface.shape # "cylinder"
  <2> DEFINE n == l.winding.band
             station(i) == IF back THEN n - i ELSE i
  <2>1. Stations(l, back) = [i \in 1..n |-> station(i)]
    BY <1>3 DEF Stations, CurvedStations
  <2>2. n \in Nat \ {0}
    BY <1>1
  <2> HIDE DEF n, station
  <2>3. Len(Stations(l, back)) = n
    BY <2>1, <2>2
  <2>4. \A i \in 1..n : Stations(l, back)[i] = station(i)
    BY <2>1
  <2>5. k \in 0..(n - 1) /\ k + 1 \in 1..n /\ (k # 0 => k \in 1..n) /\ k + 1 # 0
    BY <2>2, <2>3
  <2>6. Reached(l, back, k + 1) = station(k + 1) /\ (k # 0 => Reached(l, back, k) = station(k))
    BY <2>4, <2>5 DEF Reached
  <2>7. Reached(l, back, 0) = station(0)
    BY <2>2 DEF Reached, station, n
  <2>8. Reached(l, back, k) = station(k)
    BY <2>6, <2>7
  <2> QED BY <2>2, <2>5, <2>6, <2>8 DEF station
<1> QED BY <1>2, <1>3

\* The mandrel turns between two positions by the difference of their wraps.
LEMMA RotationIsWrap ==
  ASSUME surface \in Surfaces, NEW l \in HelicalLayers(surface),
         NEW y \in 0..l.winding.band, NEW z \in 0..l.winding.band, y =< z
  PROVE  /\ Rotation(l, y, z) = l.winding.wrap[z] - l.winding.wrap[y]
         /\ Rotation(l, z, y) = l.winding.wrap[z] - l.winding.wrap[y]
         /\ l.winding.wrap[y] \in Nat /\ l.winding.wrap[z] \in Nat
<1> DEFINE w == l.winding
<1>1. /\ w.band \in Nat \ {0} /\ w.wrap \in [0..w.band -> Nat]
  BY HelicalNumbers
<1>2. w \in surface.windings /\ SurfaceType(surface)
  BY PlannerAssumption DEF HelicalLayers
<1>3. w.wrap[y] =< w.wrap[z] /\ w.wrap[y] \in Nat /\ w.wrap[z] \in Nat
  BY <1>1, <1>2 DEF SurfaceType
<1>4. Distance(y, z) = z - y /\ Distance(z, y) = z - y /\ y \in Int /\ z \in Int
  BY <1>1 DEF Distance
<1>5. CASE surface.shape = "cylinder"
  <2>1. w.wrap[y] = y * w.wrap[1] /\ w.wrap[z] = z * w.wrap[1]
    BY <1>2, <1>5 DEF SurfaceType
  <2>2. w.wrap[1] \in Int
    <3>1. 1 \in 0..w.band
      BY <1>1
    <3> QED BY <1>1, <3>1
  <2>3. Rotation(l, y, z) = w.wrap[1] * (z - y) /\ Rotation(l, z, y) = w.wrap[1] * (z - y)
    BY <1>4, <1>5 DEF Rotation
  <2> HIDE DEF w
  <2>4. w.wrap[1] * (z - y) = z * w.wrap[1] - y * w.wrap[1]
    BY <1>4, <2>2
  <2> QED BY <1>3, <2>1, <2>3, <2>4 DEF w
<1>6. CASE surface.shape # "cylinder"
  BY <1>3, <1>6 DEF Rotation, Distance
<1> QED BY <1>3, <1>5, <1>6

\* The numbers of a layer that is being wound.
LEMMA TrackNumbers ==
  ASSUME surface \in Surfaces, NEW l \in HelicalLayers(surface), Coverable(l)
  PROVE  /\ l.pattern \in Nat \ {0} /\ l.winding.circuits \in Nat \ {0}
         /\ CircuitsWound(l) = l.winding.circuits
         /\ PassTurn(l) \in Int /\ PassRotation(l) \in Nat /\ PassRotation(l) \div Turn \in Int
         /\ PassTurn(l) = PassRotation(l) + l.leadOut + Dwell(l)
         /\ l.leadOut \in Int /\ Dwell(l) \in Int
         /\ l.skip * Slot(l) \in Int /\ PatternStep(l) \in Int
         /\ l.lock \in Nat
<1>1. PICK M \in Nat \ {0} :
           /\ l.pattern \in Nat \ {0} /\ PatternStep(l) \in Nat \ {0}
           /\ l.skip \in Nat \ {0} /\ l.lock \in Nat \ {0}
           /\ l.winding.circuits = l.pattern * M
           /\ Turn = l.pattern * (M * PatternStep(l))
           /\ Slot(l) = M * PatternStep(l)
  BY LayerNumbers DEF Coverable
<1>2. l.winding.circuits \in Nat \ {0}
  BY HelicalNumbers
<1>3. CircuitsWound(l) = l.winding.circuits
  <2> DEFINE p == l.pattern
             N == l.winding.circuits
  <2>1. N = p * M + 0 /\ 0 \in 0..(p - 1) /\ M \in Int
    BY <1>1
  <2> HIDE DEF N
  <2>2. N \div p = M
    BY <1>1, <2>1, Quotient
  <2> QED BY <1>1, <2>1, <2>2 DEF CircuitsWound, N
<1>4. PassRotation(l) \in Nat /\ l.leadOut \in Int /\ Dwell(l) \in Int
  <2>1. l.winding.wrap \in [0..l.winding.band -> Nat] /\ l.winding.band \in Nat /\ l.leadOut \in Int
    BY HelicalNumbers
  <2> QED BY <2>1, DwellType DEF PassRotation
<1>5. /\ PassRotation(l) \div Turn \in Int /\ PassRotation(l) % Turn \in Int
      /\ PassRotation(l) = Turn * (PassRotation(l) \div Turn) + (PassRotation(l) % Turn)
  <2> DEFINE P == PassRotation(l)
  <2>1. P \in Int
    BY <1>4
  <2> HIDE DEF P
  <2>2. P \div Turn \in Int /\ P % Turn \in Int /\ P = Turn * (P \div Turn) + (P % Turn)
    BY <2>1, TurnType, Division
  <2> QED BY <2>2 DEF P
<1>6. PassTurn(l) = PassRotation(l) + l.leadOut + Dwell(l) /\ PassTurn(l) \in Int
  <2>1. Turn * (PassRotation(l) \div Turn) \in Int
    BY <1>5, TurnType
  <2> QED BY <1>1, <1>4, <1>5, <2>1 DEF PassTurn, Dwell
<1>7. l.skip * Slot(l) \in Int
  BY <1>1
<1> QED BY <1>1, <1>2, <1>3, <1>4, <1>5, <1>6, <1>7

\* A circuit advances the next by two passes and what the code calls its advance.
LEMMA CircuitAdvances ==
  ASSUME surface \in Surfaces, NEW l \in HelicalLayers(surface), Coverable(l), NEW n \in Nat
  PROVE  /\ CircuitAngle(l, n) \in Int
         /\ CircuitAngle(l, n + 1) = CircuitAngle(l, n) + 2 * PassTurn(l) + Advance(l, n)
<1>1. /\ l.pattern \in Nat \ {0} /\ PassTurn(l) \in Int /\ l.skip * Slot(l) \in Int
      /\ PatternStep(l) \in Int
  BY TrackNumbers
<1> DEFINE p == l.pattern
           q == n \div p
           r == n % p
           T == PassTurn(l)
           s == l.skip * Slot(l)
           step == PatternStep(l)
<1>2. q \in Int /\ r \in 0..(p - 1) /\ n = p * q + r
  <2>1. n \in Int /\ p \in Nat \ {0}
    BY <1>1
  <2> HIDE DEF p
  <2> QED BY <2>1, Division
<1> HIDE DEF p, q, r, T, s, step
<1>3. p \in Nat \ {0} /\ T \in Int /\ s \in Int /\ step \in Int
  BY <1>1 DEF p, T, s, step
<1>4. CASE r + 1 < p
  <2>1. n + 1 = p * q + (r + 1) /\ r + 1 \in 0..(p - 1) /\ r + 1 # 0
    BY <1>2, <1>3, <1>4
  <2>2. (n + 1) \div p = q
    BY <1>2, <1>3, <2>1, Quotient
  <2>3. (n + 1) % p # 0
    BY <1>2, <1>3, <2>1, Remainder
  <2>4. Advance(l, n) = s
    BY <1>3, <2>3 DEF Advance, s, p
  <2>5. CircuitAngle(l, n + 1) = (n + 1) * (2 * T + s) + q * step
    BY <2>2 DEF CircuitAngle, T, s, step, p
  <2>6. CircuitAngle(l, n) = n * (2 * T + s) + q * step
    BY DEF CircuitAngle, T, s, step, p, q
  <2>7. (n + 1) * (2 * T + s) = n * (2 * T + s) + 2 * T + s
    BY <1>3
  <2>8. n * (2 * T + s) \in Int /\ q * step \in Int
    BY <1>2, <1>3
  <2> QED BY <1>3, <2>4, <2>5, <2>6, <2>7, <2>8 DEF T
<1>5. CASE r + 1 = p
  <2>1. n + 1 = p * (q + 1) + 0 /\ 0 \in 0..(p - 1) /\ q + 1 \in Int
    <3>1. p * (q + 1) = p * q + p
      BY <1>2, <1>3
    <3> QED BY <1>2, <1>3, <1>5, <3>1
  <2>2. (n + 1) \div p = q + 1
    BY <1>3, <2>1, Quotient
  <2>3. (n + 1) % p = 0
    BY <1>3, <2>1, Remainder
  <2>4. Advance(l, n) = s + step
    BY <2>3 DEF Advance, s, p, step
  <2>5. CircuitAngle(l, n + 1) = (n + 1) * (2 * T + s) + (q + 1) * step
    BY <2>2 DEF CircuitAngle, T, s, step, p
  <2>6. CircuitAngle(l, n) = n * (2 * T + s) + q * step
    BY DEF CircuitAngle, T, s, step, p, q
  <2>7. (n + 1) * (2 * T + s) = n * (2 * T + s) + 2 * T + s /\ (q + 1) * step = q * step + step
    BY <1>2, <1>3
  <2>8. n * (2 * T + s) \in Int /\ q * step \in Int
    BY <1>2, <1>3
  <2> QED BY <1>3, <2>4, <2>5, <2>6, <2>7, <2>8 DEF T
<1> QED BY <1>2, <1>3, <1>4, <1>5

\* What is laid in circuit n at station k of a pass.
Placed(n, back, k) ==
  LET z == Reached(layer, back, k) IN <<back, z, OnMandrel(PointAngle(layer, n, back, z))>>

\* What has been laid when the builder is where pass says.
Done(n, back, k) ==
  \/ n < pass.circuit
  \/ n = pass.circuit /\ ~back /\ pass.back
  \/ n = pass.circuit /\ back = pass.back /\ pass.station >= 1 /\ k =< pass.station

Circuits == 0..(layer.winding.circuits - 1)
Marks(back) == 0..Len(Stations(layer, back))

NothingElseLaid ==
  \A q \in laid : \E n \in Circuits, back \in BOOLEAN : \E k \in Marks(back) : q = Placed(n, back, k)

OnTrack ==
  /\ pass.circuit \in Circuits
  /\ angle = PointAngle(layer, pass.circuit, pass.back, Reached(layer, pass.back, pass.station))
  /\ NothingElseLaid
  /\ \A n \in Circuits, back \in BOOLEAN : \A k \in Marks(back) :
        Done(n, back, k) => Placed(n, back, k) \in laid

TrackComplete ==
  /\ Windable(layer) /\ Coverable(layer)
  /\ NothingElseLaid
  /\ \A n \in Circuits, back \in BOOLEAN : \A k \in Marks(back) : Placed(n, back, k) \in laid

Track ==
  /\ phase \in {"next", "prologue"} => angle = 0 /\ laid = {}
  /\ phase \in {"far", "near"} => layer.kind = "hoop"
  /\ phase = "prologue" /\ layer.kind = "helical" => Coverable(layer)
  /\ phase \in {"start", "lay", "leadOut"} => Coverable(layer) /\ OnTrack
  /\ phase = "leadOut" => pass.station = Len(Stations(layer, pass.back))
  /\ phase = "close" => TrackComplete
  /\ phase = "zero" /\ layer.kind = "helical" => TrackComplete

\* The track of a layer is the same as long as layer and datum are.
LEMMA SameTrack ==
  ASSUME UNCHANGED <<surface, layer, offset>>
  PROVE  /\ Circuits' = Circuits
         /\ \A b : Marks(b)' = Marks(b)
         /\ \A n, b, k : Placed(n, b, k)' = Placed(n, b, k)
         /\ \A n, b, z : PointAngle(layer, n, b, z)' = PointAngle(layer, n, b, z)
         /\ \A b, k : Reached(layer, b, k)' = Reached(layer, b, k)
         /\ \A b : Stations(layer, b)' = Stations(layer, b)
         /\ Coverable(layer)' = Coverable(layer)
         /\ Windable(layer)' <=> Windable(layer)
<1>1. \A b : Stations(layer, b)' = Stations(layer, b)
  BY DEF Stations, CylinderStations, CurvedStations
<1>2. \A b, k : Reached(layer, b, k)' = Reached(layer, b, k)
  BY <1>1 DEF Reached
<1>3. \A n, b, z : PointAngle(layer, n, b, z)' = PointAngle(layer, n, b, z)
  BY DEF PointAngle, CircuitAngle, PassTurn, PassRotation, Slot, PatternStep
<1>4. \A a : OnMandrel(a)' = OnMandrel(a)
  BY DEF OnMandrel
<1>5. \A n, b, k : Placed(n, b, k)' = Placed(n, b, k)
  BY <1>2, <1>3, <1>4 DEF Placed, OnMandrel
<1>6. Coverable(layer)' = Coverable(layer)
  BY DEF Coverable, ValidLock, OnSlots, Stride, Slot, Coprime
<1>7. Circuits' = Circuits /\ (Windable(layer)' <=> Windable(layer))
  BY DEF Circuits, HelicalLayers, Windable, LeadInTooLong
<1>8. \A b : Marks(b)' = Marks(b)
  BY <1>1 DEF Marks
<1> QED BY <1>1, <1>2, <1>3, <1>5, <1>6, <1>7, <1>8

\* Whatever moves neither the builder nor what it laid keeps the track.
LEMMA KeepsTrack ==
  ASSUME UNCHANGED <<surface, layer, offset, laid>>
  PROVE  /\ Coverable(layer)' <=> Coverable(layer)
         /\ TrackComplete => TrackComplete'
         /\ OnTrack /\ UNCHANGED <<pass, angle>> => OnTrack'
<1>1. Coverable(layer)' <=> Coverable(layer)
  BY SameTrack
<1>2. NothingElseLaid => NothingElseLaid'
  BY SameTrack DEF NothingElseLaid
<1>3. ASSUME TrackComplete PROVE TrackComplete'
  BY <1>1, <1>2, <1>3, SameTrack DEF TrackComplete
<1>4. ASSUME OnTrack, UNCHANGED <<pass, angle>> PROVE OnTrack'
  <2>1. angle' = PointAngle(layer, pass.circuit, pass.back, Reached(layer, pass.back, pass.station))'
    <3>1. Reached(layer, pass.back, pass.station)' = Reached(layer, pass.back, pass.station)
      BY <1>4 DEF Reached, Stations, CylinderStations, CurvedStations
    <3>2. PointAngle(layer, pass.circuit, pass.back, Reached(layer, pass.back, pass.station))'
            = PointAngle(layer, pass.circuit, pass.back, Reached(layer, pass.back, pass.station))
      BY <1>4, <3>1 DEF PointAngle, CircuitAngle, PassTurn, PassRotation, Slot, PatternStep
    <3> QED BY <1>4, <3>2 DEF OnTrack
  <2>2. \A n, d, i : Done(n, d, i)' <=> Done(n, d, i)
    BY <1>4 DEF Done
  <2>3. \A n \in Circuits', d \in BOOLEAN : \A i \in Marks(d)' : Done(n, d, i)' => Placed(n, d, i)' \in laid'
    BY <1>4, <2>2, SameTrack DEF OnTrack
  <2>4. pass'.circuit \in Circuits'
    BY <1>4, SameTrack DEF OnTrack
  <2> QED BY <1>2, <1>4, <2>1, <2>3, <2>4 DEF OnTrack
<1> QED BY <1>1, <1>3, <1>4

\* An accepted helical layer has a valid lock and whole patterns.
LEMMA AcceptedIsCoverable ==
  ASSUME surface \in Surfaces, NEW l \in LayersOn(surface), Accepted(l), l.kind = "helical"
  PROVE  Coverable(l) /\ l \in HelicalLayers(surface)
<1>1. /\ ~Fails(l, "skip") /\ ~Fails(l, "circuits") /\ ~Fails(l, "alias")
  <2>1. /\ 7 \in DOMAIN Checks /\ Checks[7] = "skip" /\ 10 \in DOMAIN Checks
        /\ Checks[10] = "circuits" /\ 12 \in DOMAIN Checks /\ Checks[12] = "alias"
    BY DEF Checks
  <2> QED BY <2>1 DEF Accepted
<1>2. ~CoverageFails(l, "skip") /\ ~CoverageFails(l, "circuits") /\ ~CoverageFails(l, "alias")
  BY <1>1 DEF Fails, HelicalFails
<1>3. l \in HelicalLayers(surface)
  BY DEF LayersOn, HoopLayers, SkipLayers
<1>4. l.skip \in Nat \ {0} /\ l.pattern \in Nat \ {0}
  BY <1>3, HelicalNumbers
<1>5. l.pattern > 1
  BY <1>2, <1>4 DEF CoverageFails
<1> QED BY <1>2, <1>3, <1>5 DEF CoverageFails, Coverable

\* Laying adds the two ends of the stretch to the track, and nothing else.
LEMMA TrackLay ==
  ASSUME Position, Track, Lay PROVE Track'
<1> DEFINE stations == Stations(layer, pass.back)
           c == pass.circuit
           b == pass.back
           k == pass.station
<1>1. /\ phase = "lay" /\ surface \in Surfaces /\ Windable(layer)
      /\ layer \in HelicalLayers(surface) /\ b \in BOOLEAN
      /\ k \in 0..(Len(stations) - 1)
      /\ pass = [circuit |-> c, back |-> b, station |-> k]
  BY DEF Lay, Position, HelicalPlaces, Windable
<1>2. Coverable(layer) /\ OnTrack
  BY <1>1 DEF Track
<1>3. Len(stations) \in Nat \ {0}
  BY <1>1, StationsOnBand
<1>4. /\ k + 1 \in 1..Len(stations) /\ k \in 0..Len(stations) /\ k + 1 \in 0..Len(stations)
      /\ k \in Nat /\ (k > 0 <=> k # 0)
  BY <1>1, <1>3
<1> DEFINE y == Reached(layer, b, k)
           z == Reached(layer, b, k + 1)
<1>5. /\ angle' = angle + Rotation(layer, y, z)
      /\ laid' = laid \cup {<<b, y, OnMandrel(angle)>>, <<b, z, OnMandrel(angle')>>}
      /\ pass' = [pass EXCEPT !.station = k + 1]
      /\ phase' \in {"lay", "leadOut"}
      /\ phase' = "leadOut" => pass'.station = Len(stations)
      /\ UNCHANGED <<surface, layer, offset>>
  BY <1>4 DEF Lay, Reached
<1>6. pass'.circuit = c /\ pass'.back = b /\ pass'.station = k + 1
  BY <1>1, <1>5
<1>7. y \in 0..layer.winding.band /\ z \in 0..layer.winding.band
  BY <1>1, <1>4, ReachedOnBand
<1>8. layer.winding.band \in Nat
  BY <1>1, HelicalNumbers
<1>9. IF b THEN z =< y ELSE y =< z
  BY <1>1, ReachedInOrder
<1>10. /\ Rotation(layer, y, z) = IF b THEN layer.winding.wrap[y] - layer.winding.wrap[z]
                                      ELSE layer.winding.wrap[z] - layer.winding.wrap[y]
       /\ layer.winding.wrap[y] \in Nat /\ layer.winding.wrap[z] \in Nat
  <2>1. ASSUME NEW i \in 0..layer.winding.band, NEW j \in 0..layer.winding.band, i =< j
        PROVE  /\ Rotation(layer, i, j) = layer.winding.wrap[j] - layer.winding.wrap[i]
               /\ Rotation(layer, j, i) = layer.winding.wrap[j] - layer.winding.wrap[i]
               /\ layer.winding.wrap[i] \in Nat /\ layer.winding.wrap[j] \in Nat
    BY <1>1, <2>1, RotationIsWrap
  <2> HIDE DEF y, z
  <2> QED BY <1>7, <1>9, <2>1
<1>11. angle = PointAngle(layer, c, b, y) /\ c \in Circuits
  BY <1>2 DEF OnTrack
<1>12. angle' = PointAngle(layer, c, b, z)
  <2>1. layer.winding.circuits \in Nat
    BY <1>1, HelicalNumbers
  <2>2. c \in Nat
    BY <1>11, <2>1 DEF Circuits
  <2>3. CircuitAngle(layer, c) \in Int
    BY <1>1, <1>2, <2>2, CircuitAdvances
  <2>4. PassTurn(layer) \in Int /\ PassRotation(layer) \in Int
    BY <1>1, <1>2, TrackNumbers
  <2> DEFINE C == CircuitAngle(layer, c)
             T == PassTurn(layer)
             P == PassRotation(layer)
             wy == layer.winding.wrap[y]
             wz == layer.winding.wrap[z]
  <2>5. C \in Int /\ T \in Int /\ P \in Int /\ wy \in Int /\ wz \in Int
    BY <1>10, <2>3, <2>4
  <2>6. angle = C + (IF b THEN T + P - wy ELSE wy)
    BY <1>11 DEF PointAngle
  <2>7. angle' = angle + (IF b THEN wy - wz ELSE wz - wy)
    BY <1>5, <1>10
  <2>8. PointAngle(layer, c, b, z) = C + (IF b THEN T + P - wz ELSE wz)
    BY DEF PointAngle
  <2> HIDE DEF b, y, z, c, C, T, P, wy, wz
  <2>9. CASE b
    BY <2>5, <2>6, <2>7, <2>8, <2>9
  <2>10. CASE ~b
    BY <2>5, <2>6, <2>7, <2>8, <2>10
  <2> QED BY <2>9, <2>10
<1>13. /\ <<b, y, OnMandrel(angle)>> = Placed(c, b, k)
       /\ <<b, z, OnMandrel(angle')>> = Placed(c, b, k + 1)
  BY <1>11, <1>12 DEF Placed
<1>14. laid' = laid \cup {Placed(c, b, k), Placed(c, b, k + 1)}
  BY <1>5, <1>13
<1>15. k \in Marks(b) /\ k + 1 \in Marks(b)
  BY <1>4 DEF Marks
<1> HIDE DEF stations, c, b, k, y, z
<1>16. NothingElseLaid'
  <2>1. \A q \in laid' : \E n \in Circuits, d \in BOOLEAN : \E i \in Marks(d) : q = Placed(n, d, i)
    BY <1>1, <1>2, <1>11, <1>14, <1>15 DEF OnTrack, NothingElseLaid
  <2> QED BY <1>5, <2>1, SameTrack DEF NothingElseLaid
<1>17. ASSUME NEW n \in Circuits, NEW d \in BOOLEAN, NEW i \in Marks(d), Done(n, d, i)'
       PROVE  Placed(n, d, i) \in laid'
  <2>1. CASE Done(n, d, i)
    BY <1>2, <1>14, <2>1 DEF OnTrack
  <2>2. CASE ~Done(n, d, i)
    <3>1. n = c /\ d = b /\ i =< k + 1
      BY <1>6, <1>17, <2>2 DEF Done, c, b
    <3>2. i \in Nat
      BY DEF Marks
    <3>3. i = k \/ i = k + 1
      <4>1. k >= 1 => ~(i =< k)
        BY <2>2, <3>1 DEF Done, c, b, k
      <4> QED BY <1>4, <3>1, <3>2, <4>1
    <3> QED BY <1>14, <3>1, <3>3
  <2> QED BY <2>1, <2>2
<1>18. OnTrack'
  <2>1. angle' = PointAngle(layer, pass.circuit, pass.back, Reached(layer, pass.back, pass.station))'
    <3>1. Reached(layer, pass.back, pass.station)' = z
      <4>1. Stations(layer, pass.back)' = Stations(layer, b)
        BY <1>5, <1>6 DEF Stations, CylinderStations, CurvedStations
      <4>2. pass'.station = k + 1 /\ k + 1 # 0
        BY <1>4, <1>6
      <4> QED BY <4>1, <4>2 DEF Reached, z
    <3>2. PointAngle(layer, pass.circuit, pass.back, Reached(layer, pass.back, pass.station))'
            = PointAngle(layer, c, b, z)
      BY <1>5, <1>6, <3>1
         DEF PointAngle, CircuitAngle, PassTurn, PassRotation, Slot, PatternStep
    <3> QED BY <1>12, <3>2
  <2>2. pass'.circuit \in Circuits'
    BY <1>5, <1>6, <1>11, SameTrack
  <2>3. \A n \in Circuits', d \in BOOLEAN : \A i \in Marks(d)' : Done(n, d, i)' => Placed(n, d, i)' \in laid'
    BY <1>5, <1>17, SameTrack
  <2> QED BY <1>16, <2>1, <2>2, <2>3 DEF OnTrack
<1> QED BY <1>2, <1>5, <1>18, SameTrack DEF Track, stations

\* The end of a pass is the start of the next, after the dwell and the advance.
LEMMA TrackTurn ==
  ASSUME surface \in Surfaces, NEW l, Windable(l), Coverable(l), NEW n \in Nat
  PROVE  /\ PointAngle(l, n, FALSE, l.winding.band) + l.leadOut + Dwell(l)
               = PointAngle(l, n, TRUE, l.winding.band)
         /\ PointAngle(l, n, TRUE, 0) + l.leadOut + Dwell(l) + Advance(l, n)
               = PointAngle(l, n + 1, FALSE, 0)
         /\ \A b \in BOOLEAN : PointAngle(l, n, b, IF b THEN 0 ELSE l.winding.band) \in Int
         /\ l.leadOut \in Int /\ Dwell(l) \in Int /\ Advance(l, n) \in Int
<1> DEFINE C == CircuitAngle(l, n)
           C1 == CircuitAngle(l, n + 1)
           T == PassTurn(l)
           P == PassRotation(l)
           A == Advance(l, n)
           O == l.leadOut
           D == Dwell(l)
<1>1. l \in HelicalLayers(surface)
  BY DEF Windable
<1>2. C \in Int /\ C1 = C + 2 * T + A
  BY <1>1, CircuitAdvances
<1>3. T \in Int /\ P \in Int /\ O \in Int /\ D \in Int /\ T = P + O + D
  BY <1>1, TrackNumbers
<1>4. A \in Int
  BY <1>1, DwellType
<1>5. l.winding.wrap[l.winding.band] = P /\ l.winding.wrap[0] = 0
  <2>1. l.winding \in surface.windings
    BY <1>1 DEF HelicalLayers
  <2> QED BY <2>1, PlannerAssumption DEF PassRotation, SurfaceType
<1>6. /\ PointAngle(l, n, FALSE, l.winding.band) = C + P
      /\ PointAngle(l, n, TRUE, l.winding.band) = C + (T + P - P)
      /\ PointAngle(l, n, TRUE, 0) = C + (T + P - 0)
      /\ PointAngle(l, n + 1, FALSE, 0) = C1 + 0
  BY <1>5 DEF PointAngle
<1> HIDE DEF C, C1, T, P, A, O, D
<1>7. C + P + O + D = C + (T + P - P)
  BY <1>2, <1>3
<1>8. C + (T + P - 0) + O + D + A = C1 + 0
  BY <1>2, <1>3, <1>4
<1>9. C + P \in Int /\ C + (T + P - 0) \in Int
  BY <1>2, <1>3
<1> QED BY <1>3, <1>4, <1>6, <1>7, <1>8, <1>9 DEF O, D, A

\* After a lead-out the builder is at the start of the next pass, or done.
LEMMA TrackLeadOut ==
  ASSUME Position, Track, LeadOut PROVE Track'
<1> DEFINE c == pass.circuit
           b == pass.back
           L == Len(Stations(layer, b))
<1>1. /\ phase = "leadOut" /\ surface \in Surfaces /\ Windable(layer)
      /\ layer \in HelicalLayers(surface) /\ b \in BOOLEAN
      /\ UNCHANGED <<surface, layer, offset, laid>>
  BY DEF LeadOut, Position, HelicalPlaces, Windable
<1>2. Coverable(layer) /\ OnTrack /\ pass.station = L
  BY <1>1 DEF Track
<1>3. L \in Nat \ {0} /\ Stations(layer, b)[L] = IF b THEN 0 ELSE layer.winding.band
  BY <1>1, StationsOnBand
<1>4. Reached(layer, b, L) = IF b THEN 0 ELSE layer.winding.band
  BY <1>3 DEF Reached
<1>5. angle = PointAngle(layer, c, b, IF b THEN 0 ELSE layer.winding.band) /\ c \in Circuits
  BY <1>2, <1>4 DEF OnTrack
<1>6. c \in Nat /\ layer.winding.circuits \in Nat \ {0}
  <2>1. layer.winding.circuits \in Nat \ {0}
    BY <1>1, HelicalNumbers
  <2> QED BY <1>5, <2>1 DEF Circuits
<1> DEFINE c1 == IF b THEN c + 1 ELSE c
<1>7. pass'.circuit = c1 /\ pass'.back = ~b /\ pass'.station = 0
  BY DEF LeadOut
<1>8. /\ angle' = angle + layer.leadOut + Dwell(layer) + (IF b THEN Advance(layer, c) ELSE 0)
      /\ phase' = IF b /\ c + 1 = CircuitsWound(layer) THEN "close" ELSE "start"
  BY DEF LeadOut
<1>9. angle' = PointAngle(layer, c1, ~b, IF b THEN 0 ELSE layer.winding.band)
  <2>1. /\ PointAngle(layer, c, FALSE, layer.winding.band) + layer.leadOut + Dwell(layer)
               = PointAngle(layer, c, TRUE, layer.winding.band)
        /\ PointAngle(layer, c, TRUE, 0) + layer.leadOut + Dwell(layer) + Advance(layer, c)
               = PointAngle(layer, c + 1, FALSE, 0)
        /\ \A d \in BOOLEAN : PointAngle(layer, c, d, IF d THEN 0 ELSE layer.winding.band) \in Int
        /\ layer.leadOut \in Int /\ Dwell(layer) \in Int /\ Advance(layer, c) \in Int
    BY <1>1, <1>2, <1>6, TrackTurn
  <2> HIDE DEF c
  <2>2. CASE b
    <3>1. b = TRUE /\ c1 = c + 1
      BY <1>1, <2>2
    <3>2. angle' = angle + layer.leadOut + Dwell(layer) + Advance(layer, c)
      BY <1>8, <2>2
    <3> HIDE DEF b, c1
    <3> QED BY <1>5, <2>1, <2>2, <3>1, <3>2
  <2>3. CASE ~b
    <3>1. b = FALSE /\ c1 = c
      BY <1>1, <2>3
    <3>2. angle' = angle + layer.leadOut + Dwell(layer) + 0
      BY <1>8, <2>3
    <3>3. angle = PointAngle(layer, c, FALSE, layer.winding.band) /\ angle \in Int
      BY <1>5, <2>1, <2>3, <3>1
    <3> HIDE DEF b, c1
    <3>4. angle' = PointAngle(layer, c, TRUE, layer.winding.band)
      <4>1. layer.leadOut \in Int /\ Dwell(layer) \in Int
        BY <2>1
      <4>2. angle' = angle + layer.leadOut + Dwell(layer)
        <5>1. angle \in Int
          BY <3>3
        <5>2. \A i, j, k \in Int : i + j + k + 0 = i + j + k
          OBVIOUS
        <5>3. angle + layer.leadOut + Dwell(layer) + 0 = angle + layer.leadOut + Dwell(layer)
          BY <4>1, <5>1, <5>2
        <5> QED BY <3>2, <5>3
      <4> QED BY <2>1, <3>3, <4>2
    <3>5. ~b = TRUE /\ (IF b THEN 0 ELSE layer.winding.band) = layer.winding.band
      BY <3>1
    <3> QED BY <3>1, <3>4, <3>5
  <2> QED BY <2>2, <2>3
<1>10. CircuitsWound(layer) = layer.winding.circuits
  BY <1>1, <1>2, TrackNumbers
<1>11. NothingElseLaid'
  BY <1>1, <1>2, SameTrack DEF OnTrack, NothingElseLaid
<1>12. ASSUME NEW n \in Circuits, NEW d \in BOOLEAN, NEW i \in Marks(d),
              n < c1 \/ (n = c1 /\ ~d /\ ~b)
       PROVE  Placed(n, d, i) \in laid
  <2>1. n \in Nat /\ i =< Len(Stations(layer, d)) /\ i \in Nat
    <3>1. Len(Stations(layer, d)) \in Nat
      BY <1>1, StationsOnBand
    <3> QED BY <1>6, <3>1 DEF Circuits, Marks
  <2>2. Done(n, d, i)
    <3>1. CASE b
      <4>1. n < c \/ n = c
        BY <1>6, <1>12, <2>1, <3>1
      <4>2. CASE n = c /\ d
        <5>1. d = b
          BY <1>1, <3>1, <4>2
        <5>2. pass.station = L /\ L >= 1 /\ i =< L
          BY <1>2, <1>3, <2>1, <5>1
        <5> HIDE DEF L
        <5> QED BY <4>2, <5>1, <5>2 DEF Done
      <4> QED BY <3>1, <4>1, <4>2 DEF Done
    <3>2. CASE ~b
      <4>1. CASE n = c /\ ~d
        <5>1. d = b
          BY <1>1, <3>2, <4>1
        <5>2. pass.station = L /\ L >= 1 /\ i =< L
          BY <1>2, <1>3, <2>1, <5>1
        <5> HIDE DEF L
        <5> QED BY <4>1, <5>1, <5>2 DEF Done
      <4> QED BY <1>12, <3>2, <4>1 DEF Done
    <3> QED BY <3>1, <3>2
  <2> QED BY <1>2, <2>2 DEF OnTrack
<1>13. CASE phase' = "close"
  <2>1. b /\ c + 1 = layer.winding.circuits
    BY <1>8, <1>10, <1>13
  <2>2. \A n \in Circuits : n < c1
    BY <1>6, <2>1 DEF Circuits
  <2>3. \A n \in Circuits, d \in BOOLEAN : \A i \in Marks(d) : Placed(n, d, i) \in laid
    BY <1>12, <2>2
  <2>4. TrackComplete'
    BY <1>1, <1>2, <1>11, <2>3, SameTrack DEF TrackComplete
  <2> QED BY <1>13, <2>4 DEF Track
<1>14. CASE phase' = "start"
  <2>1. c1 \in Circuits
    <3>1. b => c + 1 # layer.winding.circuits
      BY <1>8, <1>10, <1>14
    <3> QED BY <1>5, <1>6, <3>1 DEF Circuits
  <2>2. angle' = PointAngle(layer, pass.circuit, pass.back, Reached(layer, pass.back, pass.station))'
    <3>1. Reached(layer, pass.back, pass.station)' = IF b THEN 0 ELSE layer.winding.band
      BY <1>1, <1>7 DEF Reached
    <3>2. PointAngle(layer, pass.circuit, pass.back, Reached(layer, pass.back, pass.station))'
            = PointAngle(layer, c1, ~b, IF b THEN 0 ELSE layer.winding.band)
      BY <1>1, <1>7, <3>1
         DEF PointAngle, CircuitAngle, PassTurn, PassRotation, Slot, PatternStep
    <3> QED BY <1>9, <3>2
  <2>3. ASSUME NEW n \in Circuits, NEW d \in BOOLEAN, NEW i \in Marks(d), Done(n, d, i)'
        PROVE  Placed(n, d, i) \in laid
    <3>1. n < c1 \/ (n = c1 /\ ~d /\ ~b)
      BY <1>7, <2>3 DEF Done
    <3> QED BY <1>12, <3>1
  <2>4. OnTrack'
    <3>1. \A n \in Circuits', d \in BOOLEAN : \A i \in Marks(d)' : Done(n, d, i)' => Placed(n, d, i)' \in laid'
      BY <1>1, <2>3, SameTrack
    <3>2. pass'.circuit \in Circuits'
      BY <1>1, <1>7, <2>1, SameTrack
    <3> QED BY <1>11, <2>2, <3>1, <3>2 DEF OnTrack
  <2> QED BY <1>1, <1>2, <1>14, <2>4, SameTrack DEF Track
<1> QED BY <1>8, <1>13, <1>14

\* A layer starts with nothing laid, at angle 0.
LEMMA TrackPrologue ==
  ASSUME Position, Track, HelicalPrologue \/ HoopPrologue \/ Skip PROVE Track'
<1>1. phase = "prologue" /\ angle = 0 /\ laid = {} /\ pass = FirstPass /\ surface \in Surfaces
  BY DEF HelicalPrologue, HoopPrologue, Skip, Track, Position, Idle
<1>2. CASE HelicalPrologue
  <2>1. /\ phase' = "start" /\ layer.kind = "helical"
        /\ UNCHANGED <<surface, layer, pass, angle, laid>>
    BY <1>2 DEF HelicalPrologue
  <2>2. Coverable(layer) /\ Windable(layer) /\ layer \in HelicalLayers(surface)
    BY <1>1, <2>1 DEF Track, Position, Idle, Windable
  <2>3. Coverable(layer)'
    BY <2>1, <2>2 DEF Coverable, ValidLock, OnSlots, Stride, Slot, Coprime
  <2>4. pass'.circuit = 0 /\ pass'.back = FALSE /\ pass'.station = 0
    BY <1>1, <2>1 DEF FirstPass
  <2>5. pass'.circuit \in Circuits'
    <3>1. layer.winding.circuits \in Nat \ {0}
      BY <1>1, <2>2, HelicalNumbers
    <3> QED BY <2>1, <2>4, <3>1 DEF Circuits
  <2>6. angle' = PointAngle(layer, pass.circuit, pass.back, Reached(layer, pass.back, pass.station))'
    <3>1. PointAngle(layer, 0, FALSE, 0) = 0
      <4>1. CircuitAngle(layer, 0) = 0
        <5>1. /\ layer.pattern \in Nat \ {0} /\ PassTurn(layer) \in Int
              /\ layer.skip * Slot(layer) \in Int /\ PatternStep(layer) \in Int
          BY <1>1, <2>2, TrackNumbers
        <5>2. 0 \div layer.pattern = 0
          <6>1. 0 = layer.pattern * 0 + 0 /\ 0 \in 0..(layer.pattern - 1) /\ 0 \in Int
            BY <5>1
          <6> QED BY <5>1, <6>1, Quotient
        <5> QED BY <5>1, <5>2 DEF CircuitAngle
      <4>2. layer.winding.wrap[0] = 0
        <5>1. layer.winding \in surface.windings
          BY <2>2 DEF HelicalLayers
        <5> QED BY <1>1, <5>1, PlannerAssumption DEF SurfaceType
      <4> QED BY <4>1, <4>2 DEF PointAngle
    <3>2. Reached(layer, pass.back, pass.station)' = 0
      BY <2>4 DEF Reached
    <3>3. PointAngle(layer, pass.circuit, pass.back, Reached(layer, pass.back, pass.station))'
            = PointAngle(layer, 0, FALSE, 0)
      BY <2>1, <2>4, <3>2
         DEF PointAngle, CircuitAngle, PassTurn, PassRotation, Slot, PatternStep
    <3> QED BY <1>1, <2>1, <3>1, <3>3
  <2>7. NothingElseLaid'
    BY <1>1, <2>1 DEF NothingElseLaid
  <2>8. ASSUME NEW n \in Circuits', NEW d, NEW i PROVE ~Done(n, d, i)'
    <3>1. n \in Nat
      <4>1. layer'.winding.circuits \in Nat \ {0}
        BY <1>1, <2>1, <2>2, HelicalNumbers
      <4> QED BY <4>1 DEF Circuits
    <3> QED BY <2>4, <3>1 DEF Done
  <2>9. OnTrack'
    BY <2>5, <2>6, <2>7, <2>8 DEF OnTrack
  <2> QED BY <2>1, <2>3, <2>9 DEF Track
<1>3. CASE HoopPrologue
  BY <1>3 DEF HoopPrologue, Track
<1>4. CASE Skip
  BY <1>4 DEF Skip, LayerDone, Track
<1> QED BY <1>2, <1>3, <1>4

\* Every step keeps the track.
LEMMA TrackStep == ASSUME Position, Track, [Next]_vars PROVE Track'
<1>0. surface \in Surfaces
  BY DEF Position
<1>1. CASE Lay
  BY <1>1, TrackLay
<1>2. CASE LeadOut
  BY <1>2, TrackLeadOut
<1>3. CASE HelicalPrologue \/ HoopPrologue \/ Skip
  BY <1>3, TrackPrologue
<1>4. ASSUME NEW l \in LayersOn(surface), Reject(l) PROVE Track'
  BY <1>4 DEF Reject, Track
<1>5. ASSUME NEW l \in LayersOn(surface), Dispatch(l) PROVE Track'
  <2>1. l.kind = "helical" => Coverable(l)
    BY <1>0, <1>5, AcceptedIsCoverable DEF Dispatch
  <2>2. Coverable(layer)' <=> Coverable(l)
    BY <1>5 DEF Dispatch, Coverable, ValidLock, OnSlots, Stride, Slot, Coprime
  <2> QED BY <1>5, <2>1, <2>2 DEF Dispatch, Track
<1>6. CASE PassStart
  <2>1. /\ phase = "start" /\ phase' = "lay"
        /\ UNCHANGED <<surface, layer, pass, angle, offset, laid>>
    BY <1>6 DEF PassStart
  <2>2. Coverable(layer)' /\ OnTrack'
    BY <2>1, KeepsTrack DEF Track
  <2> QED BY <2>1, <2>2 DEF Track
<1>7. CASE CloseLock
  <2>1. phase = "close" /\ phase' = "zero" /\ UNCHANGED <<surface, layer, offset, laid>>
    BY <1>7 DEF CloseLock
  <2>2. TrackComplete'
    BY <2>1, KeepsTrack DEF Track
  <2> QED BY <2>1, <2>2 DEF Track
<1>8. CASE HoopFar \/ HoopNear
  <2>1. layer.kind = "hoop" /\ layer' = layer /\ phase' \in {"near", "zero"}
    BY <1>8 DEF HoopFar, HoopNear, Track
  <2> QED BY <2>1 DEF Track
<1>9. CASE HoopTerminal \/ ZeroAxes
  BY <1>9 DEF HoopTerminal, ZeroAxes, LayerDone, Track
<1>10. CASE Finish
  BY <1>10 DEF Finish, Track
<1>11. CASE UNCHANGED vars
  <2>1. /\ OnTrack => OnTrack'
        /\ TrackComplete => TrackComplete'
        /\ Coverable(layer)' <=> Coverable(layer)
        /\ UNCHANGED <<phase, layer, angle, laid>>
        /\ pass.station = Len(Stations(layer, pass.back))
             => pass'.station = Len(Stations(layer, pass.back)')
    BY <1>11, KeepsTrack
       DEF vars, Coverable, ValidLock, OnSlots, Stride, Slot, Coprime, Stations,
           CylinderStations, CurvedStations
  <2> QED BY <2>1 DEF Track
<1> QED BY <1>1, <1>2, <1>3, <1>4, <1>5, <1>6, <1>7, <1>8, <1>9, <1>10, <1>11 DEF Next

\* Track is an invariant of the planner.
LEMMA TrackHolds == Spec => [](Track /\ Position)
<1>1. Init => Track /\ Position
  BY PositionInit DEF Init, Track
<1>2. Track /\ Position /\ [Next]_vars => (Track /\ Position)'
  BY TrackStep, PositionStep
<1> QED BY <1>1, <1>2, PTL DEF Spec

\* A complete track: each mark is crossed once by each circuit, evenly spaced.
LEMMA CompleteTrackCovers ==
  ASSUME surface \in Surfaces, TrackComplete, offset.mandrel \in Int,
         NEW back \in BOOLEAN, NEW z \in {p[2] : p \in {q \in laid : q[1] = back}}
  PROVE  EvenlySpaced({p[3] : p \in {q \in laid : q[1] = back /\ q[2] = z}},
                      layer.winding.circuits)
<1> DEFINE l == layer
           N == l.winding.circuits
           u == CircuitTurn(l, l.lock)
           step == PatternStep(l)
           G == PassRotation(l) \div Turn
           K == offset.mandrel + (IF back THEN PassTurn(l) + PassRotation(l) - l.winding.wrap[z]
                                          ELSE l.winding.wrap[z])
           angleOf(n) == OnMandrel(PointAngle(l, n, back, z))
           S == {p[3] : p \in {q \in laid : q[1] = back /\ q[2] = z}}
<1>1. Windable(l) /\ l \in HelicalLayers(surface) /\ Coverable(l)
  BY DEF TrackComplete, Windable
<1>2. PICK q \in laid : q[1] = back /\ q[2] = z
  OBVIOUS
<1>3. PICK k \in Marks(back) : z = Reached(l, back, k)
  BY <1>2 DEF TrackComplete, NothingElseLaid, Placed
<1>4. z \in 0..l.winding.band
  BY <1>1, <1>3, ReachedOnBand DEF Marks
<1>5. S = {angleOf(n) : n \in Circuits}
  <2>1. ASSUME NEW p \in laid, p[1] = back, p[2] = z PROVE \E n \in Circuits : p[3] = angleOf(n)
    BY <2>1 DEF TrackComplete, NothingElseLaid, Placed
  <2>2. ASSUME NEW n \in Circuits PROVE \E p \in laid : p[1] = back /\ p[2] = z /\ p[3] = angleOf(n)
    <3>1. Placed(n, back, k) \in laid
      BY DEF TrackComplete
    <3>2. Placed(n, back, k) = <<back, z, angleOf(n)>>
      BY <1>3 DEF Placed
    <3> QED BY <3>1, <3>2
  <2> HIDE DEF angleOf
  <2> QED BY <2>1, <2>2
<1>6. /\ PassTurn(l) \in Int /\ PassRotation(l) \in Int /\ G \in Int /\ l.lock \in Nat
      /\ l.skip * Slot(l) \in Int /\ step \in Int /\ l.pattern \in Nat \ {0} /\ N \in Nat \ {0}
  BY <1>1, TrackNumbers
<1>7. l.winding.wrap[z] \in Int
  <2>1. l.winding.wrap \in [0..l.winding.band -> Nat]
    BY <1>1, HelicalNumbers
  <2>2. l.winding.wrap[z] \in Nat
    BY <1>4, <2>1
  <2> QED BY <2>2
<1>8. K \in Int
  BY <1>6, <1>7
<1>9. ASSUME NEW n \in 0..(N - 1)
      PROVE  angleOf(n) = (K + StartOf(n, l.pattern, u, step)) % Turn
  <2> DEFINE d == (n \div l.pattern) * step
             s == l.skip * Slot(l)
  <2>1. n \in Int /\ d \in Int /\ n * u \in Int
    <3>1. n \in Int
      BY <1>6
    <3>2. n \div l.pattern \in Int
      BY <1>6, <3>1, Division
    <3> QED BY <1>6, <3>1, <3>2 DEF CircuitTurn
  <2>2. CircuitAngle(l, n) = n * (2 * PassTurn(l) + s) + d
    BY DEF CircuitAngle
  <2>3. StartOf(n, l.pattern, u, step) = n * (2 * l.lock + s) + d
    BY DEF StartOf, CircuitTurn
  <2>4. PassTurn(l) = l.lock + Turn * G
    BY DEF PassTurn
  <2>5. PointAngle(l, n, back, z) + offset.mandrel = K + CircuitAngle(l, n)
    <3>1. CircuitAngle(l, n) \in Int
      <4>1. n * (2 * PassTurn(l) + s) \in Int
        BY <1>6, <2>1
      <4> QED BY <2>1, <2>2, <4>1
    <3>2. CASE back
      BY <1>6, <1>7, <3>1, <3>2 DEF PointAngle
    <3>3. CASE ~back
      BY <1>6, <1>7, <3>1, <3>3 DEF PointAngle
    <3> QED BY <3>2, <3>3
  <2>6. CircuitAngle(l, n) - StartOf(n, l.pattern, u, step) = (2 * (n * G)) * Turn
    <3>1. s \in Int /\ l.lock \in Int /\ Turn \in Int
      BY <1>6, TurnType
    <3> HIDE DEF d, s, G
    <3>2. n * (2 * (l.lock + Turn * G) + s) = n * (2 * l.lock + s) + (2 * (n * G)) * Turn
      BY <1>6, <2>1, <3>1
    <3>3. n * (2 * l.lock + s) \in Int /\ (2 * (n * G)) * Turn \in Int
      BY <1>6, <2>1, <3>1
    <3> QED BY <2>1, <2>2, <2>3, <2>4, <3>2, <3>3
  <2>7. CircuitAngle(l, n) \in Int /\ StartOf(n, l.pattern, u, step) \in Int
    <3>1. n * (2 * PassTurn(l) + s) \in Int /\ n * (2 * l.lock + s) \in Int
      BY <1>6, <2>1
    <3> QED BY <2>1, <2>2, <2>3, <3>1
  <2>8. Same(CircuitAngle(l, n), StartOf(n, l.pattern, u, step))
    <3>1. 2 * (n * G) \in Int
      BY <1>6, <2>1
    <3> QED BY <2>6, <3>1 DEF Same
  <2> HIDE DEF K, d, s, u, step
  <2>9. Same(K + CircuitAngle(l, n), K + StartOf(n, l.pattern, u, step))
    BY <1>8, <2>7, <2>8, SameRefl, SameAdd
  <2>10. K + CircuitAngle(l, n) \in Int /\ K + StartOf(n, l.pattern, u, step) \in Int
    BY <1>8, <2>7
  <2>11. (K + CircuitAngle(l, n)) % Turn = (K + StartOf(n, l.pattern, u, step)) % Turn
    BY <2>9, <2>10, SameMod
  <2> QED BY <2>5, <2>11 DEF OnMandrel
<1>10. S = StartAngles(K, l.pattern, u, step, N)
  <2> HIDE DEF angleOf, K, u, step, S
  <2> QED BY <1>5, <1>9 DEF Circuits, StartAngles
<1>11. EvenlySpaced(StartAngles(K, l.pattern, u, step, N), N)
  <2> HIDE DEF K
  <2>1. l.winding.circuits % l.pattern = 0 /\ ValidLock(l, l.lock) /\ l.lock \in Nat
    BY <1>1, <1>6 DEF Coverable
  <2> HIDE DEF l
  <2> QED BY <1>1, <1>8, <2>1, ValidLockCovers
<1> QED BY <1>10, <1>11

\* What validate_helical_layer accepts covers the mandrel: in each direction and at
\* every station the fibre crosses at as many evenly spaced angles as there are
\* circuits, whatever the surface, the leads, the lock, the skip index and the
\* pattern.
THEOREM AcceptedLayersCover == Spec => []FullCoverage
<1>1. Track /\ PlannerInv => FullCoverage
  <2> SUFFICES ASSUME Track, PlannerInv, phase = "zero", layer.kind = "helical",
                      NEW back \in BOOLEAN, NEW z \in {p[2] : p \in {q \in laid : q[1] = back}}
               PROVE  EvenlySpaced({p[3] : p \in {q \in laid : q[1] = back /\ q[2] = z}},
                                   layer.winding.circuits)
    BY DEF FullCoverage
  <2>1. TrackComplete
    BY DEF Track
  <2>2. surface \in Surfaces /\ offset.mandrel \in Int
    BY PlannerAssumption DEF PlannerInv, TypeOK
  <2> QED BY <2>1, <2>2, CompleteTrackCovers
<1> QED BY <1>1, TrackHolds, PlannerInvHolds, PTL
====
