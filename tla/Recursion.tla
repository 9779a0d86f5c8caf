------------------------------ MODULE Recursion ------------------------------
(***************************************************************************)
(* Induction and recursion over the naturals in a form whose facts are     *)
(* about sets and functions: the property to prove is the set of the       *)
(* numbers that have it, and the step of a recursion is a function.  Then  *)
(* what the loops of module Lists compute: the lemmas with which the loops *)
(* of the code are followed turn by turn.                                  *)
(***************************************************************************)
EXTENDS Lists, WellFoundedInduction, TLAPS

\* A set of naturals that is not empty has a least element.
LEMMA LeastNatural ==
    ASSUME NEW T \in SUBSET Nat, T # {}
    PROVE  \E x \in T : \A y \in T : x <= y
<1> DEFINE R == OpToRel(<, Nat)
<1>1. IsWellFoundedOn(R, Nat)
  BY NatLessThanWellFounded, Zenon
<1>2. \A x, y \in Nat : <<x, y>> \in R <=> x < y
  BY DEF OpToRel
<1> HIDE DEF R
<1>3. PICK x \in T : \A y \in T : ~(<<y, x>> \in R)
  BY <1>1, WFMin
<1>4. ASSUME NEW y \in T
      PROVE  x <= y
  <2>1. x \in Nat /\ y \in Nat /\ ~(y < x)
    BY <1>2, <1>3
  <2> QED
    BY <2>1
<1> QED
  BY <1>4

\* A set that holds 0 and the successor of each of its numbers holds them all.
LEMMA SetInduction ==
    ASSUME NEW S, 0 \in S, \A n \in Nat : n \in S => n + 1 \in S
    PROVE  \A n \in Nat : n \in S
<1> SUFFICES ASSUME Nat \ S # {} PROVE FALSE
  OBVIOUS
<1>1. PICK x \in Nat \ S : \A y \in Nat \ S : x <= y
  BY LeastNatural
<1>2. x # 0 /\ x - 1 \in Nat /\ x - 1 \in S
  BY <1>1
<1> QED
  BY <1>1, <1>2

\* The same up to a bound.
LEMMA BoundedInduction ==
    ASSUME NEW m \in Nat, NEW S, 0 \in S,
           \A n \in 0..(m - 1) : n \in S => n + 1 \in S
    PROVE  \A n \in 0..m : n \in S
<1> DEFINE T == {n \in Nat : n <= m => n \in S}
<1>1. 0 \in T
  OBVIOUS
<1>2. \A n \in Nat : n \in T => n + 1 \in T
  OBVIOUS
<1>3. \A n \in Nat : n \in T
  <2> HIDE DEF T
  <2> QED
    BY <1>1, <1>2, SetInduction
<1> QED
  BY <1>3

\* A function on 0..n that starts with d and goes on by step.
Attempt(f, n, D, d, step) ==
    /\ f \in [0..n -> D]
    /\ f[0] = d
    /\ \A k \in 0..(n - 1) : f[k + 1] = step[<<k, f[k]>>]

LEMMA AttemptExtends ==
    ASSUME NEW D, NEW d \in D, NEW step \in [Nat \X D -> D], NEW n \in Nat,
           NEW f, Attempt(f, n, D, d, step)
    PROVE  \E g : Attempt(g, n + 1, D, d, step)
<1> DEFINE g == [k \in 0..(n + 1) |-> IF k = n + 1 THEN step[<<n, f[n]>>] ELSE f[k]]
<1>0. f \in [0..n -> D] /\ f[0] = d
  BY DEF Attempt
<1>1. g \in [0..(n + 1) -> D]
  BY <1>0
<1>2. g[0] = d
  BY <1>0
<1>3. \A k \in 0..n : g[k] = f[k]
  OBVIOUS
<1>4. g[n + 1] = step[<<n, f[n]>>]
  OBVIOUS
<1> HIDE DEF g
<1>5. ASSUME NEW k \in 0..n
      PROVE  g[k + 1] = step[<<k, g[k]>>]
  <2>1. CASE k = n
    BY <1>3, <1>4, <2>1, Zenon
  <2>2. CASE k \in 0..(n - 1)
    <3>1. k + 1 \in 0..n /\ f[k + 1] = step[<<k, f[k]>>]
      BY <2>2 DEF Attempt
    <3> QED
      BY <1>3, <3>1, Zenon
  <2> QED
    BY <2>1, <2>2
<1>6. (n + 1) - 1 = n
  OBVIOUS
<1> QED
  BY <1>1, <1>2, <1>5, <1>6 DEF Attempt

LEMMA AttemptsAgree ==
    ASSUME NEW D, NEW d, NEW step, NEW m \in Nat, NEW n \in Nat, m <= n,
           NEW f, Attempt(f, m, D, d, step), NEW g, Attempt(g, n, D, d, step)
    PROVE  f[m] = g[m]
<1> DEFINE S == {k \in Nat : f[k] = g[k]}
<1>1. 0 \in S
  BY DEF Attempt
<1>2. ASSUME NEW k \in 0..(m - 1), k \in S
      PROVE  k + 1 \in S
  <2>1. k \in 0..(n - 1) /\ k + 1 \in Nat /\ f[k] = g[k]
    BY <1>2
  <2>2. f[k + 1] = step[<<k, f[k]>>] /\ g[k + 1] = step[<<k, g[k]>>]
    BY <2>1 DEF Attempt
  <2> QED
    BY <2>1, <2>2
<1>3. \A k \in 0..m : k \in S
  <2> HIDE DEF S
  <2> QED
    BY <1>1, <1>2, BoundedInduction
<1> QED
  BY <1>3

\* A definition by recursion on the naturals defines a function.
Recurs(f, D, d, step) ==
    /\ f \in [Nat -> D]
    /\ f = [n \in Nat |-> IF n = 0 THEN d ELSE step[<<n - 1, f[n - 1]>>]]

LEMMA RecursionDefines ==
    ASSUME NEW D, NEW d \in D, NEW step \in [Nat \X D -> D]
    PROVE  \E f : Recurs(f, D, d, step)
<1> DEFINE S == {n \in Nat : \E f : Attempt(f, n, D, d, step)}
<1>1. 0 \in S
  <2> DEFINE only == [k \in 0..0 |-> d]
  <2>1. only \in [0..0 -> D] /\ only[0] = d /\ 0..(0 - 1) = {}
    OBVIOUS
  <2> HIDE DEF only
  <2>2. Attempt(only, 0, D, d, step)
    BY <2>1 DEF Attempt
  <2> QED
    BY <2>1, <2>2
<1>2. ASSUME NEW n \in Nat, n \in S
      PROVE  n + 1 \in S
  <2>1. PICK f : Attempt(f, n, D, d, step)
    BY <1>2
  <2>2. \E g : Attempt(g, n + 1, D, d, step)
    BY <2>1, AttemptExtends
  <2>3. n + 1 \in Nat
    OBVIOUS
  <2> QED
    BY <2>2, <2>3, Zenon
<1>3. \A n \in Nat : \E f : Attempt(f, n, D, d, step)
  <2>1. \A n \in Nat : n \in S
    <3> HIDE DEF S
    <3> QED
      BY <1>1, <1>2, SetInduction
  <2> QED
    BY <2>1
<1> DEFINE A(n) == CHOOSE f : Attempt(f, n, D, d, step)
           F == [n \in Nat |-> A(n)[n]]
<1>4. \A n \in Nat : Attempt(A(n), n, D, d, step)
  BY <1>3
<1> HIDE DEF A
<1>5. F \in [Nat -> D]
  <2>1. \A n \in Nat : A(n)[n] \in D
    BY <1>4 DEF Attempt
  <2> QED
    BY <2>1
<1>6. F[0] = d
  BY <1>4 DEF Attempt
<1>7. ASSUME NEW n \in Nat, n # 0
      PROVE  F[n] = step[<<n - 1, F[n - 1]>>]
  <2>1. n - 1 \in Nat /\ (n - 1) + 1 = n /\ n - 1 \in 0..(n - 1) /\ n - 1 <= n
    BY <1>7
  <2>2. A(n)[n] = step[<<n - 1, A(n)[n - 1]>>]
    BY <1>4, <2>1 DEF Attempt
  <2>3. A(n - 1)[n - 1] = A(n)[n - 1]
    <3> DEFINE m == n - 1  f == A(m)  h == A(n)
    <3>1. m \in Nat /\ m <= n
      BY <2>1
    <3>2. Attempt(f, m, D, d, step)
      BY <1>4, <3>1, Zenon
    <3>3. Attempt(h, n, D, d, step)
      BY <1>4
    <3> HIDE DEF m, f, h
    <3>4. f[m] = h[m]
      BY <3>1, <3>2, <3>3, AttemptsAgree
    <3> QED
      BY <3>4 DEF m, f, h
  <2>4. F[n] = A(n)[n] /\ F[n - 1] = A(n - 1)[n - 1]
    BY <2>1, Zenon
  <2> QED
    BY <2>2, <2>3, <2>4, Zenon
<1>8. F = [n \in Nat |-> IF n = 0 THEN d ELSE step[<<n - 1, F[n - 1]>>]]
  BY <1>6, <1>7
<1> HIDE DEF F
<1>9. Recurs(F, D, d, step)
  BY <1>5, <1>8 DEF Recurs
<1> QED
  BY <1>9

\* The same up to a bound.
RecursTo(f, m, D, d, step) ==
    /\ f \in [0..m -> D]
    /\ f = [n \in 0..m |-> IF n = 0 THEN d ELSE step[<<n - 1, f[n - 1]>>]]

LEMMA BoundedRecursion ==
    ASSUME NEW D, NEW d \in D, NEW m \in Nat, NEW step \in [(0..(m - 1)) \X D -> D]
    PROVE  \E f : RecursTo(f, m, D, d, step)
<1> DEFINE total == [p \in Nat \X D |-> IF p[1] \in 0..(m - 1) THEN step[p] ELSE d]
<1>1. total \in [Nat \X D -> D]
  <2>1. ASSUME NEW p \in Nat \X D
        PROVE  (IF p[1] \in 0..(m - 1) THEN step[p] ELSE d) \in D
    <3>1. p[1] \in 0..(m - 1) => p \in (0..(m - 1)) \X D
      OBVIOUS
    <3> QED
      BY <3>1
  <2> QED
    BY <2>1
<1>2. \A n \in 0..(m - 1), a \in D : total[<<n, a>>] = step[<<n, a>>]
  OBVIOUS
<1> HIDE DEF total
<1>3. PICK f : Recurs(f, D, d, total)
  BY <1>1, RecursionDefines
<1> DEFINE g == [n \in 0..m |-> f[n]]
<1>4. g \in [0..m -> D]
  BY <1>3 DEF Recurs
<1>5. ASSUME NEW n \in 0..m
      PROVE  g[n] = IF n = 0 THEN d ELSE step[<<n - 1, g[n - 1]>>]
  <2>1. g[n] = f[n] /\ n \in Nat
    OBVIOUS
  <2>2. f[n] = IF n = 0 THEN d ELSE total[<<n - 1, f[n - 1]>>]
    BY <1>3, <2>1 DEF Recurs
  <2>3. CASE n = 0
    BY <2>1, <2>2, <2>3
  <2>4. CASE n # 0
    <3>1. n - 1 \in 0..(m - 1) /\ n - 1 \in 0..m /\ n - 1 \in Nat
      BY <2>4
    <3>2. g[n - 1] = f[n - 1] /\ f[n - 1] \in D
      BY <1>3, <3>1 DEF Recurs
    <3>3. total[<<n - 1, f[n - 1]>>] = step[<<n - 1, f[n - 1]>>]
      BY <1>2, <3>1, <3>2, Zenon
    <3> QED
      BY <2>1, <2>2, <2>4, <3>2, <3>3, Zenon
  <2> QED
    BY <2>3, <2>4
<1>6. g = [n \in 0..m |-> IF n = 0 THEN d ELSE step[<<n - 1, g[n - 1]>>]]
  <2>1. g = [n \in 0..m |-> g[n]]
    BY <1>4
  <2> HIDE DEF g
  <2> QED
    BY <1>5, <2>1, Zenon
<1> HIDE DEF g
<1> QED
  BY <1>4, <1>6 DEF RecursTo

----------------------------------------------------------------------------
(* Loops over lists                                                        *)

Loop(S, list, places) ==
    Len(list) \in Nat /\ places \subseteq 1..Len(list) /\ \A k \in places : list[k] \in S

Unfolds(S, list, places) ==
    /\ KeptAfter(list, places)[0] = <<>>
    /\ \A n \in Nat : KeptAfter(list, places)[n] \in Seq(S)
    /\ \A n \in Nat : KeptAfter(list, places)[n + 1] =
         IF n + 1 \in places THEN Append(KeptAfter(list, places)[n], list[n + 1])
                             ELSE KeptAfter(list, places)[n]

\* One turn of the loop.
LEMMA KeptUnfolds ==
    ASSUME NEW S, NEW list, NEW places, Loop(S, list, places)
    PROVE  Unfolds(S, list, places)
<1>0. \A k \in places : list[k] \in S
  BY DEF Loop
<1> DEFINE D == Seq(S)
           Turn(n, a) == IF n + 1 \in places THEN Append(a, list[n + 1]) ELSE a
           turn == [p \in Nat \X D |-> Turn(p[1], p[2])]
           IsKept(f) ==
             f = [n \in Nat |-> IF n = 0 THEN <<>>
                                ELSE IF n \in places THEN Append(f[n - 1], list[n])
                                                     ELSE f[n - 1]]
<1>1. <<>> \in D
  OBVIOUS
<1>2. \A n \in Nat, a \in D : Turn(n, a) \in D
  BY <1>0
<1>3. turn \in [Nat \X D -> D] /\ \A n \in Nat, a \in D : turn[<<n, a>>] = Turn(n, a)
  <2> HIDE DEF D, Turn
  <2>1. ASSUME NEW p \in Nat \X D
        PROVE  Turn(p[1], p[2]) \in D
    <3>1. p[1] \in Nat /\ p[2] \in D
      OBVIOUS
    <3> QED
      BY <1>2, <3>1, Zenon
  <2> QED
    BY <2>1
<1> DEFINE none == <<>>
<1>4. ASSUME NEW f, Recurs(f, D, none, turn)
      PROVE  IsKept(f) /\ \A n \in Nat : f[n] \in D
  <2>1. \A n \in Nat : f[n] \in D
    BY <1>4 DEF Recurs
  <2>2. ASSUME NEW n \in Nat
        PROVE  f[n] = IF n = 0 THEN none
                      ELSE IF n \in places THEN Append(f[n - 1], list[n]) ELSE f[n - 1]
    <3> HIDE DEF none
    <3>1. f[n] = IF n = 0 THEN none ELSE turn[<<n - 1, f[n - 1]>>]
      BY <1>4 DEF Recurs
    <3>2. CASE n = 0
      BY <3>1, <3>2
    <3>3. CASE n # 0
      <4>1. n - 1 \in Nat /\ f[n - 1] \in D /\ (n - 1) + 1 = n
        BY <2>1, <3>3
      <4>2. turn[<<n - 1, f[n - 1]>>] = Turn(n - 1, f[n - 1])
        <5> HIDE DEF turn, Turn, D
        <5> QED
          BY <1>3, <4>1, Zenon
      <4> HIDE DEF turn, D
      <4>3. Turn(n - 1, f[n - 1])
              = IF n \in places THEN Append(f[n - 1], list[n]) ELSE f[n - 1]
        BY <4>1
      <4> QED
        BY <3>1, <3>3, <4>2, <4>3, Zenon
    <3> QED
      BY <3>2, <3>3
  <2>3. f = [n \in Nat |-> f[n]]
    BY <1>4 DEF Recurs
  <2>4. f = [n \in Nat |-> IF n = 0 THEN none
                           ELSE IF n \in places THEN Append(f[n - 1], list[n])
                                                ELSE f[n - 1]]
    BY <2>2, <2>3, Zenon
  <2> QED
    BY <2>1, <2>4
<1>5. \E f : IsKept(f)
  <2> HIDE DEF D, turn, IsKept, none
  <2>0. none \in D
    BY <1>1 DEF none
  <2>1. PICK f : Recurs(f, D, none, turn)
    BY <1>3, <2>0, RecursionDefines
  <2> QED
    BY <1>4, <2>1
<1> DEFINE K == KeptAfter(list, places)
<1>6. IsKept(K)
  <2>1. K = CHOOSE f : IsKept(f)
    BY DEF KeptAfter
  <2> HIDE DEF IsKept, K
  <2> QED
    BY <1>5, <2>1
<1> HIDE DEF K
<1>7. K[0] = <<>>
  BY <1>6
<1>8. ASSUME NEW n \in Nat
      PROVE  K[n + 1] = IF n + 1 \in places THEN Append(K[n], list[n + 1]) ELSE K[n]
  <2>1. n + 1 \in Nat /\ n + 1 # 0 /\ (n + 1) - 1 = n
    OBVIOUS
  <2>2. K[n + 1] = IF n + 1 \in places THEN Append(K[(n + 1) - 1], list[n + 1])
                                       ELSE K[(n + 1) - 1]
    BY <1>6, <2>1
  <2> QED
    BY <2>1, <2>2, Zenon
<1>9. \A n \in Nat : K[n] \in Seq(S)
  <2> DEFINE T == {n \in Nat : K[n] \in Seq(S)}
  <2>1. 0 \in T
    <3>1. 0 \in Nat /\ K[0] \in Seq(S)
      BY <1>1, <1>7
    <3> QED
      BY <3>1, Zenon
  <2>2. ASSUME NEW n \in Nat, n \in T
        PROVE  n + 1 \in T
    <3>1. n + 1 \in Nat /\ K[n] \in Seq(S)
      BY <2>2
    <3>2. CASE n + 1 \in places
      <4>1. list[n + 1] \in S
        BY <1>0, <3>2
      <4>2. Append(K[n], list[n + 1]) \in Seq(S)
        BY <3>1, <4>1
      <4> QED
        BY <1>8, <3>1, <3>2, <4>2, Zenon
    <3>3. CASE n + 1 \notin places
      BY <1>8, <3>1, <3>3, Zenon
    <3> QED
      BY <3>2, <3>3
  <2>3. \A n \in Nat : n \in T
    <3> HIDE DEF T
    <3> QED
      BY <2>1, <2>2, SetInduction
  <2> QED
    BY <2>3
<1> QED
  BY <1>7, <1>8, <1>9, Zenon DEF K, Unfolds

\* What is kept after m turns depends on the first m entries.
SameFor(list, places, other, others, m) ==
    \A k \in 1..m : (k \in places <=> k \in others) /\ list[k] = other[k]

LEMMA KeptIsLocal ==
    ASSUME NEW S, NEW list, NEW places, Unfolds(S, list, places),
           NEW other, NEW others, Unfolds(S, other, others),
           NEW m \in Nat, SameFor(list, places, other, others, m)
    PROVE  KeptAfter(list, places)[m] = KeptAfter(other, others)[m]
<1> DEFINE K == KeptAfter(list, places)
           L == KeptAfter(other, others)
           T == {n \in Nat : K[n] = L[n]}
<1>1. K[0] = <<>> /\ \A n \in Nat : K[n + 1] = IF n + 1 \in places THEN Append(K[n], list[n + 1]) ELSE K[n]
  BY Zenon DEF Unfolds
<1>2. L[0] = <<>> /\ \A n \in Nat : L[n + 1] = IF n + 1 \in others THEN Append(L[n], other[n + 1]) ELSE L[n]
  BY Zenon DEF Unfolds
<1> HIDE DEF K, L
<1>3. 0 \in T
  BY <1>1, <1>2
<1>4. ASSUME NEW n \in 0..(m - 1), n \in T
      PROVE  n + 1 \in T
  <2>1. n \in Nat /\ n + 1 \in Nat /\ n + 1 \in 1..m /\ K[n] = L[n]
    BY <1>4
  <2>2. K[n + 1] = IF n + 1 \in places THEN Append(K[n], list[n + 1]) ELSE K[n]
    BY <1>1, <2>1
  <2>3. L[n + 1] = IF n + 1 \in others THEN Append(L[n], other[n + 1]) ELSE L[n]
    BY <1>2, <2>1
  <2>4. (n + 1 \in places <=> n + 1 \in others) /\ list[n + 1] = other[n + 1]
    BY <2>1, Zenon DEF SameFor
  <2>5. K[n + 1] = L[n + 1]
    BY <2>1, <2>2, <2>3, <2>4, Zenon
  <2> QED
    BY <2>1, <2>5
<1>5. \A n \in 0..m : n \in T
  <2> HIDE DEF T
  <2> QED
    BY <1>3, <1>4, BoundedInduction
<1> QED
  BY <1>5 DEF K, L

\* The places of a list that hold something good.
Places(list, Good) == {k \in DOMAIN list : list[k] \in Good}

\* A filter sees one entry at a time.
LEMMA KeptOfAppend ==
    ASSUME NEW S, NEW list \in Seq(S), NEW v \in S, NEW Good
    PROVE  Kept(Append(list, v), Places(Append(list, v), Good)) =
             IF v \in Good THEN Append(Kept(list, Places(list, Good)), v)
                           ELSE Kept(list, Places(list, Good))
<1> DEFINE more == Append(list, v)
           places == Places(list, Good)
           others == Places(more, Good)
           m == Len(list)
<1>1. /\ m \in Nat /\ DOMAIN list = 1..m
      /\ more \in Seq(S) /\ Len(more) = m + 1 /\ DOMAIN more = 1..(m + 1)
      /\ more[m + 1] = v /\ \A k \in 1..m : list[k] = more[k]
      /\ \A k \in 1..m : list[k] \in S
      /\ \A k \in 1..(m + 1) : more[k] \in S
  OBVIOUS
<1> HIDE DEF more, m
<1>2. /\ places \subseteq 1..m /\ others \subseteq 1..(m + 1)
      /\ \A k \in 1..m : k \in places <=> k \in others
      /\ m + 1 \in others <=> v \in Good
  BY <1>1 DEF Places
<1> HIDE DEF places, others
<1>3. Unfolds(S, list, places) /\ Unfolds(S, more, others)
  <2>1. Loop(S, list, places) /\ Loop(S, more, others)
    BY <1>1, <1>2 DEF Loop, m
  <2> QED
    BY <2>1, KeptUnfolds
<1>4. KeptAfter(list, places)[m] = KeptAfter(more, others)[m]
  <2>1. SameFor(list, places, more, others, m)
    BY <1>1, <1>2 DEF SameFor
  <2> QED
    BY <1>1, <1>3, <2>1, KeptIsLocal
<1>9. KeptAfter(more, others)[m + 1] =
        IF m + 1 \in others THEN Append(KeptAfter(more, others)[m], more[m + 1])
                            ELSE KeptAfter(more, others)[m]
  BY <1>1, <1>3, Zenon DEF Unfolds
<1>5. /\ Kept(list, places) = KeptAfter(list, places)[m]
      /\ Kept(more, others) = KeptAfter(more, others)[m + 1]
  BY <1>1, Zenon DEF Kept, m
<1>6. Kept(more, others) = IF v \in Good THEN Append(Kept(list, places), v) ELSE Kept(list, places)
  BY <1>1, <1>2, <1>4, <1>5, <1>9, Zenon
<1> QED
  BY <1>6 DEF more, places, others

LEMMA KeptOfNone ==
    ASSUME NEW Good
    PROVE  Kept(<<>>, Places(<<>>, Good)) = <<>>
<1> DEFINE none == <<>>  S == {}
<1>1. none \in Seq(S) /\ Len(none) = 0 /\ DOMAIN none = 1..Len(none)
  OBVIOUS
<1>2. Places(none, Good) = {}
  BY <1>1 DEF Places
<1>3. KeptAfter(none, Places(none, Good))[0] = <<>>
  <2> HIDE DEF none, S
  <2>1. Loop(S, none, Places(none, Good))
    BY <1>1, <1>2 DEF Loop
  <2>2. Unfolds(S, none, Places(none, Good))
    BY <2>1, KeptUnfolds
  <2> QED
    BY <2>2, Zenon DEF Unfolds
<1> QED
  BY <1>1, <1>3 DEF Kept



\* What is kept are the entries at the places, and a turn takes nothing back.
LEMMA KeptGrows ==
    ASSUME NEW S, NEW list, NEW places, Unfolds(S, list, places),
           NEW m \in Nat, NEW n \in Nat
    PROVE  Len(KeptAfter(list, places)[m]) <= Len(KeptAfter(list, places)[m + n])
<1> DEFINE K == KeptAfter(list, places)
           T == {i \in Nat : Len(K[m]) <= Len(K[m + i])}
<1>1. /\ \A i \in Nat : K[i] \in Seq(S)
      /\ \A i \in Nat : K[i + 1] = IF i + 1 \in places THEN Append(K[i], list[i + 1]) ELSE K[i]
  BY Zenon DEF Unfolds
<1> HIDE DEF K
<1>2. \A i \in Nat : Len(K[i]) \in Nat
  BY <1>1
<1>3. 0 \in T
  BY <1>2
<1>4. ASSUME NEW i \in Nat, i \in T
      PROVE  i + 1 \in T
  <2> DEFINE j == m + i
  <2>1. j \in Nat /\ m + (i + 1) = j + 1 /\ i + 1 \in Nat
    OBVIOUS
  <2> HIDE DEF j
  <2>2. K[j] \in Seq(S) /\ K[j + 1] = IF j + 1 \in places THEN Append(K[j], list[j + 1]) ELSE K[j]
    BY <1>1, <2>1, Zenon
  <2>3. Len(K[j + 1]) >= Len(K[j])
    BY <2>2
  <2>4. Len(K[m]) <= Len(K[j]) /\ Len(K[j]) \in Nat /\ Len(K[j + 1]) \in Nat /\ Len(K[m]) \in Nat
    BY <1>2, <1>4, <2>1 DEF j
  <2> QED
    BY <2>1, <2>3, <2>4
<1>5. \A i \in Nat : i \in T
  <2> HIDE DEF T
  <2> QED
    BY <1>3, <1>4, SetInduction
<1> QED
  BY <1>5 DEF K

\* Sums.
IsSum(sum, numbers) ==
    /\ sum \in [0..Len(numbers) -> Int] /\ sum[0] = 0
    /\ \A n \in 0..(Len(numbers) - 1) : sum[n + 1] = sum[n] + numbers[n + 1]

LEMMA SumUnfolds ==
    ASSUME NEW numbers \in Seq(Int)
    PROVE  IsSum(SumAfter(numbers), numbers)
<1> DEFINE m == Len(numbers)
           step == [p \in (0..(m - 1)) \X Int |-> p[2] + numbers[p[1] + 1]]
           IsIt(f) == f = [n \in 0..m |-> IF n = 0 THEN 0 ELSE f[n - 1] + numbers[n]]
<1>1. m \in Nat /\ \A n \in 1..m : numbers[n] \in Int
  OBVIOUS
<1> HIDE DEF m
<1>2. step \in [(0..(m - 1)) \X Int -> Int]
  BY <1>1
<1>3. \A n \in 0..(m - 1), a \in Int : step[<<n, a>>] = a + numbers[n + 1]
  OBVIOUS
<1> HIDE DEF step
<1>4. PICK f : RecursTo(f, m, Int, 0, step)
  <2> DEFINE D == Int  zero == 0
  <2>1. m \in Nat /\ zero \in D /\ step \in [(0..(m - 1)) \X D -> D]
    BY <1>1, <1>2
  <2> HIDE DEF D, zero
  <2>2. \E f : RecursTo(f, m, D, zero, step)
    BY <2>1, BoundedRecursion, Zenon
  <2> QED
    BY <2>2 DEF D, zero
<1>5. ASSUME NEW n \in 0..m
      PROVE  f[n] = IF n = 0 THEN 0 ELSE f[n - 1] + numbers[n]
  <2>1. f[n] = IF n = 0 THEN 0 ELSE step[<<n - 1, f[n - 1]>>]
    BY <1>4 DEF RecursTo
  <2>2. CASE n # 0
    <3>0. n - 1 \in 0..(m - 1) /\ n - 1 \in 0..m /\ (n - 1) + 1 = n
      BY <1>1, <2>2
    <3>1. n - 1 \in 0..(m - 1) /\ f[n - 1] \in Int /\ (n - 1) + 1 = n
      BY <1>4, <3>0 DEF RecursTo
    <3>2. step[<<n - 1, f[n - 1]>>] = f[n - 1] + numbers[(n - 1) + 1]
      BY <1>3, <3>1, Zenon
    <3> QED
      BY <2>1, <2>2, <3>1, <3>2, Zenon
  <2> QED
    BY <2>1, <2>2
<1>6. IsIt(f)
  <2>1. f = [n \in 0..m |-> f[n]]
    BY <1>4 DEF RecursTo
  <2> QED
    BY <1>5, <2>1, Zenon
<1>7. IsIt(SumAfter(numbers))
  <2>1. SumAfter(numbers) = CHOOSE g : IsIt(g)
    BY DEF SumAfter, m
  <2> HIDE DEF IsIt
  <2> QED
    BY <1>6, <2>1
<1> DEFINE s == SumAfter(numbers)
<1> HIDE DEF s
<1>8. s = [n \in 0..m |-> IF n = 0 THEN 0 ELSE s[n - 1] + numbers[n]]
  BY <1>7 DEF s
<1>9. s[0] = 0 /\ \A n \in 0..(m - 1) : s[n + 1] = s[n] + numbers[n + 1]
  <2>1. s[0] = 0
    BY <1>1, <1>8
  <2>2. ASSUME NEW n \in 0..(m - 1)
        PROVE  s[n + 1] = s[n] + numbers[n + 1]
    <3>1. n + 1 \in 0..m /\ n + 1 # 0 /\ (n + 1) - 1 = n
      BY <1>1
    <3>2. s[n + 1] = s[(n + 1) - 1] + numbers[n + 1]
      BY <1>8, <3>1
    <3> QED
      BY <3>1, <3>2, Zenon
  <2> QED
    BY <2>1, <2>2
<1>10. \A n \in 0..m : s[n] \in Int
  <2> DEFINE T == {n \in 0..m : s[n] \in Int}
  <2>1. 0 \in T
    BY <1>1, <1>9
  <2>2. ASSUME NEW n \in 0..(m - 1), n \in T
        PROVE  n + 1 \in T
    <3>1. n + 1 \in 0..m /\ n + 1 \in 1..m /\ s[n] \in Int
      BY <1>1, <2>2
    <3>2. numbers[n + 1] \in Int
      BY <1>1, <3>1
    <3> QED
      BY <1>9, <3>1, <3>2
  <2>3. \A n \in 0..m : n \in T
    <3> HIDE DEF T
    <3> QED
      BY <1>1, <2>1, <2>2, BoundedInduction
  <2> QED
    BY <2>3
<1>11. s \in [0..m -> Int]
  <2>1. s = [n \in 0..m |-> s[n]]
    BY <1>8
  <2> QED
    BY <1>10, <2>1
<1> QED
  BY <1>9, <1>11 DEF IsSum, s, m

\* A sum of naturals does not fall.
LEMMA SumGrows ==
    ASSUME NEW numbers \in Seq(Nat), NEW sum, IsSum(sum, numbers)
    PROVE  \A n \in 0..Len(numbers) :
             sum[n] \in Nat /\ \A k \in 0..n : sum[k] <= sum[n]
<1> DEFINE m == Len(numbers)
           T == {n \in 0..m : sum[n] \in Nat /\ \A k \in 0..n : sum[k] <= sum[n]}
<1>1. m \in Nat /\ \A n \in 1..m : numbers[n] \in Nat
  OBVIOUS
<1>2. /\ sum \in [0..m -> Int] /\ sum[0] = 0
      /\ \A n \in 0..(m - 1) : sum[n + 1] = sum[n] + numbers[n + 1]
  BY DEF IsSum
<1> HIDE DEF m
<1>3. 0 \in T
  BY <1>1, <1>2
<1>4. ASSUME NEW n \in 0..(m - 1), n \in T
      PROVE  n + 1 \in T
  <2>1. n + 1 \in 0..m /\ n + 1 \in 1..m /\ sum[n] \in Nat
    BY <1>1, <1>4
  <2>2. numbers[n + 1] \in Nat /\ sum[n + 1] = sum[n] + numbers[n + 1]
    BY <1>1, <1>2, <2>1
  <2>3. ASSUME NEW k \in 0..(n + 1)
        PROVE  sum[k] <= sum[n + 1]
    <3>1. CASE k = n + 1
      BY <2>1, <2>2, <3>1
    <3>2. CASE k \in 0..n
      <4>0. k \in 0..m
        BY <1>1, <3>2
      <4>1. sum[k] <= sum[n] /\ sum[k] \in Int
        BY <1>2, <1>4, <3>2, <4>0
      <4> QED
        BY <2>1, <2>2, <4>1
    <3> QED
      BY <3>1, <3>2
  <2> QED
    BY <2>1, <2>2, <2>3
<1>5. \A n \in 0..m : n \in T
  <2> HIDE DEF T
  <2> QED
    BY <1>1, <1>3, <1>4, BoundedInduction
<1> QED
  BY <1>5 DEF m

\* Lists written one after another.
IsConcatenation(S, joined, lists) ==
    /\ joined \in [0..Len(lists) -> Seq(S)] /\ joined[0] = <<>>
    /\ \A n \in 0..(Len(lists) - 1) : joined[n + 1] = joined[n] \o lists[n + 1]

LEMMA ConcatenationUnfolds ==
    ASSUME NEW S, NEW lists \in Seq(Seq(S))
    PROVE  IsConcatenation(S, ConcatenatedAfter(lists), lists)
<1> DEFINE m == Len(lists)
           D == Seq(S)
           none == <<>>
           step == [p \in (0..(m - 1)) \X D |-> p[2] \o lists[p[1] + 1]]
           IsIt(f) == f = [n \in 0..m |-> IF n = 0 THEN none ELSE f[n - 1] \o lists[n]]
<1>1. m \in Nat /\ (\A n \in 1..m : lists[n] \in D) /\ none \in D
  OBVIOUS
<1>2. \A a, b \in D : a \o b \in D
  OBVIOUS
<1> HIDE DEF m, D, none
<1>3. step \in [(0..(m - 1)) \X D -> D]
  <2>1. ASSUME NEW p \in (0..(m - 1)) \X D
        PROVE  p[2] \o lists[p[1] + 1] \in D
    <3>1. p[2] \in D /\ p[1] + 1 \in 1..m
      BY <1>1
    <3> QED
      BY <1>1, <1>2, <3>1
  <2> QED
    BY <2>1
<1>4. \A n \in 0..(m - 1), a \in D : step[<<n, a>>] = a \o lists[n + 1]
  OBVIOUS
<1> HIDE DEF step
<1>5. PICK f : RecursTo(f, m, D, none, step)
  BY <1>1, <1>3, BoundedRecursion
<1>6. ASSUME NEW n \in 0..m
      PROVE  f[n] = IF n = 0 THEN none ELSE f[n - 1] \o lists[n]
  <2>1. f[n] = IF n = 0 THEN none ELSE step[<<n - 1, f[n - 1]>>]
    BY <1>5 DEF RecursTo
  <2>2. CASE n # 0
    <3>1. n - 1 \in 0..(m - 1) /\ n - 1 \in 0..m /\ (n - 1) + 1 = n
      BY <1>1, <2>2
    <3>2. f[n - 1] \in D
      BY <1>5, <3>1 DEF RecursTo
    <3>3. step[<<n - 1, f[n - 1]>>] = f[n - 1] \o lists[(n - 1) + 1]
      BY <1>4, <3>1, <3>2, Zenon
    <3> QED
      BY <2>1, <2>2, <3>1, <3>3, Zenon
  <2> QED
    BY <2>1, <2>2
<1>7. IsIt(f)
  <2>1. f = [n \in 0..m |-> f[n]]
    BY <1>5 DEF RecursTo
  <2> QED
    BY <1>6, <2>1, Zenon
<1>8. IsIt(ConcatenatedAfter(lists))
  <2>1. ConcatenatedAfter(lists) = CHOOSE g : IsIt(g)
    BY DEF ConcatenatedAfter, m, none
  <2> HIDE DEF IsIt
  <2> QED
    BY <1>7, <2>1
<1> DEFINE s == ConcatenatedAfter(lists)
<1> HIDE DEF s
<1>9. s = [n \in 0..m |-> IF n = 0 THEN none ELSE s[n - 1] \o lists[n]]
  BY <1>8 DEF s
<1>10. s[0] = none /\ \A n \in 0..(m - 1) : s[n + 1] = s[n] \o lists[n + 1]
  <2>1. s[0] = none
    BY <1>1, <1>9
  <2>2. ASSUME NEW n \in 0..(m - 1)
        PROVE  s[n + 1] = s[n] \o lists[n + 1]
    <3>1. n + 1 \in 0..m /\ n + 1 # 0 /\ (n + 1) - 1 = n
      BY <1>1
    <3>2. s[n + 1] = s[(n + 1) - 1] \o lists[n + 1]
      BY <1>9, <3>1
    <3> QED
      BY <3>1, <3>2, Zenon
  <2> QED
    BY <2>1, <2>2
<1>11. \A n \in 0..m : s[n] \in D
  <2> DEFINE T == {n \in 0..m : s[n] \in D}
  <2>1. 0 \in T
    BY <1>1, <1>10
  <2>2. ASSUME NEW n \in 0..(m - 1), n \in T
        PROVE  n + 1 \in T
    <3>1. n + 1 \in 0..m /\ n + 1 \in 1..m /\ s[n] \in D
      BY <1>1, <2>2
    <3>2. lists[n + 1] \in D /\ s[n + 1] = s[n] \o lists[n + 1]
      BY <1>1, <1>10, <3>1
    <3>3. s[n + 1] \in D
      BY <1>2, <3>1, <3>2, Zenon
    <3> QED
      BY <3>1, <3>3
  <2>3. \A n \in 0..m : n \in T
    <3> HIDE DEF T
    <3> QED
      BY <1>1, <2>1, <2>2, BoundedInduction
  <2> QED
    BY <2>3
<1>12. s \in [0..m -> D]
  <2>1. s = [n \in 0..m |-> s[n]]
    BY <1>9
  <2> QED
    BY <1>11, <2>1
<1> QED
  BY <1>10, <1>12 DEF IsConcatenation, s, m, D, none

\* The part that list n + 1 fills, as the whole and any later part have it.
LEMMA ConcatenationHolds ==
    ASSUME NEW S, NEW lists \in Seq(Seq(S)), NEW joined, IsConcatenation(S, joined, lists),
           NEW m \in 0..Len(lists)
    PROVE  \A n \in m..Len(lists) :
             /\ Len(joined[m]) <= Len(joined[n])
             /\ \A k \in 1..Len(joined[m]) : joined[n][k] = joined[m][k]
<1> DEFINE last == Len(lists) - m
           Holds(n) == /\ Len(joined[m]) <= Len(joined[n])
                       /\ \A k \in 1..Len(joined[m]) : joined[n][k] = joined[m][k]
           T == {i \in Nat : i <= last => Holds(m + i)}
<1>1. /\ m \in Nat /\ Len(lists) \in Nat /\ last \in Nat
      /\ \A n \in 1..Len(lists) : lists[n] \in Seq(S)
  <2>1. Len(lists) \in Nat /\ \A n \in 1..Len(lists) : lists[n] \in Seq(S)
    <3> DEFINE D == Seq(S)
    <3>1. lists \in Seq(D)
      OBVIOUS
    <3> HIDE DEF D
    <3>2. Len(lists) \in Nat /\ \A n \in 1..Len(lists) : lists[n] \in D
      BY <3>1
    <3> QED
      BY <3>2 DEF D
  <2> QED
    BY <2>1
<1>2. /\ \A n \in 0..Len(lists) : joined[n] \in Seq(S) /\ Len(joined[n]) \in Nat
      /\ \A n \in 0..(Len(lists) - 1) : joined[n + 1] = joined[n] \o lists[n + 1]
  <2> DEFINE top == Len(lists)  D == Seq(S)
  <2>1. joined \in [0..top -> D]
    BY DEF IsConcatenation
  <2>2. \A n \in 0..(top - 1) : joined[n + 1] = joined[n] \o lists[n + 1]
    BY Zenon DEF IsConcatenation
  <2>3. \A n \in 0..top : joined[n] \in D
    <3> HIDE DEF top, D
    <3> QED
      BY <2>1
  <2>4. \A a \in D : Len(a) \in Nat
    OBVIOUS
  <2> HIDE DEF D
  <2>5. \A n \in 0..top : joined[n] \in D /\ Len(joined[n]) \in Nat
    BY <2>3, <2>4, Zenon
  <2> QED
    BY <2>2, <2>5 DEF D
<1>3. 0 \in T
  <2>1. m + 0 = m /\ m \in 0..Len(lists) /\ Len(joined[m]) \in Nat
    BY <1>1, <1>2
  <2>2. Holds(m)
    BY <2>1
  <2> HIDE DEF Holds
  <2> QED
    BY <2>1, <2>2
<1>4. ASSUME NEW i \in Nat, i \in T
      PROVE  i + 1 \in T
  <2> SUFFICES ASSUME i + 1 <= last
               PROVE  Holds(m + (i + 1))
    OBVIOUS
  <2> DEFINE j == m + i
  <2>1. /\ j \in 0..(Len(lists) - 1) /\ j \in 0..Len(lists) /\ j + 1 \in 1..Len(lists)
        /\ m + (i + 1) = j + 1 /\ i <= last /\ j + 1 \in 0..Len(lists)
    BY <1>1
  <2>2. Holds(j)
    BY <1>4, <2>1
  <2> HIDE DEF j
  <2>3. joined[j] \in Seq(S) /\ lists[j + 1] \in Seq(S) /\ joined[j + 1] = joined[j] \o lists[j + 1]
    BY <1>1, <1>2, <2>1, Zenon
  <2>4. /\ Len(joined[j + 1]) >= Len(joined[j]) /\ Len(joined[j + 1]) \in Nat
        /\ \A k \in 1..Len(joined[j]) : joined[j + 1][k] = joined[j][k]
    <3> DEFINE a == joined[j]  b == lists[j + 1]  c == joined[j + 1]
    <3>1. a \in Seq(S) /\ b \in Seq(S) /\ c = a \o b
      BY <2>3
    <3> HIDE DEF a, b, c
    <3>2. Len(c) >= Len(a) /\ Len(c) \in Nat /\ \A k \in 1..Len(a) : c[k] = a[k]
      BY <3>1
    <3> QED
      BY <3>2 DEF a, b, c
  <2>5. Len(joined[m]) \in Nat /\ Len(joined[j]) \in Nat
    BY <1>2, <2>1
  <2>6. Holds(j + 1)
    BY <2>2, <2>4, <2>5
  <2> QED
    BY <2>1, <2>6
<1>5. \A i \in Nat : i \in T
  <2> HIDE DEF T
  <2> QED
    BY <1>3, <1>4, SetInduction
<1>6. ASSUME NEW n \in m..Len(lists)
      PROVE  Holds(n)
  <2>1. n - m \in Nat /\ n - m <= last /\ m + (n - m) = n
    BY <1>1
  <2> HIDE DEF Holds
  <2>2. Holds(m + (n - m))
    BY <1>5, <2>1
  <2> QED
    BY <2>1, <2>2
<1> QED
  BY <1>6

=============================================================================
