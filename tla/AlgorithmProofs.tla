-------------------------- MODULE AlgorithmProofs --------------------------
(***************************************************************************)
(* Proofs about the sequential programs that are loops, for inputs of any  *)
(* length: bin packing follows its two heuristics and opens no bin too     *)
(* many, however its sums are rounded; the parenthesis checker reports the *)
(* first offender, accepts what is balanced and misses only '(' that stay  *)
(* open; and fibonacci() returns the number asked for. The first two       *)
(* sections, about induction and sums, serve the permutation programs too. *)
(***************************************************************************)
EXTENDS BinPacking, Parenthesis, Fibonacci, FiniteSetTheorems, SequenceTheorems,
        WellFoundedInduction, TLAPS

-----------------------------------------------------------------------------
(* A nonempty set of natural numbers has a least one. *)
LEMMA LeastNatural ==
  ASSUME NEW T, T \subseteq Nat, T # {}
  PROVE  \E m \in T : \A k \in T : m <= k
<1>1. PICK m \in T : \A k \in T : <<k, m>> \notin OpToRel(<, Nat)
  BY WFMin, NatLessThanWellFounded, Zenon
<1>2. \A k \in T : ~(k < m)
  BY <1>1, Zenon DEF OpToRel
<1> QED
  BY <1>2

-----------------------------------------------------------------------------
(* Induction over the natural numbers, for a set instead of a predicate. *)
LEMMA Induction ==
  ASSUME NEW T, 0 \in T, \A n \in Nat : n \in T => n + 1 \in T
  PROVE  Nat \subseteq T
<1> DEFINE Out == {n \in Nat : n \notin T}
<1>1. SUFFICES ASSUME Out # {}
               PROVE  FALSE
  OBVIOUS
<1>2. PICK m \in Out : \A k \in Out : m <= k
  <2>1. Out \subseteq Nat
    OBVIOUS
  <2> QED
    BY ONLY <1>1, <2>1, LeastNatural
<1>3. m # 0 /\ m \in Nat /\ m \notin T
  BY <1>2
<1>4. m - 1 \in Nat /\ (m - 1) + 1 = m /\ ~(m <= m - 1)
  BY ONLY <1>3
<1>5. m - 1 \in T
  BY <1>2, <1>4
<1> QED
  BY <1>3, <1>4, <1>5

(* A function on the numbers up to n that is given by its first value and  *)
(* by how each value follows from the one before exists, and there is one. *)
IsRec(h, n, b, g) ==
  h = [k \in 0 .. n |-> IF k = 0 THEN b ELSE g[<<k, h[k - 1]>>]]

LEMMA RecExists ==
  ASSUME NEW S, NEW b \in S, NEW N \in Nat,
         NEW g, \A k \in 1 .. N, x \in S : g[<<k, x>>] \in S
  PROVE  \A n \in 0 .. N : \E h \in [0 .. n -> S] : IsRec(h, n, b, g)
<1> DEFINE T == {n \in Nat : n <= N =>
                    \E h \in [0 .. n -> S] : IsRec(h, n, b, g)}
<1>1. 0 \in T
  <2> DEFINE h == [k \in 0 .. 0 |-> b]
  <2>1. h \in [0 .. 0 -> S] /\ IsRec(h, 0, b, g)
    BY DEF IsRec
  <2> HIDE DEF h
  <2> QED
    BY <2>1
<1>2. ASSUME NEW n \in Nat, n \in T
      PROVE  n + 1 \in T
  <2>1. SUFFICES ASSUME n + 1 <= N
                 PROVE  \E h \in [0 .. n + 1 -> S] : IsRec(h, n + 1, b, g)
    BY <1>2
  <2>2. PICK h \in [0 .. n -> S] : IsRec(h, n, b, g)
    BY <1>2, <2>1
  <2> DEFINE e == [k \in 0 .. n + 1 |->
                     IF k <= n THEN h[k] ELSE g[<<n + 1, h[n]>>]]
  <2>3. /\ \A k \in 0 .. n : e[k] = h[k]
        /\ e[n + 1] = g[<<n + 1, h[n]>>] /\ h[n] \in S /\ n + 1 \in 1 .. N
    BY <2>1, <2>2
  <2>4. e \in [0 .. n + 1 -> S]
    BY <2>2, <2>3
  <2>5. h[0] = b /\ \A k \in 1 .. n : h[k] = g[<<k, h[k - 1]>>]
    BY <2>2, SMTT(20) DEF IsRec
  <2>6. \A k \in 0 .. n + 1 :
          e[k] = IF k = 0 THEN b ELSE g[<<k, e[k - 1]>>]
    <3>1. SUFFICES ASSUME NEW k \in 0 .. n + 1
                   PROVE  e[k] = IF k = 0 THEN b ELSE g[<<k, e[k - 1]>>]
      OBVIOUS
    <3> HIDE DEF e
    <3>2. CASE k = 0
      BY <2>3, <2>5, <3>2
    <3>3. CASE k \in 1 .. n
      <4>1. k - 1 \in 0 .. n /\ k \in 0 .. n /\ k # 0
        BY ONLY <3>3, n \in Nat
      <4> QED
        BY <2>3, <2>5, <3>3, <4>1
    <3>4. CASE k = n + 1
      <4>1. k - 1 = n /\ k # 0 /\ n \in 0 .. n
        BY ONLY <3>4, n \in Nat
      <4> QED
        BY <2>3, <3>4, <4>1
    <3> QED
      BY <3>2, <3>3, <3>4
  <2>7. IsRec(e, n + 1, b, g)
    BY <2>6 DEF IsRec
  <2> HIDE DEF e
  <2> QED
    BY <2>4, <2>7
<1>3. Nat \subseteq T
  BY <1>1, <1>2, Induction
<1> QED
  BY <1>3

LEMMA RecUnique ==
  ASSUME NEW b, NEW g, NEW m \in Nat, NEW n \in Nat, NEW e, NEW h,
         IsRec(e, m, b, g), IsRec(h, n, b, g), NEW k \in Nat, k <= m, k <= n
  PROVE  e[k] = h[k]
<1> DEFINE T == {j \in Nat : j <= m /\ j <= n => e[j] = h[j]}
<1>1. /\ \A j \in 0 .. m : e[j] = IF j = 0 THEN b ELSE g[<<j, e[j - 1]>>]
      /\ \A j \in 0 .. n : h[j] = IF j = 0 THEN b ELSE g[<<j, h[j - 1]>>]
  BY DEF IsRec
<1>2. 0 \in T
  <2>1. 0 \in 0 .. m /\ 0 \in 0 .. n
    OBVIOUS
  <2>2. e[0] = b /\ h[0] = b
    BY <1>1, <2>1
  <2> QED
    BY <2>2
<1>3. ASSUME NEW j \in Nat, j \in T
      PROVE  j + 1 \in T
  <2>1. SUFFICES ASSUME j + 1 <= m, j + 1 <= n
                 PROVE  e[j + 1] = h[j + 1]
    OBVIOUS
  <2>2. /\ j + 1 \in 0 .. m /\ j + 1 \in 0 .. n /\ j + 1 # 0
        /\ (j + 1) - 1 = j /\ j <= m /\ j <= n
    BY ONLY <2>1, m \in Nat, n \in Nat, j \in Nat
  <2>3. e[j] = h[j]
    BY <1>3, <2>2
  <2> QED
    BY <1>1, <2>2, <2>3
<1>4. Nat \subseteq T
  BY <1>2, <1>3, Induction
<1> QED
  BY <1>4

(* So does one on all natural numbers. *)
Follows(f, b, g) ==
  f[0] = b /\ \A n \in Nat : f[n + 1] = g[<<n + 1, f[n]>>]

LEMMA RecForever ==
  ASSUME NEW S, NEW b \in S,
         NEW g, \A k \in Nat, x \in S : g[<<k, x>>] \in S
  PROVE  \E f \in [Nat -> S] : Follows(f, b, g)
<1> DEFINE f == [n \in Nat |->
                   (CHOOSE h \in [0 .. n -> S] : IsRec(h, n, b, g))[n]]
<1>1. ASSUME NEW n \in Nat
      PROVE  \E h \in [0 .. n -> S] : IsRec(h, n, b, g) /\ f[n] = h[n]
  <2>1. ASSUME NEW k \in 1 .. n, NEW p \in S
        PROVE  g[<<k, p>>] \in S
    <3>1. k \in Nat
      OBVIOUS
    <3> QED
      BY <3>1
  <2>2. n \in 0 .. n
    OBVIOUS
  <2>3. \E h \in [0 .. n -> S] : IsRec(h, n, b, g)
    BY ONLY <2>1, <2>2, RecExists, b \in S, n \in Nat
  <2> DEFINE h == CHOOSE h \in [0 .. n -> S] : IsRec(h, n, b, g)
  <2>4. h \in [0 .. n -> S] /\ IsRec(h, n, b, g)
    BY <2>3
  <2>5. f[n] = h[n]
    OBVIOUS
  <2> HIDE DEF h, f
  <2> QED
    BY <2>4, <2>5
<1> HIDE DEF f
<1>2. f[0] = b
  <2>1. PICK h \in [0 .. 0 -> S] : IsRec(h, 0, b, g) /\ f[0] = h[0]
    BY <1>1
  <2> QED
    BY <2>1 DEF IsRec
<1>3. ASSUME NEW n \in Nat
      PROVE  f[n] \in S /\ f[n + 1] = g[<<n + 1, f[n]>>]
  <2>1. PICK e \in [0 .. n -> S] : IsRec(e, n, b, g) /\ f[n] = e[n]
    BY <1>1
  <2>2. n + 1 \in Nat
    OBVIOUS
  <2>3. PICK h \in [0 .. n + 1 -> S] :
          IsRec(h, n + 1, b, g) /\ f[n + 1] = h[n + 1]
    BY <1>1, <2>2
  <2>4. /\ n <= n /\ n <= n + 1 /\ n \in 0 .. n
        /\ n + 1 \in 0 .. n + 1 /\ n + 1 # 0 /\ (n + 1) - 1 = n
    OBVIOUS
  <2>5. e[n] = h[n]
    BY ONLY <2>1, <2>2, <2>3, <2>4, RecUnique, n \in Nat
  <2>6. h[n + 1] = g[<<n + 1, h[n]>>]
    BY <2>3, <2>4 DEF IsRec
  <2> QED
    BY <2>1, <2>3, <2>4, <2>5, <2>6
<1>4. f \in [Nat -> S]
  BY <1>3 DEF f
<1> QED
  BY <1>2, <1>3, <1>4 DEF Follows

-----------------------------------------------------------------------------
(* Sums. *)

LEMMA SumRec ==
  ASSUME NEW n \in Nat, NEW f, \A k \in 1 .. n : f[k] \in Int
  PROVE  \E h \in [0 .. n -> Int] :
           /\ SumTo(f, n) = h[n]
           /\ h[0] = 0 /\ \A k \in 1 .. n : h[k] = h[k - 1] + f[k]
<1> DEFINE g == [p \in (1 .. n) \X Int |-> p[2] + f[p[1]]]
           body(h) == [k \in 0 .. n |-> IF k = 0 THEN 0 ELSE h[k - 1] + f[k]]
<1>1. \A k \in 1 .. n, x \in Int : g[<<k, x>>] = x + f[k]
  OBVIOUS
<1> HIDE DEF g, body
<1>2. ASSUME NEW k \in 1 .. n, NEW x \in Int
      PROVE  g[<<k, x>>] \in Int
  <2>1. f[k] \in Int
    OBVIOUS
  <2>2. x + f[k] \in Int
    BY ONLY <2>1, x \in Int
  <2> QED
    BY <1>1, <2>2
<1>3. PICK h \in [0 .. n -> Int] : IsRec(h, n, 0, g)
  BY ONLY <1>2, RecExists, n \in Nat, 0 \in Int, n \in 0 .. n
<1>4. \A k \in 0 .. n : h[k] = IF k = 0 THEN 0 ELSE g[<<k, h[k - 1]>>]
  BY <1>3 DEF IsRec
<1>5. \A k \in 1 .. n : k \in 0 .. n /\ k # 0 /\ k - 1 \in 0 .. n
  OBVIOUS
<1>6. h[0] = 0 /\ \A k \in 1 .. n : h[k] = h[k - 1] + f[k]
  <2>1. 0 \in 0 .. n /\ h[0] = 0
    <3>1. 0 \in 0 .. n
      OBVIOUS
    <3> QED
      BY <1>4, <3>1
  <2>2. ASSUME NEW k \in 1 .. n
        PROVE  h[k] = h[k - 1] + f[k]
    <3>1. h[k] = g[<<k, h[k - 1]>>] /\ h[k - 1] \in Int
      BY <1>3, <1>4, <1>5
    <3> QED
      BY <1>1, <3>1
  <2> QED
    BY <2>1, <2>2
<1>7. h = body(h)
  BY <1>3, <1>6 DEF body
<1> DEFINE sum == CHOOSE e : e = body(e)
<1>8. sum = body(sum)
  BY <1>7
<1>9. SumTo(f, n) = sum[n]
  BY DEF SumTo, body
<1> HIDE DEF sum
<1>10. /\ sum[0] = 0 /\ \A k \in 1 .. n : sum[k] = sum[k - 1] + f[k]
  <2>1. \A k \in 0 .. n : sum[k] = IF k = 0 THEN 0 ELSE sum[k - 1] + f[k]
    BY <1>8 DEF body
  <2>2. 0 \in 0 .. n
    OBVIOUS
  <2> QED
    BY <1>5, <2>1, <2>2
<1> DEFINE T == {k \in Nat : k <= n => sum[k] = h[k]}
<1>11. 0 \in T
  BY <1>6, <1>10
<1>12. ASSUME NEW k \in Nat, k \in T
       PROVE  k + 1 \in T
  <2>1. SUFFICES ASSUME k + 1 <= n
                 PROVE  sum[k + 1] = h[k + 1]
    OBVIOUS
  <2>2. k + 1 \in 1 .. n /\ (k + 1) - 1 = k /\ k <= n
    BY ONLY <2>1, n \in Nat, k \in Nat
  <2>3. sum[k] = h[k]
    BY <1>12, <2>2
  <2> QED
    BY <1>6, <1>10, <2>2, <2>3
<1>13. Nat \subseteq T
  BY <1>11, <1>12, Induction
<1>14. SumTo(f, n) = h[n]
  BY <1>9, <1>13
<1> QED
  BY <1>6, <1>14

LEMMA SumType ==
  ASSUME NEW n \in Nat, NEW f, \A k \in 1 .. n : f[k] \in Int
  PROVE  SumTo(f, n) \in Int
BY SumRec

LEMMA SumNone ==
  ASSUME NEW f
  PROVE  SumTo(f, 0) = 0
<1>1. \A k \in 1 .. 0 : f[k] \in Int
  OBVIOUS
<1> QED
  BY <1>1, SumRec

(* The sum of one more. *)
LEMMA SumStep ==
  ASSUME NEW n \in Nat, NEW f, \A k \in 1 .. n + 1 : f[k] \in Int
  PROVE  SumTo(f, n + 1) = SumTo(f, n) + f[n + 1]
<1>1. \A k \in 1 .. n : f[k] \in Int
  OBVIOUS
<1>2. PICK e \in [0 .. n -> Int] :
        /\ SumTo(f, n) = e[n]
        /\ e[0] = 0 /\ \A k \in 1 .. n : e[k] = e[k - 1] + f[k]
  BY <1>1, SumRec, ZenonT(40)
<1>3. PICK h \in [0 .. n + 1 -> Int] :
        /\ SumTo(f, n + 1) = h[n + 1]
        /\ h[0] = 0 /\ \A k \in 1 .. n + 1 : h[k] = h[k - 1] + f[k]
  <2>1. n + 1 \in Nat
    OBVIOUS
  <2> QED
    BY <2>1, SumRec, ZenonT(40)
<1> DEFINE T == {k \in Nat : k <= n => e[k] = h[k]}
<1>4. 0 \in T
  BY <1>2, <1>3
<1>5. ASSUME NEW k \in Nat, k \in T
      PROVE  k + 1 \in T
  <2>1. SUFFICES ASSUME k + 1 <= n
                 PROVE  e[k + 1] = h[k + 1]
    OBVIOUS
  <2>2. k + 1 \in 1 .. n /\ k + 1 \in 1 .. n + 1 /\ (k + 1) - 1 = k /\ k <= n
    BY ONLY <2>1, n \in Nat, k \in Nat
  <2>3. e[k] = h[k]
    BY <1>5, <2>2
  <2> QED
    BY <1>2, <1>3, <2>2, <2>3
<1>6. Nat \subseteq T
  BY <1>4, <1>5, Induction
<1>7. n + 1 \in 1 .. n + 1 /\ (n + 1) - 1 = n
  OBVIOUS
<1> QED
  BY <1>2, <1>3, <1>6, <1>7

(* One summand, if there is one at y, differs by d. *)
LEMMA SumOther ==
  ASSUME NEW n \in Nat, NEW f, NEW h, NEW y \in Int, NEW d \in Int,
         \A k \in 1 .. n : /\ f[k] \in Int
                           /\ h[k] = f[k] + IF k = y THEN d ELSE 0
  PROVE  SumTo(h, n) = SumTo(f, n) + IF y \in 1 .. n THEN d ELSE 0
<1> DEFINE T == {k \in Nat : k <= n =>
                   SumTo(h, k) = SumTo(f, k) + IF y \in 1 .. k THEN d ELSE 0}
<1>1. \A k \in 1 .. n : h[k] \in Int
  OBVIOUS
<1>2. 0 \in T
  BY SumNone
<1>3. ASSUME NEW k \in Nat, k \in T
      PROVE  k + 1 \in T
  <2>1. SUFFICES ASSUME k + 1 <= n
                 PROVE  SumTo(h, k + 1) = SumTo(f, k + 1)
                                            + IF y \in 1 .. k + 1 THEN d ELSE 0
    OBVIOUS
  <2>2. \A j \in 1 .. k + 1 : j \in 1 .. n
    BY ONLY <2>1, n \in Nat, k \in Nat
  <2>3. /\ SumTo(f, k + 1) = SumTo(f, k) + f[k + 1]
        /\ SumTo(h, k + 1) = SumTo(h, k) + h[k + 1]
        /\ SumTo(f, k) \in Int /\ f[k + 1] \in Int
    <3>1. \A j \in 1 .. k : j \in 1 .. k + 1
      BY ONLY k \in Nat
    <3>2. k + 1 \in 1 .. k + 1
      BY ONLY k \in Nat
    <3>3. \A j \in 1 .. k + 1 : f[j] \in Int /\ h[j] \in Int
      BY <1>1, <2>2
    <3>4. /\ SumTo(f, k + 1) = SumTo(f, k) + f[k + 1]
          /\ SumTo(h, k + 1) = SumTo(h, k) + h[k + 1]
      BY ONLY <3>3, SumStep, k \in Nat
    <3>5. SumTo(f, k) \in Int
      BY ONLY <3>1, <3>3, SumType, k \in Nat
    <3> QED
      BY <3>2, <3>3, <3>4, <3>5
  <2>4. SumTo(h, k) = SumTo(f, k) + IF y \in 1 .. k THEN d ELSE 0
    BY <1>3, <2>1
  <2>5. h[k + 1] = f[k + 1] + IF k + 1 = y THEN d ELSE 0
    BY <2>2
  <2> QED
    BY ONLY <2>3, <2>4, <2>5, k \in Nat, y \in Int, d \in Int
<1>4. Nat \subseteq T
  BY <1>2, <1>3, Induction
<1> QED
  BY <1>4

(* Products with a sum or difference of one. *)
LEMMA Distributes ==
  ASSUME NEW k \in Int, NEW c \in Int
  PROVE  /\ k * c \in Int
         /\ k * (c + 0) = k * c + 0 /\ k * (c + 1) = k * c + k
         /\ k * (c - 0) = k * c + 0 /\ k * (c - 1) = k * c - k
OBVIOUS

-----------------------------------------------------------------------------
(* Bags, told apart by how many copies they hold of what. *)

LEMMA BagsEqual ==
  ASSUME NEW B, NEW C, IsABag(B), IsABag(C),
         \A x : Copies(x, B) = Copies(x, C)
  PROVE  B = C
<1>1. /\ B = [x \in DOMAIN B |-> B[x]] /\ C = [x \in DOMAIN C |-> C[x]]
      /\ \A x \in DOMAIN B : B[x] \in Nat /\ B[x] > 0
      /\ \A x \in DOMAIN C : C[x] \in Nat /\ C[x] > 0
  BY DEF IsABag
<1>2. ASSUME NEW x
      PROVE  x \in DOMAIN B <=> x \in DOMAIN C
  <2>1. Copies(x, B) = Copies(x, C)
    OBVIOUS
  <2> QED
    BY <2>1, <1>1 DEF Copies, BagToSet
<1>3. DOMAIN B = DOMAIN C
  BY <1>2
<1>4. \A x \in DOMAIN B : B[x] = C[x]
  BY <1>3 DEF Copies, BagToSet
<1> QED
  BY <1>1, <1>3, <1>4

LEMMA CopiesType ==
  ASSUME NEW B, IsABag(B), NEW x
  PROVE  /\ Copies(x, B) \in Nat
         /\ x \in BagToSet(B) <=> Copies(x, B) > 0
BY DEF IsABag, Copies, BagToSet

LEMMA NoBinsCopies ==
  IsABag(NoBins) /\ BagToSet(NoBins) = {}
BY DEF NoBins, EmptyBag, SetToBag, IsABag, BagToSet

LEMMA AddCopies ==
  ASSUME NEW B, IsABag(B), NEW y
  PROVE  /\ IsABag(AddBin(B, y))
         /\ BagToSet(AddBin(B, y)) = BagToSet(B) \cup {y}
         /\ \A x : Copies(x, AddBin(B, y))
                     = Copies(x, B) + IF x = y THEN 1 ELSE 0
<1>1. \A x \in DOMAIN B : B[x] \in Nat /\ B[x] > 0
  BY DEF IsABag
<1>2. AddBin(B, y) = [x \in DOMAIN B \cup {y} |->
                       (IF x \in DOMAIN B THEN B[x] ELSE 0)
                         + IF x \in {y} THEN 1 ELSE 0]
  BY Zenon DEF AddBin, SetToBag, (+)
<1> QED
  BY <1>1, <1>2 DEF IsABag, Copies, BagToSet

LEMMA RemoveCopies ==
  ASSUME NEW B, IsABag(B), NEW y \in BagToSet(B)
  PROVE  /\ IsABag(RemoveBin(B, y))
         /\ BagToSet(RemoveBin(B, y)) \subseteq BagToSet(B)
         /\ \A x : Copies(x, RemoveBin(B, y))
                     = Copies(x, B) - IF x = y THEN 1 ELSE 0
<1>1. y \in DOMAIN B /\ \A x \in DOMAIN B : B[x] \in Nat /\ B[x] > 0
  BY DEF IsABag, BagToSet
<1> DEFINE R == [x \in DOMAIN B |-> IF x \in {y} THEN B[x] - 1 ELSE B[x]]
<1>2. RemoveBin(B, y) = [x \in {z \in DOMAIN R : R[z] > 0} |-> R[x]]
  BY DEF RemoveBin, SetToBag, (-)
<1>3. \A x \in DOMAIN B :
        R[x] = (IF x = y THEN B[x] - 1 ELSE B[x]) /\ R[x] \in Nat
  BY <1>1
<1> QED
  BY <1>1, <1>2, <1>3 DEF IsABag, Copies, BagToSet

LEMMA ChangeCopies ==
  ASSUME NEW B, IsABag(B), NEW old \in BagToSet(B), NEW new
  PROVE  /\ IsABag(Change(B, old, new))
         /\ BagToSet(Change(B, old, new)) \subseteq BagToSet(B) \cup {new}
         /\ \A x : Copies(x, Change(B, old, new))
                     = Copies(x, B) - (IF x = old THEN 1 ELSE 0)
                         + IF x = new THEN 1 ELSE 0
<1>1. IsABag(RemoveBin(B, old))
  BY RemoveCopies
<1> QED
  BY <1>1, RemoveCopies, AddCopies DEF Change

-----------------------------------------------------------------------------
(* Bin packing: no two bins fit in one. *)

Sums == 0 .. 2 * MAX_VAL

PackTypeOK ==
  /\ loop \in {"generate", "worst fit", "print", "best fit", "done"}
  /\ metal_objects \in Seq(Floats)
  /\ object \in Nat /\ object >= 1
  /\ IsABag(worst_fit_bins) /\ BagToSet(worst_fit_bins) \subseteq Floats
  /\ IsABag(best_fit_bins) /\ BagToSet(best_fit_bins) \subseteq Floats

(* Two bins use more than one has, or one has no room for the other's.     *)
PairsOver(B) ==
  \A a, b \in BagToSet(B) : (a # b \/ B[a] > 1) => Rounded[a + b] > MAX_VAL
PairsTight(B) ==
  \A a, b \in BagToSet(B) :
    (a # b \/ B[a] > 1) => OpenedFor(a, b) \/ OpenedFor(b, a)

LEMMA RoundedOrder ==
  ASSUME NEW x \in Sums, NEW y \in Sums, x <= y
  PROVE  Rounded[x] \in Sums /\ Rounded[y] \in Sums /\ Rounded[x] <= Rounded[y]
BY PackingAssumption DEF Sums

LEMMA FloatNumbers ==
  ASSUME NEW a \in Floats, NEW b \in Floats
  PROVE  /\ MAX_VAL \in Nat /\ a \in Nat /\ a <= MAX_VAL /\ b \in Nat
         /\ a \in Sums /\ a + b \in Sums /\ a + b = b + a /\ a <= a + b
         /\ MAX_VAL - a \in Sums /\ MAX_VAL - a <= MAX_VAL
         /\ Rounded[a] = a
<1>1. MAX_VAL \in Nat /\ a \in 0 .. MAX_VAL /\ b \in 0 .. MAX_VAL
  BY PackingAssumption DEF Floats
<1>2. Rounded[a] = a
  BY DEF Floats
<1> QED
  BY ONLY <1>1, <1>2 DEF Sums

(* What does not exceed a full bin is rounded to a float in a bin. *)
LEMMA RoundedFloat ==
  ASSUME NEW x \in Sums
  PROVE  /\ Rounded[x] <= MAX_VAL => Rounded[x] \in Floats
         /\ x <= MAX_VAL => Rounded[x] \in Floats
<1>1. MAX_VAL \in Nat /\ MAX_VAL \in Sums /\ Rounded[MAX_VAL] = MAX_VAL
  BY PackingAssumption DEF Sums
<1>2. Rounded[x] \in Sums /\ Rounded[Rounded[x]] = Rounded[x]
  BY PackingAssumption DEF Sums
<1>3. Rounded[x] <= MAX_VAL => Rounded[x] \in Floats
  <2>1. Rounded[x] <= MAX_VAL => Rounded[x] \in 0 .. MAX_VAL
    BY ONLY <1>1, <1>2 DEF Sums
  <2> QED
    BY <1>2, <2>1 DEF Floats
<1>4. x <= MAX_VAL => Rounded[x] <= MAX_VAL
  BY <1>1, RoundedOrder
<1> QED
  BY <1>3, <1>4

(* The float of a sum is not below its summands, and that of a difference  *)
(* not above the minuend.                                                  *)
LEMMA RoundedMore ==
  ASSUME NEW a \in Floats, NEW b \in Floats
  PROVE  a <= Rounded[a + b]
<1>1. a \in Sums /\ a + b \in Sums /\ a <= a + b /\ Rounded[a] = a
  BY FloatNumbers
<1> QED
  BY <1>1, RoundedOrder

LEMMA RoundedLess ==
  ASSUME NEW a \in Floats, NEW b \in Floats, b <= a
  PROVE  a - b \in Sums /\ Rounded[a - b] \in Floats /\ Rounded[a - b] <= a
<1>1. /\ a \in Nat /\ b \in Nat /\ MAX_VAL \in Nat /\ a <= MAX_VAL
      /\ a \in Sums /\ Rounded[a] = a
  BY FloatNumbers
<1>2. a - b \in Sums /\ a - b <= a /\ a - b <= MAX_VAL
  BY ONLY <1>1, b <= a DEF Sums
<1> QED
  BY <1>1, <1>2, RoundedOrder, RoundedFloat

LEMMA PairsCopies ==
  ASSUME NEW B, NEW a \in BagToSet(B)
  PROVE  B[a] = Copies(a, B)
BY DEF Copies, BagToSet

LEMMA NewBinPairs ==
  ASSUME NEW B, IsABag(B), BagToSet(B) \subseteq Floats, NEW y \in Floats
  PROVE  /\ PairsOver(B) /\ (\A b \in BagToSet(B) : Rounded[b + y] > MAX_VAL)
              => PairsOver(AddBin(B, y))
         /\ PairsTight(B) /\ (\A b \in BagToSet(B) : OpenedFor(b, y))
              => PairsTight(AddBin(B, y))
<1> DEFINE C == AddBin(B, y)
<1>1. /\ BagToSet(C) = BagToSet(B) \cup {y}
      /\ \A x : Copies(x, C) = Copies(x, B) + IF x = y THEN 1 ELSE 0
  BY AddCopies
<1>2. ASSUME NEW a \in BagToSet(C), NEW b \in BagToSet(C),
             a # b \/ C[a] > 1
      PROVE  \/ a \in BagToSet(B) /\ b \in BagToSet(B) /\ (a # b \/ B[a] > 1)
             \/ a = y /\ b \in BagToSet(B)
             \/ b = y /\ a \in BagToSet(B)
  <2>1. C[a] = Copies(a, B) + IF a = y THEN 1 ELSE 0
    BY <1>1, PairsCopies
  <2>2. CASE a = y \/ b = y
    <3>1. Copies(y, B) \in Nat /\ (y \in BagToSet(B) <=> Copies(y, B) > 0)
      BY CopiesType
    <3> QED
      BY <1>1, <1>2, <2>1, <2>2, <3>1
  <2>3. CASE a # y /\ b # y
    <3>1. a \in BagToSet(B) /\ b \in BagToSet(B)
      BY <1>1, <2>3
    <3>2. Copies(a, B) = B[a] /\ B[a] \in Nat
      BY <3>1, PairsCopies, CopiesType
    <3> QED
      BY <1>2, <2>1, <2>3, <3>1, <3>2
  <2> QED
    BY <2>2, <2>3
<1>3. \A a, b \in Floats : a + b = b + a
  BY FloatNumbers
<1> HIDE DEF C
<1>4. PairsOver(B) /\ (\A b \in BagToSet(B) : Rounded[b + y] > MAX_VAL)
        => PairsOver(C)
  BY <1>2, <1>3 DEF PairsOver
<1>5. PairsTight(B) /\ (\A b \in BagToSet(B) : OpenedFor(b, y))
        => PairsTight(C)
  BY <1>2 DEF PairsTight
<1> QED
  BY <1>4, <1>5 DEF C

LEMMA LessBinPairs ==
  ASSUME NEW B, IsABag(B), NEW y \in BagToSet(B)
  PROVE  PairsOver(B) => PairsOver(RemoveBin(B, y))
<1> DEFINE C == RemoveBin(B, y)
<1>1. ASSUME NEW a \in BagToSet(C), NEW b \in BagToSet(C),
             a # b \/ C[a] > 1
      PROVE  a \in BagToSet(B) /\ b \in BagToSet(B) /\ (a # b \/ B[a] > 1)
  <2>1. a \in BagToSet(B) /\ b \in BagToSet(B)
    BY RemoveCopies
  <2>2. C[a] = B[a] - IF a = y THEN 1 ELSE 0
    BY <2>1, RemoveCopies, PairsCopies
  <2>3. B[a] \in Nat
    BY <2>1, PairsCopies, CopiesType
  <2> QED
    BY <1>1, <2>1, <2>2, <2>3
<1> QED
  BY <1>1 DEF PairsOver

LEMMA OtherBinPairs ==
  ASSUME NEW B, IsABag(B), BagToSet(B) \subseteq Floats,
         NEW y \in BagToSet(B), NEW z \in Floats
  PROVE  /\ PairsOver(B) /\ y <= z => PairsOver(Change(B, y, z))
         /\ PairsTight(B) /\ z <= y => PairsTight(Change(B, y, z))
<1> DEFINE C == Change(B, y, z)
<1>1. /\ BagToSet(C) \subseteq BagToSet(B) \cup {z}
      /\ IsABag(C)
      /\ \A x : Copies(x, C) = Copies(x, B) - (IF x = y THEN 1 ELSE 0)
                                 + IF x = z THEN 1 ELSE 0
  BY ChangeCopies
<1>2. ASSUME NEW a \in BagToSet(C), NEW b \in BagToSet(C),
             a # b \/ C[a] > 1
      PROVE  \/ a \in BagToSet(B) /\ b \in BagToSet(B) /\ (a # b \/ B[a] > 1)
             \/ a = z /\ b \in BagToSet(B) /\ (b # y \/ B[b] > 1)
             \/ b = z /\ a \in BagToSet(B) /\ (a # y \/ B[a] > 1)
  <2>1. \A x \in {a, b} :
          /\ Copies(x, C) = C[x] /\ C[x] > 0
          /\ Copies(x, B) \in Nat /\ (x \in BagToSet(B) <=> Copies(x, B) > 0)
          /\ x \in BagToSet(B) => B[x] = Copies(x, B)
    BY <1>1, PairsCopies, CopiesType
  <2>2. \A x \in {a, b} :
          Copies(x, C) = Copies(x, B) - (IF x = y THEN 1 ELSE 0)
                           + IF x = z THEN 1 ELSE 0
    BY <1>1
  <2> HIDE DEF C
  <2> QED
    BY <1>2, <2>1, <2>2
<1> HIDE DEF C
<1>3. ASSUME PairsOver(B), y <= z
      PROVE  PairsOver(C)
  <2>1. ASSUME NEW b \in BagToSet(B), b # y \/ B[b] > 1
        PROVE  Rounded[b + z] > MAX_VAL /\ Rounded[z + b] > MAX_VAL
    <3>1. Rounded[b + y] > MAX_VAL
      BY <1>3, <2>1 DEF PairsOver
    <3>2. /\ MAX_VAL \in Nat /\ b \in Nat /\ y \in Nat /\ z \in Nat
          /\ b + y \in Sums /\ b + z \in Sums /\ b + z = z + b
      BY FloatNumbers
    <3>3. b + y <= b + z
      BY ONLY <1>3, <3>2
    <3>4. /\ Rounded[b + y] \in Sums /\ Rounded[b + z] \in Sums
          /\ Rounded[b + y] <= Rounded[b + z]
      BY <3>2, <3>3, RoundedOrder
    <3>5. Rounded[b + z] > MAX_VAL
      BY ONLY <3>1, <3>2, <3>4 DEF Sums
    <3> QED
      BY <3>2, <3>5
  <2> QED
    BY <1>2, <1>3, <2>1 DEF PairsOver
<1>4. ASSUME PairsTight(B), z <= y
      PROVE  PairsTight(C)
  <2>1. ASSUME NEW b \in BagToSet(B), b # y \/ B[b] > 1
        PROVE  OpenedFor(b, z) \/ OpenedFor(z, b)
    <3>1. \/ \E e \in Floats : e > b /\ y <= Rounded[MAX_VAL - e]
          \/ \E e \in Floats : e > y /\ b <= Rounded[MAX_VAL - e]
      BY <1>4, <2>1 DEF PairsTight, OpenedFor
    <3>2. ASSUME NEW e \in Floats
          PROVE  /\ e > y => e > z
                 /\ y <= Rounded[MAX_VAL - e] => z <= Rounded[MAX_VAL - e]
      <4>1. e \in Nat /\ y \in Nat /\ z \in Nat /\ MAX_VAL - e \in Sums
            /\ MAX_VAL \in Nat
        BY FloatNumbers
      <4>2. Rounded[MAX_VAL - e] \in Sums
        <5>1. MAX_VAL - e <= MAX_VAL - e
          BY ONLY <4>1
        <5> QED
          BY <4>1, <5>1, RoundedOrder
      <4> QED
        BY ONLY <1>4, <4>1, <4>2 DEF Sums
    <3> QED
      BY <3>1, <3>2 DEF OpenedFor
  <2> QED
    BY <1>2, <1>4, <2>1 DEF PairsTight
<1> QED
  BY <1>3, <1>4 DEF C

(* The object that a turn of the loops places. *)
LEMMA NextObject ==
  ASSUME PackTypeOK, object <= Len(metal_objects)
  PROVE  /\ metal_objects[object] \in Floats
         /\ object + 1 \in Nat /\ object + 1 >= 1
<1>1. object \in Nat /\ object >= 1 /\ object <= Len(metal_objects)
  BY DEF PackTypeOK
<1>2. metal_objects \in Seq(Floats) /\ Len(metal_objects) \in Nat
  BY LenProperties DEF PackTypeOK
<1>3. object \in 1 .. Len(metal_objects)
  BY ONLY <1>1, <1>2
<1>4. metal_objects[object] \in Floats
  BY ONLY <1>2, <1>3, ElementOfSeq
<1>5. object + 1 \in Nat /\ object + 1 >= 1
  BY ONLY <1>1
<1> QED
  BY <1>4, <1>5

(* When the emptiest bin cannot take an object, no bin can. *)
LEMMA TopIsEmptiest ==
  ASSUME NEW B, BagToSet(B) \subseteq Floats, NEW e \in Floats,
         \A b \in BagToSet(B) : Top(B, b) => Rounded[b + e] > MAX_VAL,
         NEW b \in BagToSet(B)
  PROVE  Rounded[b + e] > MAX_VAL
<1>1. BagToSet(B) \subseteq Nat
  BY FloatNumbers
<1>2. PICK m \in BagToSet(B) : \A k \in BagToSet(B) : m <= k
  BY <1>1, LeastNatural
<1>3. Rounded[m + e] > MAX_VAL /\ m <= b
  BY <1>2 DEF Top
<1>4. /\ m \in Nat /\ b \in Nat /\ e \in Nat /\ MAX_VAL \in Nat
      /\ m + e \in Sums /\ b + e \in Sums
  BY FloatNumbers
<1>5. m + e <= b + e
  BY ONLY <1>3, <1>4
<1>6. /\ Rounded[m + e] \in Sums /\ Rounded[b + e] \in Sums
      /\ Rounded[m + e] <= Rounded[b + e]
  BY <1>4, <1>5, RoundedOrder
<1> QED
  BY ONLY <1>3, <1>4, <1>6 DEF Sums

(* When lower_bound() finds no bin, none has room. *)
LEMMA NoLowerBound ==
  ASSUME NEW B, BagToSet(B) \subseteq Floats, NEW e \in Floats,
         \A b \in BagToSet(B) : ~LowerBound(B, e, b),
         NEW b \in BagToSet(B)
  PROVE  e > b /\ ~(b >= e)
<1> DEFINE Room == {c \in BagToSet(B) : c >= e}
<1>1. BagToSet(B) \subseteq Nat /\ b \in Nat /\ e \in Nat
  BY FloatNumbers
<1>2. CASE Room = {}
  <2>1. ~(b >= e)
    BY <1>2
  <2> QED
    BY ONLY <1>1, <2>1
<1>3. CASE Room # {}
  <2>1. PICK m \in Room : \A k \in Room : m <= k
    <3>1. Room \subseteq Nat
      BY <1>1
    <3> QED
      BY <1>3, <3>1, LeastNatural
  <2>2. LowerBound(B, e, m)
    BY <2>1 DEF LowerBound
  <2> QED
    BY <2>1, <2>2
<1> QED
  BY <1>2, <1>3

(* The first loop places the next object. *)
LEMMA WorstFitKeeps ==
  ASSUME PackTypeOK, PairsOver(worst_fit_bins), WorstFit
  PROVE  PackTypeOK' /\ PairsOver(worst_fit_bins)'
<1> DEFINE e == metal_objects[object]
           bins == worst_fit_bins
<1>1. e \in Floats /\ object + 1 \in Nat /\ object + 1 >= 1
  BY NextObject DEF WorstFit, Turn
<1>2. IsABag(bins) /\ BagToSet(bins) \subseteq Floats
  BY DEF PackTypeOK
<1>3. CASE /\ \A b \in BagToSet(bins) : Top(bins, b) => Rounded[b + e] > MAX_VAL
           /\ bins' = AddBin(bins, e)
  <2>1. \A b \in BagToSet(bins) : Rounded[b + e] > MAX_VAL
    BY <1>1, <1>2, <1>3, TopIsEmptiest
  <2>2. PairsOver(bins')
    BY <1>1, <1>2, <1>3, <2>1, NewBinPairs
  <2>3. IsABag(bins') /\ BagToSet(bins') \subseteq Floats
    BY <1>1, <1>2, <1>3, AddCopies
  <2> QED
    BY <1>1, <2>2, <2>3 DEF PackTypeOK, WorstFit, Turn, PairsOver
<1>4. ASSUME NEW top \in BagToSet(bins), Rounded[top + e] <= MAX_VAL,
             bins' = Change(bins, top, Rounded[top + e])
      PROVE  PackTypeOK' /\ PairsOver(worst_fit_bins)'
  <2>1. Rounded[top + e] \in Floats /\ top <= Rounded[top + e]
    BY <1>1, <1>2, <1>4, FloatNumbers, RoundedFloat, RoundedMore
  <2>2. PairsOver(bins')
    BY <1>2, <1>4, <2>1, OtherBinPairs
  <2>3. IsABag(bins') /\ BagToSet(bins') \subseteq Floats
    BY <1>2, <1>4, <2>1, ChangeCopies
  <2> QED
    BY <1>1, <2>2, <2>3 DEF PackTypeOK, WorstFit, Turn, PairsOver
<1> QED
  BY <1>3, <1>4 DEF WorstFit

(* The second loop places the next object. *)
LEMMA BestFitKeeps ==
  ASSUME PackTypeOK, PairsTight(best_fit_bins), BestFit
  PROVE  PackTypeOK' /\ PairsTight(best_fit_bins)'
<1> DEFINE e == metal_objects[object]
           bins == best_fit_bins
           rest == Rounded[MAX_VAL - e]
<1>1. e \in Floats /\ object + 1 \in Nat /\ object + 1 >= 1
  BY NextObject DEF BestFit, Turn
<1>2. IsABag(bins) /\ BagToSet(bins) \subseteq Floats
  BY DEF PackTypeOK
<1>3. CASE /\ \A b \in BagToSet(bins) : ~LowerBound(bins, e, b)
           /\ bins' = AddBin(bins, rest)
  <2>1. rest \in Floats /\ rest <= rest
    <3>1. MAX_VAL - e \in Sums /\ MAX_VAL - e <= MAX_VAL
      BY <1>1, FloatNumbers
    <3>2. rest \in Floats
      BY <3>1, RoundedFloat
    <3> HIDE DEF rest
    <3>3. rest \in Nat
      BY <3>2, FloatNumbers
    <3> QED
      BY <3>2, <3>3
  <2>2. \A b \in BagToSet(bins) : OpenedFor(b, rest)
    BY <1>1, <1>2, <1>3, <2>1, NoLowerBound DEF OpenedFor
  <2>3. PairsTight(bins')
    BY <1>2, <1>3, <2>1, <2>2, NewBinPairs
  <2>4. IsABag(bins') /\ BagToSet(bins') \subseteq Floats
    BY <1>2, <1>3, <2>1, AddCopies
  <2> QED
    BY <1>1, <2>3, <2>4 DEF PackTypeOK, BestFit, Turn, PairsTight
<1>4. ASSUME NEW b \in BagToSet(bins), LowerBound(bins, e, b),
             bins' = Change(bins, b, Rounded[b - e])
      PROVE  PackTypeOK' /\ PairsTight(best_fit_bins)'
  <2>1. Rounded[b - e] \in Floats /\ Rounded[b - e] <= b
    <3>1. e <= b /\ b \in Floats
      BY <1>1, <1>2, <1>4, FloatNumbers DEF LowerBound
    <3> QED
      BY <1>1, <3>1, RoundedLess
  <2>2. PairsTight(bins')
    BY <1>2, <1>4, <2>1, OtherBinPairs
  <2>3. IsABag(bins') /\ BagToSet(bins') \subseteq Floats
    BY <1>2, <1>4, <2>1, ChangeCopies
  <2> QED
    BY <1>1, <2>2, <2>3 DEF PackTypeOK, BestFit, Turn, PairsTight
<1> QED
  BY <1>3, <1>4 DEF BestFit

PackInv ==
  PackTypeOK /\ PairsOver(worst_fit_bins) /\ PairsTight(best_fit_bins)

(* The types of bin packing, and that two bins never fit in one, hold in   *)
(* all steps of main(), whatever weights are drawn.                        *)
THEOREM PackInvariant == PackSpec => []PackInv
<1>1. PackInit => PackInv
  <2> SUFFICES ASSUME PackInit
               PROVE  PackInv
    OBVIOUS
  <2>1. << >> \in Seq(Floats) /\ 1 \in Nat /\ 1 >= 1
    BY EmptySeq
  <2> QED
    BY <2>1, NoBinsCopies
       DEF PackInit, PackInv, PackTypeOK, PairsOver, PairsTight
<1>2. PackInv /\ [PackNext]_packVars => PackInv'
  <2> SUFFICES ASSUME PackInv, [PackNext]_packVars
               PROVE  PackInv'
    OBVIOUS
  <2> USE DEF PackInv
  <2>1. CASE GenerateObjects
    <3>1. metal_objects' \in Seq(Floats)
      BY <2>1, PackingAssumption DEF GenerateObjects
    <3> QED
      BY <2>1, <3>1 DEF GenerateObjects, PackTypeOK, PairsOver, PairsTight
  <2>2. CASE WorstFit
    BY <2>2, WorstFitKeeps DEF WorstFit, PairsTight
  <2>3. CASE WorstFitEnds \/ BestFitEnds
    <3>1. loop' \in {"print", "done"} /\ object' = 1
          /\ UNCHANGED <<metal_objects, worst_fit_bins, best_fit_bins>>
      BY <2>3 DEF WorstFitEnds, BestFitEnds, LoopEnds
    <3>2. object' \in Nat /\ object' >= 1
      BY ONLY <3>1
    <3> QED
      BY <3>1, <3>2 DEF PackTypeOK, PairsOver, PairsTight
  <2>4. CASE PrintWorst
    <3>1. PICK top \in BagToSet(worst_fit_bins) :
            worst_fit_bins' = RemoveBin(worst_fit_bins, top)
      BY <2>4 DEF PrintWorst
    <3>2. /\ IsABag(worst_fit_bins')
          /\ BagToSet(worst_fit_bins') \subseteq Floats
      BY <3>1, RemoveCopies DEF PackTypeOK
    <3>3. PairsOver(worst_fit_bins')
      BY <3>1, LessBinPairs DEF PackTypeOK
    <3> QED
      BY <2>4, <3>2, <3>3 DEF PrintWorst, PackTypeOK, PairsOver, PairsTight
  <2>5. CASE PrintWorstEnds
    BY <2>5 DEF PrintWorstEnds, PackTypeOK, PairsOver, PairsTight
  <2>6. CASE BestFit
    BY <2>6, BestFitKeeps DEF BestFit, PairsOver
  <2>7. CASE UNCHANGED packVars
    BY <2>7 DEF packVars, PackTypeOK, PairsOver, PairsTight
  <2> QED
    BY <2>1, <2>2, <2>3, <2>4, <2>5, <2>6, <2>7 DEF PackNext
<1> QED
  BY <1>1, <1>2, PTL DEF PackSpec

(* With either heuristic no bin is ever overfull as the program counts,    *)
(* and no bin was opened while another had room, however sums are rounded. *)
THEOREM NoBinTooMany == PackSpec => []NoTwoBinsFitInOne
<1>1. PackInv => NoTwoBinsFitInOne
  BY DEF PackInv, PackTypeOK, PairsOver, PairsTight, NoTwoBinsFitInOne
<1> QED
  BY <1>1, PackInvariant, PTL

-----------------------------------------------------------------------------
(* The bag of the amounts in bins that can be told apart. *)

Holding(p, x) == {j \in DOMAIN p : p[j] = x}

LEMMA HoldingFinite ==
  ASSUME NEW n \in Nat, NEW S, NEW p \in [1 .. n -> S], NEW x
  PROVE  IsFiniteSet(Holding(p, x)) /\ Cardinality(Holding(p, x)) \in Nat
<1>1. IsFiniteSet(1 .. n)
  BY FS_Interval
<1>2. Holding(p, x) \in SUBSET (1 .. n)
  BY DEF Holding
<1>3. IsFiniteSet(Holding(p, x))
  BY <1>1, <1>2, FS_Subset
<1> QED
  BY <1>3, FS_CardinalityType

LEMMA ToBagCopies ==
  ASSUME NEW n \in Nat, NEW S, NEW p \in [1 .. n -> S]
  PROVE  /\ IsABag(ToBag(p))
         /\ BagToSet(ToBag(p)) = {p[k] : k \in 1 .. n}
         /\ \A x : Copies(x, ToBag(p)) = Cardinality(Holding(p, x))
<1> DEFINE R == {p[k] : k \in 1 .. n}
<1>1. ToBag(p) = [x \in R |-> Cardinality(Holding(p, x))]
  BY DEF ToBag, Range, Holding
<1>2. \A x : Cardinality(Holding(p, x)) \in Nat
             /\ (Cardinality(Holding(p, x)) = 0 <=> Holding(p, x) = {})
  BY HoldingFinite, FS_EmptySet
<1>3. \A x : Holding(p, x) = {} <=> x \notin R
  BY DEF Holding
<1> HIDE DEF R
<1> QED
  BY <1>1, <1>2, <1>3 DEF IsABag, BagToSet, Copies, R

LEMMA ToBagAppend ==
  ASSUME NEW n \in Nat, NEW S, NEW p \in [1 .. n -> S], NEW y \in S
  PROVE  ToBag(Append(p, y)) = AddBin(ToBag(p), y)
<1> DEFINE q == Append(p, y)
<1>1. p \in Seq(S) /\ Len(p) = n
  BY LenProperties
<1>2. /\ q \in [1 .. n + 1 -> S] /\ n + 1 \in Nat
      /\ \A j \in 1 .. n : q[j] = p[j]
      /\ q[n + 1] = y
  <2>1. /\ q \in Seq(S) /\ Len(q) = n + 1
        /\ (\A j \in 1 .. n : q[j] = p[j]) /\ q[n + 1] = y
    BY <1>1, AppendProperties
  <2>2. q \in [1 .. Len(q) -> S]
    BY <2>1, LenProperties
  <2> QED
    BY <2>1, <2>2
<1> HIDE DEF q
<1>3. ASSUME NEW x
      PROVE  Copies(x, ToBag(q)) = Copies(x, AddBin(ToBag(p), y))
  <2>1. /\ IsFiniteSet(Holding(p, x)) /\ Cardinality(Holding(p, x)) \in Nat
        /\ n + 1 \notin Holding(p, x)
    <3>1. n + 1 \notin 1 .. n
      OBVIOUS
    <3> QED
      BY <3>1, HoldingFinite DEF Holding
  <2>2. Cardinality(Holding(q, x))
          = Cardinality(Holding(p, x)) + IF x = y THEN 1 ELSE 0
    <3>1. CASE x = y
      <4>1. Holding(q, x) = Holding(p, x) \cup {n + 1}
        BY <1>2, <3>1 DEF Holding
      <4> QED
        BY <2>1, <3>1, <4>1, FS_AddElement
    <3>2. CASE x # y
      <4>1. Holding(q, x) = Holding(p, x)
        BY <1>2, <3>2 DEF Holding
      <4> QED
        BY <2>1, <3>2, <4>1
    <3> QED
      BY <3>1, <3>2
  <2>3. Copies(x, ToBag(q)) = Cardinality(Holding(q, x))
    BY <1>2, ToBagCopies
  <2>4. IsABag(ToBag(p)) /\ Copies(x, ToBag(p)) = Cardinality(Holding(p, x))
    BY ToBagCopies
  <2>5. Copies(x, AddBin(ToBag(p), y))
          = Copies(x, ToBag(p)) + IF x = y THEN 1 ELSE 0
    BY <2>4, AddCopies
  <2> QED
    BY <2>2, <2>3, <2>4, <2>5
<1>4. IsABag(ToBag(q)) /\ IsABag(AddBin(ToBag(p), y))
  BY <1>2, ToBagCopies, AddCopies
<1> QED
  BY <1>3, <1>4, BagsEqual DEF q

LEMMA ToBagOther ==
  ASSUME NEW n \in Nat, NEW S, NEW p \in [1 .. n -> S],
         NEW k \in 1 .. n, NEW y \in S,
         NEW q \in [1 .. n -> S],
         q[k] = y, \A j \in 1 .. n : j # k => q[j] = p[j]
  PROVE  ToBag(q) = Change(ToBag(p), p[k], y)
<1>1. q \in [1 .. n -> S] /\ q[k] = y /\ \A j \in 1 .. n : j # k => q[j] = p[j]
  OBVIOUS
<1>2. p[k] \in BagToSet(ToBag(p))
  <2>1. BagToSet(ToBag(p)) = {p[j] : j \in 1 .. n}
    <3>1. n \in Nat /\ p \in [1 .. n -> S]
      OBVIOUS
    <3> QED
      BY ONLY <3>1, ToBagCopies
  <2> QED
    BY <2>1
<1>3. ASSUME NEW x
      PROVE  Copies(x, ToBag(q)) = Copies(x, Change(ToBag(p), p[k], y))
  <2> DEFINE H == Holding(p, x)
             Rest == H \ {k}
  <2>1. IsFiniteSet(H) /\ Cardinality(H) \in Nat
    BY HoldingFinite
  <2>2. /\ IsFiniteSet(Rest) /\ k \notin Rest
        /\ k \in H <=> x = p[k]
    BY <2>1, FS_RemoveElement DEF Holding
  <2>3. Cardinality(Rest) = Cardinality(H) - IF x = p[k] THEN 1 ELSE 0
    <3> HIDE DEF H
    <3> QED
      BY <2>1, <2>2, FS_RemoveElement
  <2>4. Cardinality(Holding(q, x))
          = Cardinality(Rest) + IF x = y THEN 1 ELSE 0
    <3>1. CASE x = y
      <4>1. Holding(q, x) = Rest \cup {k}
        BY <1>1, <3>1 DEF Holding
      <4> HIDE DEF Rest
      <4> QED
        BY <2>2, <3>1, <4>1, FS_AddElement
    <3>2. CASE x # y
      <4>1. Holding(q, x) = Rest
        BY <1>1, <3>2 DEF Holding
      <4>2. Cardinality(Rest) \in Nat
        BY <2>2, FS_CardinalityType
      <4> QED
        BY <3>2, <4>1, <4>2
    <3> QED
      BY <3>1, <3>2
  <2>5. Copies(x, ToBag(q)) = Cardinality(Holding(q, x))
    BY <1>1, ToBagCopies
  <2>6. Copies(x, ToBag(p)) = Cardinality(H)
    BY ToBagCopies
  <2>7. Copies(x, Change(ToBag(p), p[k], y))
          = Copies(x, ToBag(p)) - (IF x = p[k] THEN 1 ELSE 0)
              + IF x = y THEN 1 ELSE 0
    <3>1. IsABag(ToBag(p))
      BY ToBagCopies
    <3> QED
      BY <1>2, <3>1, ChangeCopies
  <2> HIDE DEF H, Rest
  <2> QED
    BY <2>3, <2>4, <2>5, <2>6, <2>7
<1>4. IsABag(ToBag(q)) /\ IsABag(Change(ToBag(p), p[k], y))
  BY <1>1, <1>2, ToBagCopies, ChangeCopies
<1> QED
  BY <1>3, <1>4, BagsEqual

-----------------------------------------------------------------------------
(* Bin packing: the object goes where the exercise wants it. *)

LEMMA BinsOfBag ==
  ASSUME PackTypeOK, NEW B, IsABag(B), BagToSet(B) \subseteq Floats,
         NEW p \in BinsOf(B, Len(metal_objects))
  PROVE  \E n \in Nat : /\ p \in [1 .. n -> Floats] /\ ToBag(p) = B
                        /\ BagToSet(B) = {p[k] : k \in 1 .. n}
<1>1. Len(metal_objects) \in Nat
  BY LenProperties DEF PackTypeOK
<1>2. PICK n \in Nat : p \in [1 .. n -> BagToSet(B)] /\ ToBag(p) = B
  BY <1>1 DEF BinsOf
<1>3. p \in [1 .. n -> Floats]
  BY <1>2
<1>4. BagToSet(B) = {p[k] : k \in 1 .. n}
  BY <1>2, ToBagCopies
<1> QED
  BY <1>2, <1>3, <1>4

LEMMA WorstFitFollows ==
  ASSUME PackTypeOK, WorstFit,
         NEW p \in BinsOf(worst_fit_bins, Len(metal_objects))
  PROVE  \E q \in WorstFitPlaces(p, metal_objects[object]) :
            ToBag(q) = worst_fit_bins'
<1> DEFINE e == metal_objects[object]
           bins == worst_fit_bins
           fits == {k \in DOMAIN p : Rounded[p[k] + e] <= MAX_VAL}
<1>1. e \in Floats
  BY NextObject DEF WorstFit, Turn
<1>2. IsABag(bins) /\ BagToSet(bins) \subseteq Floats
  BY DEF PackTypeOK
<1>3. PICK n \in Nat : /\ p \in [1 .. n -> Floats] /\ ToBag(p) = bins
                      /\ BagToSet(bins) = {p[k] : k \in 1 .. n}
  BY <1>2, BinsOfBag
<1>4. WorstFitPlaces(p, e) =
        IF fits = {} THEN {Append(p, e)}
        ELSE {[p EXCEPT ![k] = Rounded[@ + e]] :
                k \in {m \in fits : \A l \in fits : p[m] <= p[l]}}
  BY DEF WorstFitPlaces
<1> HIDE DEF e
<1>5. CASE /\ \A b \in BagToSet(bins) : Top(bins, b) => Rounded[b + e] > MAX_VAL
           /\ bins' = AddBin(bins, e)
  <2>1. fits = {}
    <3>1. SUFFICES ASSUME NEW k \in 1 .. n
                   PROVE  ~(Rounded[p[k] + e] <= MAX_VAL)
      BY <1>3
    <3> DEFINE b == p[k]
    <3>2. b \in BagToSet(bins) /\ b \in Floats
      BY <1>2, <1>3
    <3>3. Rounded[b + e] > MAX_VAL
      BY <1>1, <1>2, <1>5, <3>2, TopIsEmptiest
    <3>4. Rounded[b + e] \in Sums /\ MAX_VAL \in Nat
      <4>1. b + e \in Sums /\ MAX_VAL \in Nat
        BY <1>1, <3>2, FloatNumbers
      <4>2. b + e <= b + e
        BY ONLY <4>1 DEF Sums
      <4> QED
        BY <4>1, <4>2, RoundedOrder
    <3> QED
      BY ONLY <3>3, <3>4 DEF Sums
  <2>2. Append(p, e) \in WorstFitPlaces(p, e)
    BY <1>4, <2>1
  <2>3. ToBag(Append(p, e)) = bins'
    BY <1>1, <1>3, <1>5, ToBagAppend
  <2> QED
    BY <2>2, <2>3 DEF e
<1>6. ASSUME NEW top \in BagToSet(bins), Top(bins, top),
             Rounded[top + e] <= MAX_VAL,
             bins' = Change(bins, top, Rounded[top + e])
      PROVE  \E q \in WorstFitPlaces(p, e) : ToBag(q) = bins'
  <2>1. PICK k \in 1 .. n : p[k] = top
    BY <1>3
  <2>2. k \in fits /\ \A l \in fits : p[k] <= p[l]
    BY <1>3, <1>6, <2>1 DEF Top
  <2> DEFINE new == Rounded[p[k] + e]
  <2>3. [p EXCEPT ![k] = new] \in WorstFitPlaces(p, e)
    BY <1>4, <2>2
  <2>4. new \in Floats
    BY <1>1, <1>2, <1>6, <2>1, FloatNumbers, RoundedFloat
  <2>5. ASSUME NEW q, q = [p EXCEPT ![k] = new]
        PROVE  ToBag(q) = bins'
    <3>1. bins' = Change(bins, p[k], new)
      BY <1>6, <2>1
    <3> HIDE DEF new
    <3>2. /\ q \in [1 .. n -> Floats] /\ q[k] = new
          /\ \A j \in 1 .. n : j # k => q[j] = p[j]
      BY <1>3, <2>1, <2>4, <2>5
    <3>3. ToBag(q) = Change(ToBag(p), p[k], new)
      <4>1. n \in Nat /\ p \in [1 .. n -> Floats] /\ k \in 1 .. n
        BY <1>3, <2>1
      <4> QED
        BY ONLY <2>4, <3>2, <4>1, ToBagOther
    <3> QED
      BY <1>3, <3>1, <3>3
  <2> QED
    BY <2>3, <2>5
<1> QED
  BY <1>5, <1>6 DEF WorstFit, e

LEMMA BestFitFollows ==
  ASSUME PackTypeOK, BestFit,
         NEW p \in BinsOf(best_fit_bins, Len(metal_objects))
  PROVE  \E q \in BestFitPlaces(p, metal_objects[object]) :
            ToBag(q) = best_fit_bins'
<1> DEFINE e == metal_objects[object]
           bins == best_fit_bins
           fits == {k \in DOMAIN p : p[k] >= e}
           rest == Rounded[MAX_VAL - e]
<1>1. e \in Floats
  BY NextObject DEF BestFit, Turn
<1>2. IsABag(bins) /\ BagToSet(bins) \subseteq Floats
  BY DEF PackTypeOK
<1>3. PICK n \in Nat : /\ p \in [1 .. n -> Floats] /\ ToBag(p) = bins
                      /\ BagToSet(bins) = {p[k] : k \in 1 .. n}
  BY <1>2, BinsOfBag
<1>4. BestFitPlaces(p, e) =
        IF fits = {} THEN {Append(p, rest)}
        ELSE {[p EXCEPT ![k] = Rounded[@ - e]] :
                k \in {m \in fits : \A l \in fits : p[m] <= p[l]}}
  BY DEF BestFitPlaces
<1>5. CASE /\ \A b \in BagToSet(bins) : ~LowerBound(bins, e, b)
           /\ bins' = AddBin(bins, rest)
  <2>1. fits = {}
    <3>1. SUFFICES ASSUME NEW k \in 1 .. n
                   PROVE  ~(p[k] >= e)
      BY <1>3
    <3> DEFINE b == p[k]
    <3>2. b \in BagToSet(bins)
      BY <1>3
    <3> HIDE DEF e, b
    <3>3. ~(b >= e)
      BY <1>1, <1>2, <1>5, <3>2, NoLowerBound
    <3> QED
      BY <3>3 DEF b
  <2>2. Append(p, rest) \in BestFitPlaces(p, e)
    BY <1>4, <2>1
  <2>3. rest \in Floats
    <3>1. MAX_VAL - e \in Sums /\ MAX_VAL - e <= MAX_VAL
      BY <1>1, FloatNumbers
    <3> QED
      BY <3>1, RoundedFloat
  <2> HIDE DEF rest
  <2>4. ToBag(Append(p, rest)) = bins'
    BY <1>3, <1>5, <2>3, ToBagAppend
  <2> QED
    BY <2>2, <2>4
<1>6. ASSUME NEW b \in BagToSet(bins), LowerBound(bins, e, b),
             bins' = Change(bins, b, Rounded[b - e])
      PROVE  \E q \in BestFitPlaces(p, e) : ToBag(q) = bins'
  <2>1. PICK k \in 1 .. n : p[k] = b
    BY <1>3
  <2>2. k \in fits /\ \A l \in fits : p[k] <= p[l]
    BY <1>3, <1>6, <2>1 DEF LowerBound
  <2> DEFINE new == Rounded[p[k] - e]
  <2>3. [p EXCEPT ![k] = new] \in BestFitPlaces(p, e)
    BY <1>4, <2>2
  <2>4. new \in Floats
    <3>1. e <= b /\ b \in Floats
      BY <1>1, <1>2, <1>6, FloatNumbers DEF LowerBound
    <3> QED
      BY <1>1, <2>1, <3>1, RoundedLess
  <2>5. ASSUME NEW q, q = [p EXCEPT ![k] = new]
        PROVE  ToBag(q) = bins'
    <3>1. bins' = Change(bins, p[k], new)
      BY <1>6, <2>1
    <3> HIDE DEF new
    <3>2. /\ q \in [1 .. n -> Floats] /\ q[k] = new
          /\ \A j \in 1 .. n : j # k => q[j] = p[j]
      BY <1>3, <2>1, <2>4, <2>5
    <3>3. ToBag(q) = Change(ToBag(p), p[k], new)
      <4>1. n \in Nat /\ p \in [1 .. n -> Floats] /\ k \in 1 .. n
        BY <1>3, <2>1
      <4> QED
        BY ONLY <2>4, <3>2, <4>1, ToBagOther
    <3> QED
      BY <1>3, <3>1, <3>3
  <2> QED
    BY <2>3, <2>5
<1> QED
  BY <1>5, <1>6 DEF BestFit

(* However the amounts are told apart, each object goes to the fullest     *)
(* (least full) of the bins that can take it, or to a new bin if there is  *)
(* none: the queue and the multiset stand for the bins of the exercise.    *)
THEOREM HeuristicsCorrect == PackSpec => FollowsHeuristics
<1>1. PackInv /\ [PackNext]_packVars => [PlacedAsAsked]_packVars
  <2> SUFFICES ASSUME PackTypeOK, PackNext
               PROVE  PlacedAsAsked
    BY DEF PackInv
  <2>1. object <= Len(metal_objects) /\ loop = "worst fit" => WorstFit
    <3>1. object \in Nat /\ Len(metal_objects) \in Nat
      BY LenProperties DEF PackTypeOK
    <3>2. ~(object > Len(metal_objects) /\ object <= Len(metal_objects))
      BY ONLY <3>1
    <3> QED
      BY <3>2 DEF PackNext, GenerateObjects, WorstFitEnds, PrintWorst,
                  PrintWorstEnds, BestFit, BestFitEnds, LoopEnds, Turn
  <2>2. object <= Len(metal_objects) /\ loop = "best fit" => BestFit
    <3>1. object \in Nat /\ Len(metal_objects) \in Nat
      BY LenProperties DEF PackTypeOK
    <3>2. ~(object > Len(metal_objects) /\ object <= Len(metal_objects))
      BY ONLY <3>1
    <3> QED
      BY <3>2 DEF PackNext, GenerateObjects, WorstFit, WorstFitEnds,
                  PrintWorst, PrintWorstEnds, BestFitEnds, LoopEnds, Turn
  <2> QED
    BY <2>1, <2>2, WorstFitFollows, BestFitFollows DEF PlacedAsAsked
<1> QED
  BY <1>1, PackInvariant, PTL DEF PackSpec, FollowsHeuristics

-----------------------------------------------------------------------------
(* The parenthesis checker. *)

CheckTypeOK ==
  /\ answer \in {"none", "checking", "silent", "unbalanced", "thrown"}
  /\ s \in Seq(Characters)
  /\ i \in 0 .. Len(s)
  /\ nested_level \in Int

(* While the loop runs, the level counts what is open, and nothing before  *)
(* the position has offended.                                              *)
CheckInv ==
  /\ CheckTypeOK
  /\ answer = "checking" =>
       /\ nested_level = Count("(", i) - Count(")", i) /\ nested_level >= 0
       /\ \A k \in 1 .. i : ~Offends(k)
  /\ ReportsFirstOffender

(* How often c is among the first k characters of t. *)
CountIn(t, c, k) == Cardinality({j \in 1 .. k : t[j] = c})

LEMMA CountInType ==
  ASSUME NEW t, NEW c, NEW k \in Nat
  PROVE  CountIn(t, c, k) \in Nat /\ CountIn(t, c, k) <= k
<1>1. IsFiniteSet(1 .. k) /\ Cardinality(1 .. k) = k
  BY FS_Interval
<1>2. /\ IsFiniteSet({j \in 1 .. k : t[j] = c})
      /\ Cardinality({j \in 1 .. k : t[j] = c}) <= Cardinality(1 .. k)
  BY <1>1, FS_Subset
<1> QED
  BY <1>1, <1>2, FS_CardinalityType DEF CountIn

LEMMA CountInNone ==
  ASSUME NEW t, NEW c
  PROVE  CountIn(t, c, 0) = 0
<1>1. {j \in 1 .. 0 : t[j] = c} = {}
  OBVIOUS
<1> QED
  BY <1>1, FS_EmptySet DEF CountIn

LEMMA CountInStep ==
  ASSUME NEW t, NEW c, NEW k \in Nat
  PROVE  CountIn(t, c, k + 1) = CountIn(t, c, k) + IF t[k + 1] = c THEN 1 ELSE 0
<1> DEFINE C(n) == {j \in 1 .. n : t[j] = c}
<1>1. IsFiniteSet(C(k))
  <2>1. IsFiniteSet(1 .. k)
    BY FS_Interval
  <2> QED
    BY <2>1, FS_Subset
<1>2. k + 1 \notin C(k) /\ 1 .. k + 1 = 1 .. k \cup {k + 1}
  OBVIOUS
<1>3. C(k + 1) = IF t[k + 1] = c THEN C(k) \cup {k + 1} ELSE C(k)
  BY <1>2
<1>4. Cardinality(C(k)) \in Nat
  BY <1>1, FS_CardinalityType
<1>5. /\ CountIn(t, c, k) = Cardinality(C(k))
      /\ CountIn(t, c, k + 1) = Cardinality(C(k + 1))
  BY DEF CountIn
<1> HIDE DEF C
<1>6. CASE t[k + 1] = c
  BY <1>1, <1>2, <1>3, <1>5, <1>6, FS_AddElement
<1>7. CASE t[k + 1] # c
  BY <1>3, <1>4, <1>5, <1>7
<1> QED
  BY <1>6, <1>7

LEMMA CountType ==
  ASSUME NEW c, NEW k \in Nat
  PROVE  Count(c, k) \in Nat
BY CountInType DEF Count, CountIn

LEMMA CountNone ==
  ASSUME NEW c
  PROVE  Count(c, 0) = 0
BY CountInNone DEF Count, CountIn

LEMMA CountStep ==
  ASSUME NEW c, NEW k \in Nat
  PROVE  Count(c, k + 1) = Count(c, k) + IF s[k + 1] = c THEN 1 ELSE 0
<1>1. CountIn(s, c, k + 1)
        = CountIn(s, c, k) + IF s[k + 1] = c THEN 1 ELSE 0
  BY CountInStep
<1> QED
  BY <1>1 DEF Count, CountIn

(* A step of the loop within one expression.                               *)
LEMMA SameCounts ==
  ASSUME s' = s, NEW k
  PROVE  /\ \A c : Count(c, k)' = Count(c, k)
         /\ Offends(k)' = Offends(k) /\ Foreign(k)' = Foreign(k)
BY DEF Count, Offends, Foreign

LEMMA AtPosition ==
  ASSUME CheckInv, answer = "checking", i # Len(s)
  PROVE  /\ i \in Nat /\ i + 1 \in 1 .. Len(s) /\ i + 1 \in DOMAIN s
         /\ i + 1 \in 0 .. Len(s)
         /\ Count("(", i) \in Nat /\ Count(")", i) \in Nat
         /\ nested_level = Count("(", i) - Count(")", i)
         /\ \A k \in 1 .. i : ~Offends(k)
         /\ Count("(", i + 1)
              = Count("(", i) + IF s[i + 1] = "(" THEN 1 ELSE 0
         /\ Count(")", i + 1)
              = Count(")", i) + IF s[i + 1] = ")" THEN 1 ELSE 0
<1>1. Len(s) \in Nat /\ DOMAIN s = 1 .. Len(s)
  BY LenProperties DEF CheckInv, CheckTypeOK
<1>2. i \in 0 .. Len(s)
  BY DEF CheckInv, CheckTypeOK
<1>3. i \in Nat /\ i + 1 \in 1 .. Len(s) /\ i + 1 \in 0 .. Len(s)
  <2>1. i # Len(s) /\ Len(s) \in Nat
    BY <1>1
  <2> QED
    BY ONLY <1>2, <2>1
<1>4. /\ nested_level = Count("(", i) - Count(")", i)
      /\ \A k \in 1 .. i : ~Offends(k)
  BY DEF CheckInv
<1> QED
  BY <1>1, <1>3, <1>4, CountType, CountStep

LEMMA OpenKeeps ==
  ASSUME CheckInv, Open
  PROVE  CheckInv'
<1>1. /\ answer = "checking" /\ i # Len(s) /\ s[i + 1] = "("
      /\ nested_level' = nested_level + 1 /\ i' = i + 1
      /\ s' = s /\ answer' = "checking"
  BY DEF Open
<1>2. CheckTypeOK'
  <2>1. nested_level' \in Int
    BY <1>1 DEF CheckInv, CheckTypeOK
  <2>2. i' \in 0 .. Len(s')
    BY <1>1, AtPosition
  <2> QED
    BY <1>1, <2>1, <2>2 DEF CheckInv, CheckTypeOK
<1>3. /\ Count("(", i + 1) = Count("(", i) + 1
      /\ Count(")", i + 1) = Count(")", i)
  <2>1. Count(")", i + 1) = Count(")", i) + 0 /\ Count(")", i) \in Nat
    BY <1>1, AtPosition
  <2> QED
    BY <1>1, <2>1, AtPosition
<1>4. nested_level' = Count("(", i') - Count(")", i') /\ nested_level' >= 0
  <2>1. /\ nested_level = Count("(", i) - Count(")", i)
        /\ Count("(", i) \in Nat /\ Count(")", i) \in Nat
    BY <1>1, AtPosition
  <2>2. nested_level >= 0 /\ nested_level' = nested_level + 1
    BY <1>1 DEF CheckInv
  <2>3. Count("(", i') = Count("(", i) + 1 /\ Count(")", i') = Count(")", i)
    BY <1>1, <1>3
  <2> QED
    BY ONLY <2>1, <2>2, <2>3
<1>5. \A k \in 1 .. i' : ~Offends(k)
  <2>1. ~Offends(i + 1)
    BY <1>1 DEF Offends, Foreign
  <2>2. \A k \in 1 .. i + 1 : k = i + 1 \/ k \in 1 .. i
    BY <1>1, AtPosition
  <2> QED
    BY <1>1, <2>1, <2>2, AtPosition
<1> QED
  BY <1>1, <1>2, <1>4, <1>5, SameCounts DEF CheckInv, ReportsFirstOffender

LEMMA CloseKeeps ==
  ASSUME CheckInv, Close
  PROVE  CheckInv'
<1>1. /\ answer = "checking" /\ i # Len(s) /\ s[i + 1] = ")"
      /\ nested_level' = nested_level - 1 /\ s' = s
  BY DEF Close
<1>2. /\ nested_level = Count("(", i) - Count(")", i) /\ nested_level >= 0
      /\ Count("(", i) \in Nat /\ Count(")", i) \in Nat
  BY <1>1, AtPosition DEF CheckInv
<1>3. /\ Count("(", i + 1) = Count("(", i)
      /\ Count(")", i + 1) = Count(")", i) + 1
  <2>1. Count("(", i + 1) = Count("(", i) + 0
    BY <1>1, AtPosition
  <2> QED
    BY <1>1, <1>2, <2>1, AtPosition
<1>4. nested_level' \in Int
  BY ONLY <1>1, <1>2
<1>5. CASE nested_level' < 0 /\ answer' = "unbalanced" /\ i' = i
  <2>1. Count(")", i + 1) > Count("(", i + 1)
    BY ONLY <1>1, <1>2, <1>3, <1>5
  <2>2. i + 1 - 1 = i
    BY <1>1, AtPosition
  <2>3. FirstOffender(i + 1)
    BY <1>1, <2>1, <2>2, AtPosition DEF FirstOffender, Offends
  <2>4. FirstOffender(i + 1)' /\ s'[i' + 1] = ")"
    BY <1>1, <1>5, <2>3, SameCounts DEF FirstOffender
  <2>5. CheckTypeOK'
    BY <1>1, <1>4, <1>5 DEF CheckInv, CheckTypeOK
  <2> QED
    BY <1>5, <2>4, <2>5 DEF CheckInv, ReportsFirstOffender
<1>6. CASE nested_level' >= 0 /\ answer' = answer /\ i' = i + 1
  <2>1. CheckTypeOK'
    <3>1. i' \in 0 .. Len(s')
      BY <1>1, <1>6, AtPosition
    <3> QED
      BY <1>1, <1>4, <1>6, <3>1 DEF CheckInv, CheckTypeOK
  <2>2. /\ nested_level' = Count("(", i + 1) - Count(")", i + 1)
        /\ ~(Count(")", i + 1) > Count("(", i + 1))
    BY ONLY <1>1, <1>2, <1>3, <1>6
  <2>3. \A k \in 1 .. i' : ~Offends(k)
    <3>1. ~Offends(i + 1)
      BY <1>1, <2>2 DEF Offends, Foreign
    <3>2. \A k \in 1 .. i + 1 : k = i + 1 \/ k \in 1 .. i
      BY <1>1, AtPosition
    <3> QED
      BY <1>1, <1>6, <3>1, <3>2, AtPosition
  <2> QED
    BY <1>1, <1>6, <2>1, <2>2, <2>3, SameCounts
       DEF CheckInv, ReportsFirstOffender
<1> QED
  BY <1>5, <1>6 DEF Close

(* The invariant of the loop over the characters, for any expression.      *)
THEOREM CheckInvariant == CheckSpec => []CheckInv
<1>1. CheckInit => CheckInv
  <2> SUFFICES ASSUME CheckInit
               PROVE  CheckInv
    OBVIOUS
  <2>1. s \in Seq(Characters) /\ Len(s) = 0
    BY EmptySeq DEF CheckInit
  <2> QED
    BY <2>1 DEF CheckInit, CheckInv, CheckTypeOK, ReportsFirstOffender
<1>2. CheckInv /\ [CheckNext]_checkVars => CheckInv'
  <2> SUFFICES ASSUME CheckInv, [CheckNext]_checkVars
               PROVE  CheckInv'
    OBVIOUS
  <2>1. CASE ReadExpression
    <3>1. /\ answer' = "checking" /\ s' \in Seq(Characters)
          /\ i' = 0 /\ nested_level' = 0
      BY <2>1, ExpressionAssumption DEF ReadExpression
    <3>2. Len(s') \in Nat
      BY <3>1, LenProperties
    <3>3. \A c : Count(c, 0)' = 0
      BY CountNone, FS_EmptySet DEF Count
    <3> QED
      BY <3>1, <3>2, <3>3 DEF CheckInv, CheckTypeOK, ReportsFirstOffender
  <2>2. CASE Open
    BY <2>2, OpenKeeps
  <2>3. CASE Close
    BY <2>3, CloseKeeps
  <2>4. CASE Throw
    <3>1. /\ answer = "checking" /\ i # Len(s) /\ s[i + 1] \notin {"(", ")"}
          /\ answer' = "thrown" /\ s' = s /\ i' = i
          /\ nested_level' = nested_level
      BY <2>4 DEF Throw
    <3>2. i + 1 - 1 = i
      BY <3>1, AtPosition
    <3>3. FirstOffender(i + 1) /\ Foreign(i + 1)
      BY <3>1, <3>2, AtPosition DEF FirstOffender, Offends, Foreign
    <3>4. FirstOffender(i + 1)' /\ Foreign(i + 1)'
      BY <3>1, <3>3, SameCounts DEF FirstOffender
    <3> QED
      BY <3>1, <3>4 DEF CheckInv, CheckTypeOK, ReportsFirstOffender
  <2>5. CASE Return
    <3>1. /\ answer = "checking" /\ i = Len(s)
          /\ answer' = "silent" /\ s' = s /\ i' = i
          /\ nested_level' = nested_level
      BY <2>5 DEF Return
    <3>2. \A k \in DOMAIN s : ~Offends(k)
      BY <3>1, LenProperties DEF CheckInv, CheckTypeOK
    <3> QED
      BY <3>1, <3>2, SameCounts DEF CheckInv, CheckTypeOK, ReportsFirstOffender
  <2>6. CASE UNCHANGED checkVars
    BY <2>6, SameCounts
       DEF checkVars, CheckInv, CheckTypeOK, ReportsFirstOffender,
           FirstOffender
  <2> QED
    BY <2>1, <2>2, <2>3, <2>4, <2>5, <2>6 DEF CheckNext
<1> QED
  BY <1>1, <1>2, PTL DEF CheckSpec

(* For an expression of any length, what is reported is its first ')' that *)
(* closes nothing, and nothing is reported of one without an offender.     *)
THEOREM FirstOffenderReported == CheckSpec => []ReportsFirstOffender
<1>1. CheckInv => ReportsFirstOffender
  BY DEF CheckInv
<1> QED
  BY <1>1, CheckInvariant, PTL

-----------------------------------------------------------------------------
(* The parenthesis checker: what passes is balanced but for missing ')'. *)

LEMMA GreatestNatural ==
  ASSUME NEW m \in Nat, NEW T, T \subseteq 0 .. m, T # {}
  PROVE  \E x \in T : \A k \in T : k <= x
<1> DEFINE Below == {m - k : k \in T}
<1>1. Below \subseteq Nat /\ Below # {}
  <2>1. ASSUME NEW k \in T
        PROVE  m - k \in Nat
    <3>1. k \in 0 .. m
      OBVIOUS
    <3> QED
      BY ONLY <3>1, m \in Nat
  <2>2. Below \subseteq Nat
    BY <2>1
  <2>3. PICK k : k \in T
    OBVIOUS
  <2>4. m - k \in Below
    BY <2>3
  <2> QED
    BY ONLY <2>2, <2>4
<1>2. PICK n \in Below : \A k \in Below : n <= k
  BY ONLY <1>1, LeastNatural
<1>3. PICK x \in T : n = m - x
  BY <1>2
<1>4. ASSUME NEW k \in T
      PROVE  k <= x
  <2>1. m - x <= m - k
    BY <1>2, <1>3
  <2>2. x \in Int /\ k \in Int
    OBVIOUS
  <2> QED
    BY ONLY <2>1, <2>2, m \in Nat
<1> QED
  BY <1>4

(* The pairs and the unpaired '(' after m characters. *)
PrefixPairs(t, m, pair, open) ==
  /\ pair = [k \in DOMAIN pair |-> pair[k]] /\ Pairs(pair)
  /\ {k \in 1 .. m : t[k] = "("} = open \cup DOMAIN pair
  /\ {k \in 1 .. m : t[k] = ")"} = {pair[k] : k \in DOMAIN pair}
  /\ \A u \in open : u \notin DOMAIN pair
  /\ \A u \in open, j \in DOMAIN pair : j < u => pair[j] < u
  /\ IsFiniteSet(open)
  /\ Cardinality(open) = CountIn(t, "(", m) - CountIn(t, ")", m)

LEMMA OpenPairs ==
  ASSUME NEW t, NEW m \in Nat, NEW pair, NEW open,
         PrefixPairs(t, m, pair, open), t[m + 1] = "("
  PROVE  PrefixPairs(t, m + 1, pair, open \cup {m + 1})
<1> DEFINE more == open \cup {m + 1}
<1>1. \A k : k \in 1 .. m + 1 <=> k \in 1 .. m \/ k = m + 1
  BY ONLY m \in Nat
<1>2. /\ {k \in 1 .. m + 1 : t[k] = "("} = {k \in 1 .. m : t[k] = "("} \cup {m + 1}
      /\ {k \in 1 .. m + 1 : t[k] = ")"} = {k \in 1 .. m : t[k] = ")"}
  BY <1>1
<1>3. /\ open \subseteq 1 .. m /\ DOMAIN pair \subseteq 1 .. m
      /\ \A k \in DOMAIN pair : pair[k] \in 1 .. m
  BY DEF PrefixPairs
<1>4. m + 1 \notin 1 .. m /\ \A k \in 1 .. m : k < m + 1
  BY ONLY m \in Nat
<1>5. \A u \in more : u \notin DOMAIN pair
  BY <1>3, <1>4 DEF PrefixPairs
<1>6. \A u \in more, j \in DOMAIN pair : j < u => pair[j] < u
  BY <1>3, <1>4 DEF PrefixPairs
<1>7. IsFiniteSet(more) /\ Cardinality(more) = Cardinality(open) + 1
  BY <1>3, <1>4, FS_AddElement DEF PrefixPairs
<1>8. /\ CountIn(t, "(", m + 1) = CountIn(t, "(", m) + 1
      /\ CountIn(t, ")", m + 1) = CountIn(t, ")", m) + 0
  BY CountInStep
<1>9. CountIn(t, "(", m) \in Nat /\ CountIn(t, ")", m) \in Nat
  BY CountInType
<1>10. Cardinality(open) = CountIn(t, "(", m) - CountIn(t, ")", m)
  BY DEF PrefixPairs
<1>11. Cardinality(more) = CountIn(t, "(", m + 1) - CountIn(t, ")", m + 1)
  BY ONLY <1>7, <1>8, <1>9, <1>10
<1> QED
  BY <1>2, <1>5, <1>6, <1>7, <1>11 DEF PrefixPairs

LEMMA ClosePairs ==
  ASSUME NEW t, NEW m \in Nat, NEW pair, NEW open,
         PrefixPairs(t, m, pair, open), t[m + 1] = ")", open # {}
  PROVE  \E pair2, less : PrefixPairs(t, m + 1, pair2, less)
<1>1. \A k : k \in 1 .. m + 1 <=> k \in 1 .. m \/ k = m + 1
  BY ONLY m \in Nat
<1>2. /\ {k \in 1 .. m + 1 : t[k] = ")"} = {k \in 1 .. m : t[k] = ")"} \cup {m + 1}
      /\ {k \in 1 .. m + 1 : t[k] = "("} = {k \in 1 .. m : t[k] = "("}
  BY <1>1
<1>3. /\ open \subseteq 1 .. m /\ DOMAIN pair \subseteq 1 .. m
      /\ \A k \in DOMAIN pair : pair[k] \in 1 .. m
  BY DEF PrefixPairs
<1>4. m + 1 \notin 1 .. m /\ \A k \in 1 .. m : k < m + 1
  BY ONLY m \in Nat
<1>5. PICK u \in open : \A k \in open : k <= u
  <2>1. open \subseteq 0 .. m
    BY <1>3
  <2> QED
    BY ONLY <2>1, open # {}, m \in Nat, GreatestNatural
<1> DEFINE less == open \ {u}
           pair2 == [k \in DOMAIN pair \cup {u} |->
                       IF k = u THEN m + 1 ELSE pair[k]]
<1>6. u \notin DOMAIN pair
  BY DEF PrefixPairs
<1>7. /\ DOMAIN pair2 = DOMAIN pair \cup {u}
      /\ pair2[u] = m + 1
      /\ \A k \in DOMAIN pair : pair2[k] = pair[k]
  BY <1>6
<1>8. pair2 = [k \in DOMAIN pair2 |-> pair2[k]]
  OBVIOUS
<1> HIDE DEF pair2
<1>9. open \cup DOMAIN pair = less \cup DOMAIN pair2
  BY <1>7
<1>10. {pair2[k] : k \in DOMAIN pair2} = {pair[k] : k \in DOMAIN pair} \cup {m + 1}
  BY <1>6, <1>7
<1>11. \A w \in less : w \notin DOMAIN pair2
  BY <1>7 DEF PrefixPairs
<1>12. \A w \in less : w < u
  BY <1>3, <1>5
<1>13. \A w \in less, j \in DOMAIN pair2 : j < w => pair2[j] < w
  <2> SUFFICES ASSUME NEW w \in less, NEW j \in DOMAIN pair2, j < w
               PROVE  pair2[j] < w
    OBVIOUS
  <2>1. j # u
    BY <1>3, <1>12
  <2> QED
    BY <1>7, <2>1 DEF PrefixPairs
<1>14. Pairs(pair2)
  <2> SUFFICES ASSUME NEW j \in DOMAIN pair2
               PROVE  /\ j < pair2[j]
                      /\ \A k \in DOMAIN pair2 :
                           j < k => pair2[j] < k \/ pair2[k] < pair2[j]
    BY DEF Pairs
  <2>1. /\ \A k \in DOMAIN pair : k < pair[k]
        /\ \A k, l \in DOMAIN pair : k < l => pair[k] < l \/ pair[l] < pair[k]
        /\ \A k \in DOMAIN pair : k < u => pair[k] < u
    BY DEF PrefixPairs, Pairs
  <2>2. CASE j = u
    <3>1. u < m + 1
      BY <1>3, <1>4
    <3>2. \A k \in DOMAIN pair2 : k = u \/ pair2[k] < m + 1
      BY <1>3, <1>4, <1>7
    <3>3. ~(u < u)
      BY <1>3
    <3> QED
      BY <1>7, <2>2, <3>1, <3>2, <3>3
  <2>3. CASE j \in DOMAIN pair
    BY <1>7, <2>1, <2>3
  <2> QED
    BY <1>7, <2>2, <2>3
<1>15. IsFiniteSet(less) /\ Cardinality(less) = Cardinality(open) - 1
  BY FS_RemoveElement DEF PrefixPairs
<1>16. /\ CountIn(t, ")", m + 1) = CountIn(t, ")", m) + 1
       /\ CountIn(t, "(", m + 1) = CountIn(t, "(", m) + 0
  BY CountInStep
<1>17. CountIn(t, "(", m) \in Nat /\ CountIn(t, ")", m) \in Nat
  BY CountInType
<1>18. Cardinality(open) = CountIn(t, "(", m) - CountIn(t, ")", m)
  BY DEF PrefixPairs
<1>19. Cardinality(less) = CountIn(t, "(", m + 1) - CountIn(t, ")", m + 1)
  BY ONLY <1>15, <1>16, <1>17, <1>18
<1>20. PrefixPairs(t, m + 1, pair2, less)
  BY <1>2, <1>8, <1>9, <1>10, <1>11, <1>13, <1>14, <1>15, <1>19 DEF PrefixPairs
<1> QED
  BY <1>20

LEMMA PairsExist ==
  ASSUME NEW L \in Nat, NEW t, \A k \in 1 .. L : t[k] \in {"(", ")"},
         \A k \in 1 .. L : CountIn(t, ")", k) <= CountIn(t, "(", k)
  PROVE  \E pair, open : PrefixPairs(t, L, pair, open)
<1> DEFINE T == {m \in Nat : m <= L =>
                   \E pair, open : PrefixPairs(t, m, pair, open)}
<1>1. 0 \in T
  <2>1. PrefixPairs(t, 0, [k \in {} |-> 0], {})
    BY CountInNone, FS_EmptySet DEF PrefixPairs, Pairs
  <2> QED
    BY <2>1
<1>2. ASSUME NEW m \in Nat, m \in T
      PROVE  m + 1 \in T
  <2>1. SUFFICES ASSUME m + 1 <= L
                 PROVE  \E pair, open : PrefixPairs(t, m + 1, pair, open)
    OBVIOUS
  <2>2. m + 1 \in 1 .. L /\ m <= L
    BY ONLY <2>1, m \in Nat, L \in Nat
  <2>3. PICK pair, open : PrefixPairs(t, m, pair, open)
    BY <1>2, <2>2
  <2>4. CASE t[m + 1] = "("
    BY <2>3, <2>4, OpenPairs
  <2>5. CASE t[m + 1] = ")"
    <3>1. open # {}
      <4>1. CountIn(t, ")", m + 1) <= CountIn(t, "(", m + 1)
        BY <2>2
      <4>2. /\ CountIn(t, ")", m + 1) = CountIn(t, ")", m) + 1
            /\ CountIn(t, "(", m + 1) = CountIn(t, "(", m) + 0
        BY <2>5, CountInStep
      <4>3. CountIn(t, "(", m) \in Nat /\ CountIn(t, ")", m) \in Nat
        BY CountInType
      <4>4. Cardinality(open) = CountIn(t, "(", m) - CountIn(t, ")", m)
        BY <2>3 DEF PrefixPairs
      <4>5. Cardinality(open) # 0
        BY ONLY <4>1, <4>2, <4>3, <4>4
      <4> QED
        BY <4>5, FS_EmptySet
    <3> QED
      BY <2>3, <2>5, <3>1, ClosePairs
  <2> QED
    BY <2>2, <2>4, <2>5
<1>3. Nat \subseteq T
  BY <1>1, <1>2, Induction
<1> QED
  BY <1>3

(* As many '(' as ')', and nowhere more of the latter: balanced. *)
LEMMA CountsBalance ==
  ASSUME NEW L \in Nat, NEW S, NEW t \in [1 .. L -> S],
         \A k \in 1 .. L : t[k] \in {"(", ")"},
         \A k \in 1 .. L : CountIn(t, ")", k) <= CountIn(t, "(", k),
         CountIn(t, ")", L) = CountIn(t, "(", L)
  PROVE  Balanced(t)
<1>1. PICK pair, open : PrefixPairs(t, L, pair, open)
  BY PairsExist
<1>2. open = {}
  <2>1. CountIn(t, "(", L) \in Nat
    BY CountInType
  <2>2. Cardinality(open) = 0 /\ IsFiniteSet(open)
    BY <1>1, <2>1 DEF PrefixPairs
  <2> QED
    BY <2>2, FS_EmptySet
<1>3. /\ Places(t, "(") = {k \in 1 .. L : t[k] = "("}
      /\ Places(t, ")") = {k \in 1 .. L : t[k] = ")"}
  BY DEF Places
<1>4. /\ Places(t, "(") = DOMAIN pair
      /\ Places(t, ")") = {pair[k] : k \in DOMAIN pair}
  BY <1>1, <1>2, <1>3 DEF PrefixPairs
<1>5. pair \in [Places(t, "(") -> Places(t, ")")] /\ Pairs(pair)
  BY <1>1, <1>4 DEF PrefixPairs
<1>6. Cardinality(Places(t, "(")) = Cardinality(Places(t, ")"))
  BY <1>3 DEF CountIn
<1>7. Places(t, "(") \cup Places(t, ")") = DOMAIN t
  BY DEF Places
<1> QED
  BY <1>4, <1>5, <1>6, <1>7 DEF Balanced

(* A balanced string has nothing but parentheses, and never more ')'. *)
LEMMA BalanceCounts ==
  ASSUME NEW L \in Nat, NEW S, NEW t \in [1 .. L -> S], Balanced(t),
         NEW k \in 1 .. L
  PROVE  t[k] \in {"(", ")"} /\ CountIn(t, ")", k) <= CountIn(t, "(", k)
<1>1. t[k] \in {"(", ")"}
  BY DEF Balanced, Places
<1>2. PICK pair \in [Places(t, "(") -> Places(t, ")")] :
        /\ {pair[j] : j \in Places(t, "(")} = Places(t, ")")
        /\ Pairs(pair)
  BY DEF Balanced
<1> DEFINE O == {j \in 1 .. k : t[j] = "("}
           C == {j \in 1 .. k : t[j] = ")"}
           I == {pair[j] : j \in O}
<1>3. IsFiniteSet(O) /\ IsFiniteSet(C)
  <2>1. IsFiniteSet(1 .. k)
    BY FS_Interval
  <2> QED
    BY <2>1, FS_Subset
<1>4. O \subseteq Places(t, "(") /\ C \subseteq Places(t, ")")
  BY DEF Places
<1>5. C \subseteq I
  <2> SUFFICES ASSUME NEW c \in C
               PROVE  c \in I
    OBVIOUS
  <2>1. PICK j \in Places(t, "(") : pair[j] = c
    BY <1>2, <1>4
  <2>2. j \in 1 .. L /\ t[j] = "(" /\ j < c /\ c \in 1 .. k
    BY <1>2, <2>1 DEF Places, Pairs
  <2>3. j \in 1 .. k
    BY ONLY <2>2, L \in Nat, k \in 1 .. L
  <2> QED
    BY <2>1, <2>2, <2>3
<1>6. IsFiniteSet(I) /\ Cardinality(I) <= Cardinality(O)
  <2> DEFINE f == [j \in O |-> pair[j]]
  <2>1. f \in Surjection(O, I)
    BY DEF Surjection
  <2> HIDE DEF f, O, I
  <2> QED
    BY <1>3, <2>1, FS_Surjection
<1>7. Cardinality(C) <= Cardinality(I)
  BY <1>5, <1>6, FS_Subset
<1>8. Cardinality(C) \in Nat /\ Cardinality(I) \in Nat /\ Cardinality(O) \in Nat
  BY <1>3, <1>6, FS_CardinalityType
<1>9. Cardinality(C) <= Cardinality(O)
  BY ONLY <1>6, <1>7, <1>8
<1> QED
  BY <1>1, <1>9 DEF CountIn

(* A string with more ')' at its end. *)
LEMMA CompletedBefore ==
  ASSUME NEW S, NEW t \in Seq(S), NEW n \in Nat,
         NEW u, u = Completed(t, n), NEW k \in 1 .. Len(t)
  PROVE  u[k] = t[k]
BY DEF Completed

LEMMA CompletedAfter ==
  ASSUME NEW S, NEW t \in Seq(S), NEW n \in Nat,
         NEW u, u = Completed(t, n), NEW k \in Len(t) + 1 .. Len(t) + n
  PROVE  u[k] = ")"
<1> DEFINE e == [j \in 1 .. n |-> ")"]
<1>1. Len(t) \in Nat
  BY LenProperties
<1>2. e \in Seq({")"}) /\ Len(e) = n
  OBVIOUS
<1>3. u = [j \in 1 .. Len(t) + n |->
             IF j <= Len(t) THEN t[j] ELSE e[j - Len(t)]]
  BY <1>1, <1>2 DEF Completed
<1>4. k \in 1 .. Len(t) + n /\ ~(k <= Len(t)) /\ k - Len(t) \in 1 .. n
  BY ONLY <1>1, n \in Nat, k \in Len(t) + 1 .. Len(t) + n
<1> QED
  BY <1>3, <1>4

LEMMA CompletedString ==
  ASSUME NEW S, NEW t \in Seq(S), NEW n \in Nat, NEW u, u = Completed(t, n)
  PROVE  u \in [1 .. Len(t) + n -> S \cup {")"}]
<1> DEFINE e == [j \in 1 .. n |-> ")"]
<1>1. Len(t) \in Nat /\ t \in [1 .. Len(t) -> S]
  BY LenProperties
<1>2. e \in Seq({")"}) /\ Len(e) = n
  OBVIOUS
<1>3. u = [j \in 1 .. Len(t) + n |-> u[j]]
  BY <1>1, <1>2 DEF Completed
<1>4. ASSUME NEW k \in 1 .. Len(t) + n
      PROVE  u[k] \in S \cup {")"}
  <2>1. CASE k \in 1 .. Len(t)
    BY <1>1, <2>1, CompletedBefore
  <2>2. CASE k \notin 1 .. Len(t)
    <3>1. k \in Len(t) + 1 .. Len(t) + n
      BY ONLY <1>1, <2>2, n \in Nat, k \in 1 .. Len(t) + n
    <3> QED
      BY <3>1, CompletedAfter
  <2> QED
    BY <2>1, <2>2
<1> QED
  BY <1>3, <1>4

LEMMA CompletedPrefix ==
  ASSUME NEW S, NEW t \in Seq(S), NEW n \in Nat,
         NEW u, u = Completed(t, n), NEW c, NEW k \in 0 .. Len(t)
  PROVE  CountIn(u, c, k) = CountIn(t, c, k)
<1>1. Len(t) \in Nat
  BY LenProperties
<1>u. \A j \in 1 .. Len(t) : u[j] = t[j]
  BY CompletedBefore
<1>2. \A j \in 1 .. k : j \in 1 .. Len(t)
  BY ONLY <1>1, k \in 0 .. Len(t)
<1>3. {j \in 1 .. k : u[j] = c} = {j \in 1 .. k : t[j] = c}
  BY <1>2, <1>u
<1> QED
  BY <1>3 DEF CountIn

(* Only a ')' can make them more than the '('. *)
LEMMA NeverMore ==
  ASSUME NEW L \in Nat, NEW t,
         \A k \in 1 .. L : t[k] = ")" => CountIn(t, ")", k) <= CountIn(t, "(", k)
  PROVE  \A k \in 0 .. L : CountIn(t, ")", k) <= CountIn(t, "(", k)
<1> DEFINE T == {m \in Nat : m <= L =>
                   CountIn(t, ")", m) <= CountIn(t, "(", m)}
<1>1. 0 \in T
  <2>1. CountIn(t, ")", 0) = 0 /\ CountIn(t, "(", 0) = 0
    BY CountInNone
  <2> QED
    BY <2>1
<1>2. ASSUME NEW m \in Nat, m \in T
      PROVE  m + 1 \in T
  <2>1. SUFFICES ASSUME m + 1 <= L
                 PROVE  CountIn(t, ")", m + 1) <= CountIn(t, "(", m + 1)
    OBVIOUS
  <2>2. m + 1 \in 1 .. L /\ m <= L
    BY ONLY <2>1, m \in Nat, L \in Nat
  <2>3. CASE t[m + 1] = ")"
    BY <2>2, <2>3
  <2>4. CASE t[m + 1] # ")"
    <3>1. CountIn(t, ")", m) <= CountIn(t, "(", m)
      BY <1>2, <2>2
    <3>2. CountIn(t, ")", m + 1) = CountIn(t, ")", m) + 0
      BY <2>4, CountInStep
    <3>3. CountIn(t, "(", m + 1)
            = CountIn(t, "(", m) + IF t[m + 1] = "(" THEN 1 ELSE 0
      BY CountInStep
    <3>4. CountIn(t, "(", m) \in Nat /\ CountIn(t, ")", m) \in Nat
      BY CountInType
    <3> QED
      BY ONLY <3>1, <3>2, <3>3, <3>4
  <2> QED
    BY <2>3, <2>4
<1>3. Nat \subseteq T
  BY <1>1, <1>2, Induction
<1> QED
  BY <1>3

LEMMA CompletedCounts ==
  ASSUME NEW S, NEW t \in Seq(S), NEW n \in Nat,
         NEW u, u = Completed(t, n)
  PROVE  \A k \in 0 .. n :
           /\ CountIn(u, ")", Len(t) + k) = CountIn(t, ")", Len(t)) + k
           /\ CountIn(u, "(", Len(t) + k) = CountIn(t, "(", Len(t))
<1> DEFINE L == Len(t)
           T == {m \in Nat : m <= n =>
                   /\ CountIn(u, ")", L + m) = CountIn(t, ")", L) + m
                   /\ CountIn(u, "(", L + m) = CountIn(t, "(", L)}
<1>1. L \in Nat /\ L \in 0 .. L
  BY LenProperties
<1>2. /\ \A c, k : k \in 0 .. L => CountIn(u, c, k) = CountIn(t, c, k)
      /\ \A k \in L + 1 .. L + n : u[k] = ")"
  <2>1. \A k \in L + 1 .. L + n : u[k] = ")"
    BY CompletedAfter
  <2>2. \A c, k : k \in 0 .. L => CountIn(u, c, k) = CountIn(t, c, k)
    BY CompletedPrefix
  <2> QED
    BY <2>1, <2>2
<1>3. CountIn(t, ")", L) \in Nat /\ CountIn(t, "(", L) \in Nat
  BY <1>1, CountInType
<1> HIDE DEF L
<1>4. 0 \in T
  <2>1. L + 0 = L /\ CountIn(t, ")", L) + 0 = CountIn(t, ")", L)
    BY ONLY <1>1, <1>3
  <2> QED
    BY <1>1, <1>2, <2>1
<1>5. ASSUME NEW m \in Nat, m \in T
      PROVE  m + 1 \in T
  <2>1. SUFFICES ASSUME m + 1 <= n
                 PROVE  /\ CountIn(u, ")", L + (m + 1))
                             = CountIn(t, ")", L) + (m + 1)
                        /\ CountIn(u, "(", L + (m + 1)) = CountIn(t, "(", L)
    OBVIOUS
  <2>2. /\ (L + m) + 1 \in L + 1 .. L + n /\ m <= n
        /\ L + m \in Nat /\ L + (m + 1) = (L + m) + 1
    BY ONLY <1>1, <2>1, m \in Nat, n \in Nat
  <2>3. u[(L + m) + 1] = ")"
    BY <1>2, <2>2
  <2>4. /\ CountIn(u, ")", L + m) = CountIn(t, ")", L) + m
        /\ CountIn(u, "(", L + m) = CountIn(t, "(", L)
    BY <1>5, <2>2
  <2>5. /\ CountIn(u, ")", (L + m) + 1) = CountIn(u, ")", L + m) + 1
        /\ CountIn(u, "(", (L + m) + 1) = CountIn(u, "(", L + m) + 0
    <3> DEFINE k == L + m
    <3>1. k \in Nat /\ u[k + 1] = ")"
      BY <2>2, <2>3
    <3> HIDE DEF k
    <3>2. /\ CountIn(u, ")", k + 1) = CountIn(u, ")", k) + 1
          /\ CountIn(u, "(", k + 1) = CountIn(u, "(", k) + 0
      BY <3>1, CountInStep
    <3> QED
      BY <3>2 DEF k
  <2> QED
    BY ONLY <1>3, <2>2, <2>4, <2>5, m \in Nat
<1>6. Nat \subseteq T
  BY <1>4, <1>5, Induction
<1>7. \A k \in 0 .. n : k \in T /\ k <= n
  BY <1>6
<1> QED
  BY <1>7 DEF L

LEMMA BalancedCompletion ==
  ASSUME NEW S, NEW t \in Seq(S),
         \A k \in 1 .. Len(t) : /\ t[k] \in {"(", ")"}
                                /\ CountIn(t, ")", k) <= CountIn(t, "(", k)
  PROVE  \E n \in 0 .. Len(t) : Balanced(Completed(t, n))
<1> DEFINE L == Len(t)
           n == CountIn(t, "(", L) - CountIn(t, ")", L)
           u == Completed(t, n)
<1>1. L \in Nat /\ (L = 0 \/ L \in 1 .. L)
  BY LenProperties
<1>2. /\ CountIn(t, "(", L) \in Nat /\ CountIn(t, ")", L) \in Nat
      /\ CountIn(t, "(", L) <= L
  BY <1>1, CountInType
<1>3. CountIn(t, ")", L) <= CountIn(t, "(", L)
  <2>1. CASE L = 0
    <3>1. CountIn(t, ")", 0) = 0 /\ CountIn(t, "(", 0) = 0
      BY CountInNone
    <3> QED
      BY ONLY <2>1, <3>1
  <2> QED
    BY <1>1, <2>1
<1>4. n \in 0 .. L /\ n \in Nat
  BY ONLY <1>1, <1>2, <1>3
<1> HIDE DEF n
<1>5. /\ u \in [1 .. L + n -> S \cup {")"}]
      /\ \A k \in 1 .. L : u[k] = t[k]
      /\ \A k \in L + 1 .. L + n : u[k] = ")"
      /\ \A c, k : k \in 0 .. L => CountIn(u, c, k) = CountIn(t, c, k)
  <2>1. u \in [1 .. L + n -> S \cup {")"}]
    BY <1>4, CompletedString
  <2>2. \A k \in 1 .. L : u[k] = t[k]
    BY <1>4, CompletedBefore
  <2>3. \A k \in L + 1 .. L + n : u[k] = ")"
    BY <1>4, CompletedAfter
  <2>4. \A c, k : k \in 0 .. L => CountIn(u, c, k) = CountIn(t, c, k)
    BY <1>4, CompletedPrefix
  <2> QED
    BY <2>1, <2>2, <2>3, <2>4
<1>6. \A k \in 0 .. n :
        /\ CountIn(u, ")", L + k) = CountIn(t, ")", L) + k
        /\ CountIn(u, "(", L + k) = CountIn(t, "(", L)
  BY <1>4, CompletedCounts
<1> HIDE DEF L, u
<1>7. ASSUME NEW k \in 1 .. L + n
      PROVE  u[k] \in {"(", ")"} /\ CountIn(u, ")", k) <= CountIn(u, "(", k)
  <2>1. CASE k \in 1 .. L
    <3>1. k \in 0 .. L
      BY ONLY <1>1, <2>1
    <3> QED
      BY <1>5, <2>1, <3>1 DEF L
  <2>2. CASE k \notin 1 .. L
    <3>1. PICK j \in 1 .. n : k = L + j
      <4>1. k - L \in 1 .. n /\ k = L + (k - L)
        BY ONLY <1>1, <1>4, <2>2, k \in 1 .. L + n
      <4> QED
        BY <4>1
    <3>2. j \in 0 .. n
      BY ONLY <1>4, j \in 1 .. n
    <3>3. /\ CountIn(u, ")", k) = CountIn(t, ")", L) + j
          /\ CountIn(u, "(", k) = CountIn(t, "(", L)
      BY <1>6, <3>1, <3>2
    <3>4. CountIn(u, ")", k) <= CountIn(u, "(", k)
      BY ONLY <1>2, <1>4, <3>2, <3>3 DEF n
    <3>5. k \in L + 1 .. L + n
      BY ONLY <1>1, <1>4, <2>2, k \in 1 .. L + n
    <3> QED
      BY <1>5, <3>4, <3>5
  <2> QED
    BY <2>1, <2>2
<1>8. CountIn(u, ")", L + n) = CountIn(u, "(", L + n)
  <2>1. n \in 0 .. n
    BY ONLY <1>4
  <2>2. /\ CountIn(u, ")", L + n) = CountIn(t, ")", L) + n
        /\ CountIn(u, "(", L + n) = CountIn(t, "(", L)
    BY <1>6, <2>1
  <2> QED
    BY ONLY <1>2, <2>2 DEF n
<1>9. Balanced(u)
  <2>1. L + n \in Nat
    BY ONLY <1>1, <1>4
  <2> QED
    BY <1>5, <1>7, <1>8, <2>1, CountsBalance
<1> QED
  BY <1>4, <1>9 DEF L, u

LEMMA NoCompletion ==
  ASSUME NEW S, NEW t \in Seq(S), NEW j \in 1 .. Len(t),
         t[j] \in {"(", ")"} => CountIn(t, ")", j) > CountIn(t, "(", j),
         NEW n \in 0 .. Len(t), NEW u, u = Completed(t, n)
  PROVE  ~Balanced(u)
<1>1. Len(t) \in Nat /\ n \in Nat
  BY LenProperties
<1>2. /\ u \in [1 .. Len(t) + n -> S \cup {")"}]
      /\ \A k \in 1 .. Len(t) : u[k] = t[k]
      /\ \A c, k : k \in 0 .. Len(t) => CountIn(u, c, k) = CountIn(t, c, k)
  <2>1. u \in [1 .. Len(t) + n -> S \cup {")"}]
    BY <1>1, CompletedString
  <2>2. \A k \in 1 .. Len(t) : u[k] = t[k]
    BY <1>1, CompletedBefore
  <2>3. \A c, k : k \in 0 .. Len(t) => CountIn(u, c, k) = CountIn(t, c, k)
    BY <1>1, CompletedPrefix
  <2> QED
    BY <2>1, <2>2, <2>3
<1>3. j \in 0 .. Len(t) /\ j \in 1 .. Len(t) + n /\ Len(t) + n \in Nat /\ j \in Nat
  BY ONLY <1>1, j \in 1 .. Len(t)
<1>4. u[j] = t[j] /\ CountIn(u, ")", j) = CountIn(t, ")", j)
      /\ CountIn(u, "(", j) = CountIn(t, "(", j)
  BY <1>2, <1>3
<1>5. SUFFICES ASSUME Balanced(u)
               PROVE  FALSE
  OBVIOUS
<1>6. u[j] \in {"(", ")"} /\ CountIn(u, ")", j) <= CountIn(u, "(", j)
  BY <1>2, <1>3, <1>5, BalanceCounts
<1>7. CountIn(t, ")", j) \in Nat /\ CountIn(t, "(", j) \in Nat
  BY <1>3, CountInType
<1>8. CountIn(t, ")", j) > CountIn(t, "(", j)
  BY <1>4, <1>6
<1>9. CountIn(t, ")", j) <= CountIn(t, "(", j)
  BY <1>4, <1>6
<1> QED
  BY ONLY <1>7, <1>8, <1>9

(* For expressions of any length: an expression passes exactly when it is  *)
(* balanced or only lacks ')' at its end. That is all the program misses.  *)
THEOREM CompletableSilent == CheckSpec => []SilentWhenCompletable
<1>1. CheckInv => SilentWhenCompletable
  <2> SUFFICES ASSUME CheckInv, answer \in {"silent", "unbalanced", "thrown"}
               PROVE  answer = "silent" <=>
                        \E n \in 0 .. Len(s) : Balanced(Completed(s, n))
    BY DEF SilentWhenCompletable, Answered
  <2> DEFINE L == Len(s)
  <2>1. L \in Nat /\ s \in Seq(Characters) /\ DOMAIN s = 1 .. L
    BY LenProperties DEF CheckInv, CheckTypeOK
  <2>2. \A c, k : Count(c, k) = CountIn(s, c, k)
    BY DEF Count, CountIn
  <2>3. ASSUME answer = "silent"
        PROVE  \E n \in 0 .. L : Balanced(Completed(s, n))
    <3>1. ASSUME NEW k \in 1 .. L
          PROVE  /\ s[k] \in {"(", ")"}
                 /\ s[k] = ")" => ~(CountIn(s, ")", k) > CountIn(s, "(", k))
      BY <2>1, <2>2, <2>3 DEF CheckInv, ReportsFirstOffender, Offends, Foreign
    <3>2. ASSUME NEW k \in 1 .. L, s[k] = ")"
          PROVE  CountIn(s, ")", k) <= CountIn(s, "(", k)
      <4>1. CountIn(s, ")", k) \in Nat /\ CountIn(s, "(", k) \in Nat
        BY CountInType
      <4>2. ~(CountIn(s, ")", k) > CountIn(s, "(", k))
        BY <3>1, <3>2
      <4> QED
        BY ONLY <4>1, <4>2
    <3>3. \A k \in 0 .. L : CountIn(s, ")", k) <= CountIn(s, "(", k)
      BY ONLY <2>1, <3>2, NeverMore
    <3>4. \A k \in 1 .. L : k \in 0 .. L
      BY ONLY <2>1
    <3> QED
      BY <2>1, <3>1, <3>3, <3>4, BalancedCompletion
  <2>4. ASSUME answer # "silent"
        PROVE  ~\E n \in 0 .. L : Balanced(Completed(s, n))
    <3>1. FirstOffender(i + 1)
      BY <2>4 DEF CheckInv, ReportsFirstOffender
    <3>2. PICK j \in 1 .. L : Offends(j)
      BY <2>1, <3>1 DEF FirstOffender
    <3>3. s[j] \in {"(", ")"} => CountIn(s, ")", j) > CountIn(s, "(", j)
      BY <2>2, <3>2 DEF Offends, Foreign
    <3> QED
      BY <2>1, <3>3, NoCompletion
  <2> QED
    BY <2>3, <2>4
<1> QED
  BY <1>1, CheckInvariant, PTL

(* A balanced expression of any length is never reported. *)
THEOREM BalancedNeverReported == CheckSpec => []BalancedAccepted
<1>1. CheckInv /\ SilentWhenCompletable => BalancedAccepted
  <2> SUFFICES ASSUME CheckInv, SilentWhenCompletable, Answered, Balanced(s)
               PROVE  answer = "silent"
    BY DEF BalancedAccepted
  <2> DEFINE L == Len(s)
             u == Completed(s, 0)
  <2>1. L \in Nat /\ s \in Seq(Characters) /\ s \in [1 .. L -> Characters]
    BY LenProperties DEF CheckInv, CheckTypeOK
  <2>2. 0 \in Nat /\ L + 0 = L /\ 0 \in 0 .. L
    BY ONLY <2>1
  <2>3. /\ u \in [1 .. L -> Characters \cup {")"}]
        /\ \A k \in 1 .. L : u[k] = s[k]
    <3>1. u \in [1 .. L + 0 -> Characters \cup {")"}]
      BY <2>1, <2>2, CompletedString
    <3>2. \A k \in 1 .. L : u[k] = s[k]
      BY <2>1, <2>2, CompletedBefore
    <3> QED
      BY <2>2, <3>1, <3>2
  <2>4. u = s
    <3> HIDE DEF u, L
    <3> QED
      BY <2>1, <2>3
  <2>5. \E n \in 0 .. L : Balanced(Completed(s, n))
    BY <2>2, <2>4
  <2> QED
    BY <2>5 DEF SilentWhenCompletable
<1> QED
  BY <1>1, CheckInvariant, CompletableSilent, PTL

-----------------------------------------------------------------------------
(* The Fibonacci numbers. *)

LEMMA FibonacciNumbers ==
  /\ Fib[0] = 0 /\ Fib[1] = 1
  /\ \A n \in Nat : Fib[n] \in Nat /\ Fib[n + 2] = Fib[n + 1] + Fib[n]
<1> DEFINE S == Nat \X Nat
           b == <<0, 1>>
           g == [p \in Nat \X S |-> <<p[2][2], p[2][1] + p[2][2]>>]
<1>1. b \in S /\ b[1] = 0 /\ b[2] = 1
  OBVIOUS
<1>2. ASSUME NEW k \in Nat, NEW p \in S
      PROVE  /\ g[<<k, p>>] \in S
             /\ g[<<k, p>>][1] = p[2] /\ g[<<k, p>>][2] = p[1] + p[2]
  <2>1. p[1] \in Nat /\ p[2] \in Nat
    OBVIOUS
  <2>2. g[<<k, p>>] = <<p[2], p[1] + p[2]>>
    OBVIOUS
  <2> HIDE DEF g
  <2> QED
    BY <2>1, <2>2
<1> HIDE DEF g, b, S
<1>3. PICK f \in [Nat -> S] : Follows(f, b, g)
  <2>1. b \in S
    BY <1>1
  <2>2. \A k \in Nat, p \in S : g[<<k, p>>] \in S
    BY <1>2
  <2> QED
    BY ONLY <2>1, <2>2, RecForever
<1>4. f[0] = b
  BY <1>3 DEF Follows
<1>5. ASSUME NEW n \in Nat
      PROVE  f[n] \in S /\ f[n + 1] = g[<<n + 1, f[n]>>]
  BY <1>3 DEF Follows
<1> DEFINE fib == [n \in Nat |-> f[n][1]]
<1>6. ASSUME NEW n \in Nat
      PROVE  /\ f[n][1] \in Nat /\ f[n][2] \in Nat
             /\ f[n + 1][1] = f[n][2] /\ f[n + 1][2] = f[n][1] + f[n][2]
  <2>1. n + 1 \in Nat
    OBVIOUS
  <2>2. /\ g[<<n + 1, f[n]>>][1] = f[n][2]
        /\ g[<<n + 1, f[n]>>][2] = f[n][1] + f[n][2]
    BY <1>2, <1>5, <2>1
  <2>3. f[n][1] \in Nat /\ f[n][2] \in Nat
    BY <1>5 DEF S
  <2> QED
    BY <1>5, <2>2, <2>3
<1>7. \A n \in Nat : fib[n] = f[n][1]
  OBVIOUS
<1> HIDE DEF fib
<1>8. fib[0] = 0 /\ fib[1] = 1
  <2>1. 0 \in Nat /\ 1 \in Nat /\ 0 + 1 = 1
    OBVIOUS
  <2> QED
    BY <1>1, <1>4, <1>6, <1>7, <2>1
<1>9. ASSUME NEW n \in Nat
      PROVE  fib[n] \in Nat /\ fib[n + 2] = fib[n + 1] + fib[n]
  <2>1. n + 1 \in Nat /\ n + 2 \in Nat /\ (n + 1) + 1 = n + 2
    OBVIOUS
  <2>2. f[n + 2][1] = f[n + 1][2] /\ f[n + 1][2] = f[n][1] + f[n][2]
    BY <1>6, <2>1
  <2>3. f[n + 1][1] = f[n][2] /\ f[n][1] \in Nat /\ f[n][2] \in Nat
    BY <1>6
  <2>4. fib[n + 2] = f[n][1] + f[n][2]
    BY <1>7, <2>1, <2>2
  <2>5. fib[n] = f[n][1] /\ fib[n + 1] = f[n][2]
    BY <1>7, <2>1, <2>3
  <2> QED
    BY ONLY <2>3, <2>4, <2>5
<1> DEFINE body(h) == [n \in Nat |->
                         IF n < 2 THEN n ELSE h[n - 1] + h[n - 2]]
<1>10. ASSUME NEW n \in Nat
       PROVE  fib[n] = IF n < 2 THEN n ELSE fib[n - 1] + fib[n - 2]
  <2>1. CASE n < 2
    <3>1. n = 0 \/ n = 1
      BY ONLY <2>1, n \in Nat
    <3> QED
      BY <1>8, <2>1, <3>1
  <2>2. CASE ~(n < 2)
    <3>1. n - 2 \in Nat /\ (n - 2) + 2 = n /\ (n - 2) + 1 = n - 1
      BY ONLY <2>2, n \in Nat
    <3> QED
      BY <1>9, <2>2, <3>1
  <2> QED
    BY <2>1, <2>2
<1>11. fib = [n \in Nat |-> fib[n]]
  BY DEF fib
<1>12. fib = body(fib)
  BY <1>10, <1>11
<1>13. Fib = CHOOSE h : h = body(h)
  BY DEF Fib
<1>14. Fib = body(Fib)
  BY <1>12, <1>13
<1>15. \A n \in Nat : Fib[n] = IF n < 2 THEN n ELSE Fib[n - 1] + Fib[n - 2]
  BY <1>14
<1> HIDE DEF body
<1>16. Fib[0] = 0 /\ Fib[1] = 1
  BY <1>15
<1>17. ASSUME NEW n \in Nat
       PROVE  Fib[n + 2] = Fib[n + 1] + Fib[n]
  <2>1. n + 2 \in Nat /\ ~(n + 2 < 2) /\ (n + 2) - 1 = n + 1 /\ (n + 2) - 2 = n
    OBVIOUS
  <2> QED
    BY <1>15, <2>1
<1> DEFINE T == {n \in Nat : Fib[n] \in Nat /\ Fib[n + 1] \in Nat}
<1>18. 0 \in T
  BY <1>16
<1>19. ASSUME NEW n \in Nat, n \in T
       PROVE  n + 1 \in T
  <2>1. n + 1 \in Nat /\ (n + 1) + 1 = n + 2
    OBVIOUS
  <2>2. Fib[n] \in Nat /\ Fib[n + 1] \in Nat
    BY <1>19
  <2>3. Fib[n + 2] \in Nat
    BY <1>17, <2>2
  <2> QED
    BY <2>1, <2>2, <2>3
<1>20. Nat \subseteq T
  BY <1>18, <1>19, Induction
<1> QED
  BY <1>16, <1>17, <1>20

(* The two variables of the loop are two Fibonacci numbers in a row. *)
FibInv ==
  /\ v \in Int
  /\ call = "loop" =>
       /\ turn \in Nat /\ turn >= 1 /\ (turn <= v \/ turn = 1)
       /\ u_n = Fib[turn] /\ u_n_minus_1 = Fib[turn - 1]
  /\ FibonacciSums

THEOREM FibInvariant == FibSpec => []FibInv
<1>1. FibInit => FibInv
  BY DEF FibInit, FibInv, FibonacciSums
<1>2. FibInv /\ [FibNext]_fibVars => FibInv'
  <2> SUFFICES ASSUME FibInv, [FibNext]_fibVars
               PROVE  FibInv'
    OBVIOUS
  <2>1. CASE Call
    <3>1. /\ v' \in Int /\ turn' = 1 /\ u_n' = 1 /\ u_n_minus_1' = 0
          /\ call' = "loop"
      BY <2>1, ArgumentAssumption DEF Call
    <3>2. 1 - 1 = 0 /\ 1 \in Nat /\ 1 >= 1
      OBVIOUS
    <3> QED
      BY <3>1, <3>2, FibonacciNumbers DEF FibInv, FibonacciSums
  <2>2. CASE Advance
    <3>1. /\ call = "loop" /\ turn < v /\ u_n' = u_n + u_n_minus_1
          /\ u_n_minus_1' = u_n /\ turn' = turn + 1
          /\ v' = v /\ call' = "loop"
      BY <2>2 DEF Advance, Loop
    <3>2. /\ turn \in Nat /\ turn >= 1 /\ v \in Int
          /\ u_n = Fib[turn] /\ u_n_minus_1 = Fib[turn - 1]
      BY <3>1 DEF FibInv
    <3>3. /\ turn' \in Nat /\ turn' >= 1 /\ turn' <= v' /\ turn' - 1 = turn
          /\ turn - 1 \in Nat
          /\ (turn - 1) + 1 = turn /\ (turn - 1) + 2 = turn + 1
      <4>1. /\ turn + 1 \in Nat /\ turn + 1 >= 1 /\ turn + 1 <= v
            /\ (turn + 1) - 1 = turn
        BY ONLY <3>1, <3>2
      <4>2. /\ turn - 1 \in Nat
            /\ (turn - 1) + 1 = turn /\ (turn - 1) + 2 = turn + 1
        BY ONLY <3>2
      <4>3. turn' = turn + 1 /\ v' = v
        BY <3>1
      <4> QED
        BY ONLY <4>1, <4>2, <4>3
    <3>4. Fib[turn + 1] = Fib[turn] + Fib[turn - 1]
      BY <3>3, FibonacciNumbers
    <3>5. u_n' = Fib[turn'] /\ u_n_minus_1' = Fib[turn' - 1]
      BY <3>1, <3>2, <3>3, <3>4
    <3> QED
      BY <3>1, <3>2, <3>3, <3>5 DEF FibInv, FibonacciSums
  <2>3. CASE ReturnNumber
    <3>1. /\ call = "loop" /\ ~(turn < v) /\ call' = "returned"
          /\ v' = v /\ u_n' = u_n
      BY <2>3 DEF ReturnNumber, Loop
    <3>2. /\ turn \in Nat /\ turn >= 1 /\ (turn <= v \/ turn = 1)
          /\ u_n = Fib[turn] /\ v \in Int
      BY <3>1 DEF FibInv
    <3>3. IF v < 1 THEN turn = 1 ELSE turn = v
      BY ONLY <3>1, <3>2
    <3> QED
      BY <3>1, <3>2, <3>3, FibonacciNumbers DEF FibInv, FibonacciSums
  <2>4. CASE UNCHANGED fibVars
    BY <2>4 DEF fibVars, FibInv, FibonacciSums
  <2> QED
    BY <2>1, <2>2, <2>3, <2>4 DEF FibNext
<1> QED
  BY <1>1, <1>2, PTL DEF FibSpec

(* For every argument the loop returns the Fibonacci number of that index, *)
(* and 1 for an argument below 1.                                          *)
THEOREM FibonacciCorrect == FibSpec => []FibonacciSums
<1>1. FibInv => FibonacciSums
  BY DEF FibInv
<1> QED
  BY <1>1, FibInvariant, PTL
=============================================================================
