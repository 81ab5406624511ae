------------------------- MODULE PermutationProofs -------------------------
(***************************************************************************)
(* Proofs about the two permutation programs, for strings of any length.   *)
(***************************************************************************)
EXTENDS AlgorithmProofs, PermuteLetters, PermuteUnique

-----------------------------------------------------------------------------
(* Strings, their first letters and their last one. *)

LEMMA StringType ==
  ASSUME NEW S, NEW p \in Seq(S)
  PROVE  Len(p) \in Nat /\ p \in [1 .. Len(p) -> S] /\ DOMAIN p = 1 .. Len(p)
BY LenProperties

LEMMA StringIsSeq ==
  ASSUME NEW S, NEW n \in Nat, NEW p \in [1 .. n -> S]
  PROVE  p \in Seq(S) /\ Len(p) = n
BY LenProperties

LEMMA FrontLast ==
  ASSUME NEW S, NEW p \in Seq(S), p # << >>
  PROVE  /\ Len(p) \in Nat /\ Len(p) >= 1 /\ Last(p) = p[Len(p)] /\ Last(p) \in S
         /\ Front(p) \in Seq(S) /\ Len(Front(p)) = Len(p) - 1
         /\ \A k \in 1 .. Len(p) - 1 : Front(p)[k] = p[k]
<1>1. Len(p) \in Nat /\ Len(p) >= 1
  BY LenProperties, EmptySeq
<1>2. Last(p) = p[Len(p)] /\ Front(p) = SubSeq(p, 1, Len(p) - 1)
  BY DEF Last, Front
<1>3. p[Len(p)] \in S
  BY <1>1, ElementOfSeq
<1> DEFINE m == Len(p) - 1
<1>4. m \in 0 .. Len(p) /\ 1 \in 1 .. Len(p) + 1 
  BY ONLY <1>1
<1>5. SubSeq(p, 1, m) \in Seq(S)
      /\ Len(SubSeq(p, 1, m)) = m
      /\ \A k \in 1 .. m : SubSeq(p, 1, m)[k] = p[k]
  <2> HIDE DEF m
  <2>1. m \in Int /\ 1 \in Int
    BY <1>4
  <2>2. ASSUME NEW k \in 1 .. m
        PROVE  p[k] \in S
    <3>1. k \in 1 .. Len(p)
      BY ONLY <1>1, <1>4
    <3> QED
      BY <3>1, ElementOfSeq
  <2>3. /\ SubSeq(p, 1, m) \in Seq(S)
        /\ Len(SubSeq(p, 1, m)) = IF 1 <= m THEN m - 1 + 1 ELSE 0
        /\ \A k \in 1 .. m - 1 + 1 : SubSeq(p, 1, m)[k] = p[1 + k - 1]
    BY ONLY <2>1, <2>2, SubSeqProperties
  <2>4. (IF 1 <= m THEN m - 1 + 1 ELSE 0) = m /\ m - 1 + 1 = m
    BY ONLY <1>1, <1>4
  <2>5. \A k \in 1 .. m : 1 + k - 1 = k
    BY ONLY <2>1
  <2> QED
    BY <2>3, <2>4, <2>5
<1> QED
  BY <1>1, <1>2, <1>3, <1>5

(* A string of the same letters is a rearrangement. *)
LEMMA SameBag ==
  ASSUME NEW S, NEW n \in Nat, NEW t \in [1 .. n -> S], NEW text \in [1 .. n -> S]
  PROVE  t \in Rearranged(text) <=> ToBag(t) = ToBag(text)
<1>1. /\ BagToSet(ToBag(t)) = {t[k] : k \in 1 .. n}
      /\ BagToSet(ToBag(text)) = {text[k] : k \in 1 .. n}
  BY ToBagCopies
<1>2. ASSUME ToBag(t) = ToBag(text)
      PROVE  t \in [1 .. n -> {text[k] : k \in 1 .. n}]
  BY <1>1, <1>2
<1>3. DOMAIN text = 1 .. n /\ Range(text) = {text[k] : k \in 1 .. n}
  BY DEF Range
<1> QED
  BY <1>2, <1>3 DEF Rearranged

LEMMA RearrangedType ==
  ASSUME NEW S, NEW n \in Nat, NEW text \in [1 .. n -> S], NEW t \in Rearranged(text)
  PROVE  t \in [1 .. n -> S] /\ ToBag(t) = ToBag(text)
<1>1. DOMAIN text = 1 .. n /\ Range(text) \subseteq S
  BY DEF Range
<1> QED
  BY <1>1 DEF Rearranged

(* Swapping two letters keeps the bag of the letters. *)
Swapped(n, p, q, a, b) ==
  /\ n \in Nat /\ p \in [1 .. n -> Letters] /\ a \in 1 .. n /\ b \in 1 .. n
  /\ q = Swap(p, a, b)

LEMMA SwapBag ==
  ASSUME NEW n, NEW p, NEW q, NEW a, NEW b, Swapped(n, p, q, a, b)
  PROVE  q \in [1 .. n -> Letters] /\ ToBag(q) = ToBag(p)
<1> n \in Nat /\ p \in [1 .. n -> Letters] /\ a \in 1 .. n /\ b \in 1 .. n
    /\ q = Swap(p, a, b)
  BY DEF Swapped
<1> DEFINE m == [p EXCEPT ![a] = p[b]]
<1>1. m \in [1 .. n -> Letters] /\ q \in [1 .. n -> Letters]
  BY DEF Swap
<1>2. CASE a = b
  <2>1. q = [p EXCEPT ![a] = p[a], ![a] = p[a]]
    BY <1>2 DEF Swap
  <2>2. q = p
    BY <2>1
  <2> QED
    BY <1>1, <2>2
<1>3. CASE a # b
  <2>1. /\ m[a] = p[b] /\ \A j \in 1 .. n : j # a => m[j] = p[j]
        /\ q[b] = p[a] /\ \A j \in 1 .. n : j # b => q[j] = m[j]
        /\ m[b] = p[b] /\ p[a] \in Letters /\ p[b] \in Letters
    BY <1>3 DEF Swap
  <2> HIDE DEF m
  <2>2. ToBag(m) = Change(ToBag(p), p[a], p[b])
    <3>1. /\ m \in [1 .. n -> Letters] /\ p[b] \in Letters /\ m[a] = p[b]
          /\ \A j \in 1 .. n : j # a => m[j] = p[j]
      BY ONLY <1>1, <2>1
    <3> QED
      BY ONLY <3>1, ToBagOther, n \in Nat, p \in [1 .. n -> Letters], a \in 1 .. n
  <2>3. ToBag(q) = Change(ToBag(m), p[b], p[a])
    <3>1. /\ m \in [1 .. n -> Letters] /\ q \in [1 .. n -> Letters]
          /\ p[a] \in Letters /\ q[b] = p[a] /\ m[b] = p[b]
          /\ \A j \in 1 .. n : j # b => q[j] = m[j]
      BY ONLY <1>1, <2>1
    <3> QED
      BY ONLY <3>1, ToBagOther, n \in Nat, b \in 1 .. n
  <2>4. /\ IsABag(ToBag(p)) /\ IsABag(ToBag(m)) /\ IsABag(ToBag(q))
        /\ p[a] \in BagToSet(ToBag(p)) /\ p[b] \in BagToSet(ToBag(m))
    <3>1. /\ BagToSet(ToBag(p)) = {p[k] : k \in 1 .. n}
          /\ BagToSet(ToBag(m)) = {m[k] : k \in 1 .. n}
          /\ IsABag(ToBag(p)) /\ IsABag(ToBag(m)) /\ IsABag(ToBag(q))
      BY <1>1, ToBagCopies
    <3>2. p[b] = m[b]
      BY <2>1
    <3> QED
      BY <3>1, <3>2
  <2>5. ASSUME NEW x
        PROVE  Copies(x, ToBag(q)) = Copies(x, ToBag(p))
    <3>1. Copies(x, ToBag(m)) = Copies(x, ToBag(p))
            - (IF x = p[a] THEN 1 ELSE 0) + IF x = p[b] THEN 1 ELSE 0
      BY ONLY <2>2, <2>4, ChangeCopies
    <3>2. Copies(x, ToBag(q)) = Copies(x, ToBag(m))
            - (IF x = p[b] THEN 1 ELSE 0) + IF x = p[a] THEN 1 ELSE 0
      BY ONLY <2>3, <2>4, ChangeCopies
    <3>3. Copies(x, ToBag(p)) \in Nat
      BY <2>4, CopiesType
    <3> QED
      BY ONLY <3>1, <3>2, <3>3
  <2>6. ToBag(q) = ToBag(p)
    BY <2>4, <2>5, BagsEqual
  <2> QED
    BY <1>1, <2>6
<1> QED
  BY <1>2, <1>3

-----------------------------------------------------------------------------
(* The strings that permute() has printed. *)

LEMMA FactorialNumbers ==
  /\ Factorial[0] = 1
  /\ \A n \in Nat : Factorial[n] \in Nat /\ Factorial[n + 1] = (n + 1) * Factorial[n]
<1> DEFINE g == [p \in Nat \X Nat |-> p[1] * p[2]]
<1>1. \A k \in Nat, x \in Nat : g[<<k, x>>] = k * x /\ k * x \in Nat
  OBVIOUS
<1> HIDE DEF g
<1>2. PICK f \in [Nat -> Nat] : Follows(f, 1, g)
  <2>1. \A k \in Nat, x \in Nat : g[<<k, x>>] \in Nat
    BY <1>1
  <2>2. 1 \in Nat
    OBVIOUS
  <2> QED
    BY ONLY <2>1, <2>2, RecForever
<1>3. f[0] = 1 /\ \A n \in Nat : f[n + 1] = (n + 1) * f[n]
  <2>1. f[0] = 1 /\ \A n \in Nat : f[n + 1] = g[<<n + 1, f[n]>>]
    BY <1>2 DEF Follows
  <2>2. ASSUME NEW n \in Nat
        PROVE  f[n + 1] = (n + 1) * f[n]
    <3>1. n + 1 \in Nat /\ f[n] \in Nat
      BY <1>2
    <3> QED
      BY <1>1, <2>1, <3>1
  <2> QED
    BY <2>1, <2>2
<1> DEFINE body(h) == [n \in Nat |-> IF n = 0 THEN 1 ELSE n * h[n - 1]]
<1>4. ASSUME NEW n \in Nat
      PROVE  f[n] = IF n = 0 THEN 1 ELSE n * f[n - 1]
  <2>1. CASE n = 0
    BY <1>3, <2>1
  <2>2. CASE n # 0
    <3>1. n - 1 \in Nat /\ (n - 1) + 1 = n
      BY ONLY <2>2, n \in Nat
    <3> QED
      BY <1>3, <2>2, <3>1
  <2> QED
    BY <2>1, <2>2
<1>5. f = body(f)
  BY <1>2, <1>4
<1>6. Factorial = CHOOSE h : h = body(h)
  BY DEF Factorial
<1>7. Factorial = body(Factorial)
  BY <1>5, <1>6
<1>8. \A n \in Nat :
        Factorial[n] = IF n = 0 THEN 1 ELSE n * Factorial[n - 1]
  BY <1>7
<1> HIDE DEF body
<1>9. Factorial[0] = 1
  BY <1>8
<1>10. ASSUME NEW n \in Nat
       PROVE  Factorial[n + 1] = (n + 1) * Factorial[n]
  <2>1. n + 1 \in Nat /\ n + 1 # 0 /\ (n + 1) - 1 = n
    OBVIOUS
  <2> QED
    BY <1>8, <2>1
<1> DEFINE T == {n \in Nat : Factorial[n] \in Nat}
<1>11. 0 \in T
  BY <1>9
<1>12. ASSUME NEW n \in Nat, n \in T
       PROVE  n + 1 \in T
  <2>1. n + 1 \in Nat /\ Factorial[n] \in Nat
    BY <1>12
  <2>2. (n + 1) * Factorial[n] \in Nat
    BY ONLY <2>1
  <2> QED
    BY <1>10, <2>1, <2>2
<1>13. Nat \subseteq T
  BY <1>11, <1>12, Induction
<1> QED
  BY <1>9, <1>10, <1>13

LEMMA FactorialPositive ==
  ASSUME NEW n \in Nat
  PROVE  Factorial[n] > 0
<1> DEFINE T == {k \in Nat : Factorial[k] > 0}
<1>1. 0 \in T
  BY FactorialNumbers
<1>2. ASSUME NEW k \in Nat, k \in T
      PROVE  k + 1 \in T
  <2>1. /\ Factorial[k] \in Nat /\ Factorial[k + 1] \in Nat /\ k + 1 \in Nat
        /\ Factorial[k + 1] = (k + 1) * Factorial[k] /\ Factorial[k] > 0
    BY <1>2, FactorialNumbers
  <2> QED
    BY <2>1
<1>3. Nat \subseteq T
  BY <1>1, <1>2, Induction
<1> QED
  BY <1>3

(* A call that returns has printed every order of the letters from its     *)
(* level on: the calls that are in their loops have printed so many.       *)
Share(n, is) == [k \in 1 .. Len(is) |-> Factorial[n - k] * (is[k] - k)]

PrintedBy(n, is) == SumTo(Share(n, is), Len(is))

LEMMA ShareType ==
  ASSUME NEW n \in Nat, NEW is \in Seq(Nat), Len(is) <= n, NEW k \in 1 .. Len(is)
  PROVE  /\ Share(n, is)[k] = Factorial[n - k] * (is[k] - k)
         /\ Share(n, is)[k] \in Int
<1>1. Len(is) \in Nat /\ is[k] \in Nat
  BY LenProperties, ElementOfSeq
<1>2. n - k \in Nat
  BY ONLY <1>1, n \in Nat, k \in 1 .. Len(is), Len(is) <= n
<1>3. Factorial[n - k] \in Nat /\ is[k] - k \in Int
  <2>1. Factorial[n - k] \in Nat
    BY <1>2, FactorialNumbers
  <2>2. is[k] - k \in Int
    BY ONLY <1>1, k \in 1 .. Len(is)
  <2> QED
    BY <2>1, <2>2
<1>4. Factorial[n - k] * (is[k] - k) \in Int
  BY ONLY <1>3
<1> QED
  BY <1>4 DEF Share

LEMMA NonePrinted ==
  ASSUME NEW n
  PROVE  PrintedBy(n, << >>) = 0
<1>1. Len(<< >>) = 0
  BY EmptySeq
<1> QED
  BY <1>1, SumNone DEF PrintedBy

LEMMA PrintedType ==
  ASSUME NEW n \in Nat, NEW is \in Seq(Nat), Len(is) <= n
  PROVE  PrintedBy(n, is) \in Int
<1>1. \A k \in 1 .. Len(is) : Share(n, is)[k] \in Int
  BY ShareType
<1>2. Len(is) \in Nat
  BY LenProperties
<1> QED
  BY <1>1, <1>2, SumType DEF PrintedBy

LEMMA PrintedBelow ==
  ASSUME NEW n \in Nat, NEW is \in Seq(Nat), NEW js \in Seq(Nat),
         Len(js) = Len(is) + 1, Len(js) <= n,
         \A k \in 1 .. Len(is) : js[k] = is[k]
  PROVE  PrintedBy(n, js)
           = PrintedBy(n, is) + Factorial[n - Len(js)] * (js[Len(js)] - Len(js))
<1> DEFINE m == Len(is)
           f == Share(n, is)
           h == Share(n, js)
<1>1. m \in Nat /\ Len(is) <= n /\ m + 1 = Len(js)
  <2>1. Len(is) \in Nat
    BY LenProperties
  <2> QED
    BY ONLY <2>1, Len(js) = Len(is) + 1, Len(js) <= n, n \in Nat
<1>2. \A k \in 1 .. m + 1 : h[k] \in Int
  BY <1>1, ShareType
<1>3. ASSUME NEW k \in 1 .. m
      PROVE  f[k] \in Int /\ h[k] = f[k]
  <2>1. k \in 1 .. Len(js) /\ k \in 1 .. Len(is)
    BY ONLY <1>1, k \in 1 .. m
  <2>2. js[k] = is[k]
    BY <2>1
  <2>3. /\ h[k] = Factorial[n - k] * (js[k] - k)
        /\ f[k] = Factorial[n - k] * (is[k] - k) /\ f[k] \in Int
    <3> HIDE DEF f, h
    <3> QED
      BY <1>1, <2>1, ShareType DEF f, h
  <2> QED
    BY <2>2, <2>3
<1>4. h[m + 1] = Factorial[n - Len(js)] * (js[Len(js)] - Len(js))
  <2>1. Len(js) \in 1 .. Len(js)
    BY ONLY <1>1
  <2> QED
    BY <1>1, <2>1, ShareType
<1>5. PrintedBy(n, js) = SumTo(h, m + 1) /\ PrintedBy(n, is) = SumTo(f, m)
  BY <1>1 DEF PrintedBy
<1> HIDE DEF f, h, m
<1>6. SumTo(h, m + 1) = SumTo(h, m) + h[m + 1]
  BY <1>1, <1>2, SumStep
<1>7. SumTo(h, m) = SumTo(f, m)
  <2>1. \A k \in 1 .. m : f[k] \in Int /\ h[k] = f[k] + IF k = 0 THEN 0 ELSE 0
    BY <1>3
  <2>2. 0 \in Int
    OBVIOUS
  <2>3. SumTo(h, m) = SumTo(f, m) + IF 0 \in 1 .. m THEN 0 ELSE 0
    BY ONLY <1>1, <2>1, <2>2, SumOther
  <2>4. SumTo(f, m) \in Int
    BY <1>1, <1>3, SumType
  <2> QED
    BY ONLY <2>3, <2>4
<1> QED
  BY <1>4, <1>5, <1>6, <1>7

(* The caller of a call that returns goes on with its next letter.         *)
LEMMA ReturnCounts ==
  ASSUME NEW n \in Nat, NEW is \in Seq(Nat), is # << >>, Len(is) <= n,
         NEW js, js = [is EXCEPT ![Len(is)] = @ + 1]
  PROVE  PrintedBy(n, js) = PrintedBy(n, is) + Factorial[n - Len(is)]
<1> DEFINE d == Len(is)
           rest == Front(is)
<1>1. /\ d \in Nat /\ d >= 1 /\ rest \in Seq(Nat) /\ d = Len(rest) + 1
      /\ \A k \in 1 .. Len(rest) : rest[k] = is[k]
  <2>1. /\ Len(is) \in Nat /\ Len(is) >= 1
        /\ Front(is) \in Seq(Nat) /\ Len(Front(is)) = Len(is) - 1
        /\ \A k \in 1 .. Len(is) - 1 : Front(is)[k] = is[k]
    BY FrontLast
  <2> QED
    BY <2>1
<1>2. /\ js \in Seq(Nat) /\ Len(js) = d /\ is[d] \in Nat /\ js[d] = is[d] + 1
      /\ \A k \in 1 .. Len(rest) : js[k] = is[k]
  <2>1. is \in [1 .. d -> Nat] /\ d \in 1 .. d
    BY <1>1, LenProperties
  <2>2. is[d] \in Nat /\ is[d] + 1 \in Nat
    BY <2>1
  <2>3. js = [is EXCEPT ![d] = is[d] + 1]
    OBVIOUS
  <2>4. js \in [1 .. d -> Nat] /\ js[d] = is[d] + 1
    BY <2>1, <2>2, <2>3
  <2>5. ASSUME NEW k \in 1 .. Len(rest)
        PROVE  js[k] = is[k]
    <3>1. k \in 1 .. d /\ k # d
      BY ONLY <1>1, k \in 1 .. Len(rest)
    <3> QED
      BY <2>1, <2>3, <3>1
  <2> QED
    BY <1>1, <2>2, <2>4, <2>5, StringIsSeq
<1>3. d <= n
  OBVIOUS
<1> DEFINE a == is[d]
           F == Factorial[n - d]
<1>4. PrintedBy(n, is) = PrintedBy(n, rest) + F * (a - d)
  <2>1. \A k \in 1 .. Len(rest) : is[k] = rest[k]
    BY <1>1
  <2> QED
    BY <1>1, <2>1, <1>3, PrintedBelow
<1>5. PrintedBy(n, js) = PrintedBy(n, rest) + F * ((a + 1) - d)
  <2>1. \A k \in 1 .. Len(rest) : js[k] = rest[k]
    BY <1>1, <1>2
  <2>2. Len(js) = Len(rest) + 1 /\ Len(js) <= n
    BY <1>1, <1>2, <1>3
  <2>3. PrintedBy(n, js)
          = PrintedBy(n, rest) + Factorial[n - Len(js)] * (js[Len(js)] - Len(js))
    BY ONLY <1>1, <1>2, <2>1, <2>2, PrintedBelow, n \in Nat
  <2>4. Len(js) = d /\ js[d] = a + 1
    BY <1>2
  <2> HIDE DEF a, d, rest
  <2>5. Factorial[n - Len(js)] = F
    BY ONLY <2>4, Zenon
  <2>6. js[Len(js)] - Len(js) = (a + 1) - d
    BY ONLY <2>4, Zenon
  <2> HIDE DEF F
  <2> QED
    BY ONLY <2>3, <2>5, <2>6
<1>6. PrintedBy(n, rest) \in Int /\ F \in Nat /\ a \in Nat
  <2>1. n - d \in Nat /\ Len(rest) <= n
    BY ONLY <1>1, <1>3, LenProperties, n \in Nat
  <2> QED
    BY <1>1, <1>2, <2>1, PrintedType, FactorialNumbers
<1>7. F * ((a + 1) - d) = F * (a - d) + F
  <2> DEFINE e == a - d
  <2>1. F \in Int /\ e \in Int /\ e + 1 = (a + 1) - d
    BY ONLY <1>1, <1>6
  <2> HIDE DEF F, e
  <2>2. F * (e + 1) = F * e + F
    BY ONLY <2>1, Distributes
  <2> QED
    BY <2>1, <2>2 DEF e
<1>8. F * (a - d) \in Int
  BY ONLY <1>1, <1>6
<1> HIDE DEF d, rest, a, F
<1>9. PrintedBy(n, js) = PrintedBy(n, is) + F
  BY ONLY <1>4, <1>5, <1>6, <1>7, <1>8
<1> QED
  BY <1>9 DEF F, d

(* A loop that is over has printed all that its call prints.               *)
LEMMA EndCounts ==
  ASSUME NEW n \in Nat, NEW is \in Seq(Nat), is # << >>, Len(is) <= n,
         is[Len(is)] = n + 1
  PROVE  PrintedBy(n, is)
           = PrintedBy(n, Front(is)) + Factorial[n - Len(Front(is))]
<1> DEFINE d == Len(is)
           rest == Front(is)
<1>1. /\ d \in Nat /\ d >= 1 /\ rest \in Seq(Nat) /\ d = Len(rest) + 1
      /\ \A k \in 1 .. Len(rest) : is[k] = rest[k]
  <2>1. /\ Len(is) \in Nat /\ Len(is) >= 1
        /\ Front(is) \in Seq(Nat) /\ Len(Front(is)) = Len(is) - 1
        /\ \A k \in 1 .. Len(is) - 1 : Front(is)[k] = is[k]
    BY FrontLast
  <2> QED
    BY <2>1
<1>2. PrintedBy(n, is) = PrintedBy(n, rest) + Factorial[n - d] * ((n + 1) - d)
  <2>1. PrintedBy(n, is)
          = PrintedBy(n, rest) + Factorial[n - Len(is)] * (is[Len(is)] - Len(is))
    BY <1>1, PrintedBelow
  <2>2. is[Len(is)] - Len(is) = (n + 1) - d
    OBVIOUS
  <2> HIDE DEF rest
  <2> QED
    BY ONLY <2>1, <2>2
<1>3. n - d \in Nat /\ n - Len(rest) = (n - d) + 1 /\ (n + 1) - d = (n - d) + 1
  <2>1. Len(rest) \in Nat /\ d <= n
    BY <1>1, LenProperties
  <2> QED
    BY ONLY <1>1, <2>1, n \in Nat
<1>4. /\ Factorial[(n - d) + 1] = ((n - d) + 1) * Factorial[n - d]
      /\ Factorial[n - d] \in Nat
  BY <1>3, FactorialNumbers
<1>5. ((n - d) + 1) * Factorial[n - d] = Factorial[n - d] * ((n - d) + 1)
  BY ONLY <1>3, <1>4
<1> QED
  BY <1>2, <1>3, <1>4, <1>5

-----------------------------------------------------------------------------
(* permute(). *)

(* The loops are at letters of the string, but the innermost one may be    *)
(* past it, and they have printed their share.                             *)
CallsOK ==
  /\ permuting \in {"none", "called", "loop", "done"}
  /\ indexes \in Seq(Nat) /\ Len(indexes) <= Len(given)
  /\ permuting = "loop" => indexes # << >>
  /\ permuting = "done" => indexes = << >>
  /\ \A k \in 1 .. Len(indexes) :
       /\ k <= indexes[k] /\ indexes[k] <= Len(given) + 1
       /\ permuting = "called" \/ k < Len(indexes) => indexes[k] <= Len(given)
  /\ permuting \in {"called", "loop"} =>
       Len(printed) = PrintedBy(Len(given), indexes)
  /\ permuting = "done" => Len(printed) = Factorial[Len(given)]

(* The string has the letters that it had; it is changed only after it has *)
(* been printed.                                                           *)
StringOK ==
  /\ given \in Seq(Letters) /\ input \in Seq(Letters)
  /\ Len(input) = Len(given) /\ ToBag(input) = ToBag(given)
  /\ printed \in Seq(Rearranged(given))
  /\ printed # << >> => printed[1] = given
  /\ printed = << >> =>
       input = given /\ \A k \in 1 .. Len(indexes) : indexes[k] = k

LettersInv == CallsOK /\ StringOK

LEMMA ReturnKeeps ==
  ASSUME NEW n \in Nat, n = Len(given'), NEW callers \in Seq(Nat),
         Len(callers) <= n,
         \A k \in 1 .. Len(callers) : k <= callers[k] /\ callers[k] <= n,
         ReturnTo(callers),
         Len(printed') = PrintedBy(n, callers) + Factorial[n - Len(callers)]
  PROVE  CallsOK'
<1>1. CASE callers = << >>
  <2>1. permuting' = "done" /\ indexes' = << >> /\ Len(indexes') = 0
    BY <1>1, EmptySeq DEF ReturnTo
  <2>2. Len(printed') = Factorial[n]
    <3>1. PrintedBy(n, callers) = 0 /\ n - Len(callers) = n
      BY <1>1, NonePrinted, EmptySeq
    <3>2. Factorial[n] \in Nat
      BY FactorialNumbers
    <3> QED
      BY <3>1, <3>2
  <2>3. << >> \in Seq(Nat)
    BY EmptySeq
  <2> QED
    BY <2>1, <2>2, <2>3 DEF CallsOK
<1>2. CASE callers # << >>
  <2> DEFINE d == Len(callers)
  <2>1. /\ permuting' = "loop"
        /\ indexes' = [callers EXCEPT ![d] = @ + 1]
    BY <1>2 DEF ReturnTo
  <2>2. d \in Nat /\ d >= 1 /\ d <= n /\ callers \in [1 .. d -> Nat]
    BY <1>2, FrontLast, StringType
  <2>3. /\ indexes' \in Seq(Nat) /\ Len(indexes') = d /\ callers[d] \in Nat
        /\ indexes'[d] = callers[d] + 1
        /\ \A k \in 1 .. d : k # d => indexes'[k] = callers[k]
    <3>1. d \in 1 .. d /\ callers[d] \in Nat /\ callers[d] + 1 \in Nat
      BY <2>2
    <3> HIDE DEF d
    <3>2. indexes' \in [1 .. d -> Nat]
      BY <2>1, <2>2, <3>1
    <3>3. indexes' \in Seq(Nat) /\ Len(indexes') = d
      BY <2>2, <3>2, StringIsSeq
    <3> QED
      BY <2>1, <2>2, <3>1, <3>3
  <2>4. Len(printed') = PrintedBy(n, indexes')
    BY <1>2, <2>1, ReturnCounts
  <2>5. \A k \in 1 .. d : k <= callers[k] /\ callers[k] <= n
    OBVIOUS
  <2> HIDE DEF d
  <2>6. ASSUME NEW k \in 1 .. d
        PROVE  /\ k <= indexes'[k] /\ indexes'[k] <= n + 1
               /\ k < d => indexes'[k] <= n
    <3>1. callers[k] \in Nat /\ k <= callers[k] /\ callers[k] <= n
      BY <2>2, <2>5
    <3>2. CASE k = d
      BY ONLY <2>2, <2>3, <3>1, <3>2, n \in Nat
    <3>3. CASE k # d
      <4>1. indexes'[k] = callers[k]
        BY <2>3, <3>3
      <4> QED
        BY ONLY <3>1, <4>1, n \in Nat
    <3> QED
      BY <3>2, <3>3
  <2>7. indexes' # << >>
    BY <2>2, <2>3, EmptySeq
  <2> QED
    BY <2>1, <2>2, <2>3, <2>4, <2>6, <2>7 DEF CallsOK
<1> QED
  BY <1>1, <1>2

LEMMA LettersLength ==
  ASSUME StringOK
  PROVE  /\ Len(given) \in Nat /\ Len(input) = Len(given)
         /\ given \in [1 .. Len(given) -> Letters]
         /\ input \in [1 .. Len(given) -> Letters]
         /\ input \in Rearranged(given)
<1>1. /\ Len(given) \in Nat /\ Len(input) = Len(given)
      /\ given \in [1 .. Len(given) -> Letters]
      /\ input \in [1 .. Len(given) -> Letters]
  BY StringType DEF StringOK
<1> QED
  BY <1>1, SameBag DEF StringOK

LEMMA BeginLoopKeeps ==
  ASSUME LettersInv, BeginLoop
  PROVE  LettersInv'
<1> DEFINE n == Len(given)
           d == Len(indexes)
<1>1. /\ n \in Nat /\ d \in Nat /\ d + 1 <= n /\ d + 1 \in Nat
      /\ indexes \in Seq(Nat)
  <2>1. n \in Nat /\ Len(input) = n
    BY LettersLength DEF LettersInv
  <2>2. d \in Nat /\ indexes \in Seq(Nat)
    BY LenProperties DEF LettersInv, CallsOK
  <2>3. d < n
    BY <2>1 DEF BeginLoop
  <2> QED
    BY ONLY <2>1, <2>2, <2>3
<1>2. /\ indexes' \in Seq(Nat) /\ Len(indexes') = d + 1
      /\ indexes'[d + 1] = d + 1
      /\ \A k \in 1 .. d : indexes'[k] = indexes[k]
  <2>1. indexes' = Append(indexes, d + 1)
    BY DEF BeginLoop
  <2> QED
    BY <1>1, <2>1, AppendProperties
<1>3. PrintedBy(n, indexes') = PrintedBy(n, indexes)
  <2>1. PrintedBy(n, indexes')
          = PrintedBy(n, indexes)
              + Factorial[n - Len(indexes')] * (indexes'[Len(indexes')] - Len(indexes'))
    BY <1>1, <1>2, PrintedBelow
  <2>2. n - Len(indexes') \in Nat
    BY ONLY <1>1, <1>2
  <2>3. Factorial[n - Len(indexes')] \in Nat
    BY <2>2, FactorialNumbers
  <2>4. PrintedBy(n, indexes) \in Int
    <3>1. Len(indexes) <= n
      BY ONLY <1>1
    <3> QED
      BY <1>1, <3>1, PrintedType
  <2>5. indexes'[Len(indexes')] - Len(indexes') = 0
    BY ONLY <1>1, <1>2
  <2>6. Factorial[n - Len(indexes')] * 0 = 0
    BY ONLY <2>3
  <2> QED
    BY ONLY <2>1, <2>4, <2>5, <2>6
<1>4. /\ permuting' = "loop" /\ permuting = "called"
      /\ UNCHANGED <<input, given, printed>>
  BY DEF BeginLoop
<1>5. ASSUME NEW k \in 1 .. d + 1
      PROVE  /\ k <= indexes'[k] /\ indexes'[k] <= n + 1
             /\ k < d + 1 => indexes'[k] <= n
  <2>1. CASE k = d + 1
    BY ONLY <1>1, <1>2, <2>1
  <2>2. CASE k \in 1 .. d
    <3>1. k <= indexes[k] /\ indexes[k] <= n + 1 /\ indexes[k] <= n
      BY <1>4, <2>2 DEF LettersInv, CallsOK
    <3> QED
      BY ONLY <1>2, <2>2, <3>1
  <2> QED
    BY ONLY <1>1, <2>1, <2>2, k \in 1 .. d + 1
<1>6. CallsOK'
  <2>1. indexes' # << >>
    BY <1>1, <1>2, EmptySeq
  <2>2. Len(printed') = PrintedBy(n, indexes')
    BY <1>3, <1>4 DEF LettersInv, CallsOK
  <2> QED
    BY <1>1, <1>2, <1>4, <1>5, <2>1, <2>2 DEF CallsOK
<1>7. StringOK'
  <2>1. ASSUME printed = << >>, NEW k \in 1 .. d + 1
        PROVE  indexes'[k] = k
    <3>1. CASE k = d + 1
      BY <1>2, <3>1
    <3>2. CASE k \in 1 .. d
      BY <1>2, <2>1, <3>2 DEF LettersInv, StringOK
    <3> QED
      BY ONLY <1>1, <3>1, <3>2, k \in 1 .. d + 1
  <2> QED
    BY <1>2, <1>4, <2>1 DEF LettersInv, StringOK
<1> QED
  BY <1>6, <1>7 DEF LettersInv

LEMMA PrintTextKeeps ==
  ASSUME LettersInv, PrintText
  PROVE  LettersInv'
<1> DEFINE n == Len(given)
           d == Len(indexes)
<1>1. n \in Nat /\ Len(input) = n /\ input \in Rearranged(given)
  BY LettersLength DEF LettersInv
<1>2. /\ permuting = "called" /\ UNCHANGED <<input, given>>
      /\ printed' = Append(printed, input) /\ ReturnTo(indexes)
  BY DEF PrintText
<1>3. d = n /\ indexes \in Seq(Nat) /\ d <= n
  <2>1. d \in Nat /\ indexes \in Seq(Nat) /\ d <= n
    BY LenProperties DEF LettersInv, CallsOK
  <2>2. d >= n
    BY <1>1 DEF PrintText
  <2> QED
    BY ONLY <1>1, <2>1, <2>2
<1>4. /\ printed \in Seq(Rearranged(given)) /\ Len(printed) \in Nat
      /\ printed' \in Seq(Rearranged(given))
      /\ Len(printed') = Len(printed) + 1
      /\ printed'[Len(printed) + 1] = input
      /\ \A k \in 1 .. Len(printed) : printed'[k] = printed[k]
  <2>1. printed \in Seq(Rearranged(given))
    BY DEF LettersInv, StringOK
  <2> QED
    BY <1>1, <1>2, <2>1, AppendProperties, LenProperties
<1>5. Len(printed') = PrintedBy(n, indexes) + Factorial[n - d]
  <2>1. Len(printed) = PrintedBy(n, indexes)
    BY <1>2 DEF LettersInv, CallsOK
  <2>2. n - d = 0
    BY ONLY <1>1, <1>3
  <2>3. Factorial[n - d] = 1
    BY <2>2, FactorialNumbers
  <2> QED
    BY ONLY <1>4, <2>1, <2>3
<1>6. CallsOK'
  <2>1. \A k \in 1 .. Len(indexes) : k <= indexes[k] /\ indexes[k] <= n
    BY <1>2 DEF LettersInv, CallsOK
  <2>2. n = Len(given')
    BY <1>2
  <2> HIDE DEF n
  <2> QED
    BY ONLY <1>1, <1>2, <1>3, <1>5, <2>1, <2>2, ReturnKeeps
<1>7. printed' # << >> /\ printed'[1] = given
  <2>1. printed' # << >>
    BY <1>4, EmptySeq
  <2>2. CASE printed = << >>
    <3>1. input = given /\ Len(printed) = 0
      BY <2>2, EmptySeq DEF LettersInv, StringOK
    <3> QED
      BY <1>4, <2>1, <3>1
  <2>3. CASE printed # << >>
    <3>1. printed[1] = given
      BY <2>3 DEF LettersInv, StringOK
    <3>2. 1 \in 1 .. Len(printed)
      BY <1>4, <2>3, EmptySeq
    <3> QED
      BY <1>4, <2>1, <3>1, <3>2
  <2> QED
    BY <2>2, <2>3
<1>8. StringOK'
  BY <1>2, <1>4, <1>7 DEF LettersInv, StringOK
<1> QED
  BY <1>6, <1>8 DEF LettersInv

LEMMA SwapAndRecurKeeps ==
  ASSUME LettersInv, SwapAndRecur
  PROVE  LettersInv'
<1> DEFINE n == Len(given)
           d == Len(indexes)
           a == Last(indexes)
<1>1. /\ n \in Nat /\ Len(input) = n
      /\ input \in [1 .. n -> Letters]
  BY LettersLength DEF LettersInv
<1>2. /\ permuting = "loop" /\ permuting' = "called" /\ a <= n
      /\ input' = Swap(input, d, a)
      /\ UNCHANGED <<given, indexes, printed>>
  BY <1>1 DEF SwapAndRecur
<1>3. /\ d \in Nat /\ d >= 1 /\ d <= n /\ a = indexes[d] /\ a \in Nat
      /\ d <= a
  <2>1. indexes \in Seq(Nat) /\ indexes # << >> /\ d <= n
    BY <1>2 DEF LettersInv, CallsOK
  <2>2. d \in Nat /\ d >= 1 /\ a = indexes[d] /\ a \in Nat
    BY <2>1, FrontLast
  <2>3. d \in 1 .. d
    BY ONLY <2>2
  <2>4. d <= indexes[d]
    BY <2>3 DEF LettersInv, CallsOK
  <2> QED
    BY <2>1, <2>2, <2>4
<1>4. d \in 1 .. n /\ a \in 1 .. n
  BY ONLY <1>1, <1>2, <1>3
<1>5. input' \in [1 .. n -> Letters] /\ ToBag(input') = ToBag(input)
  <2> HIDE DEF n, d, a
  <2>1. Swapped(n, input, input', d, a)
    BY <1>1, <1>2, <1>4 DEF Swapped
  <2> QED
    BY ONLY <2>1, SwapBag
<1>6. input' \in Seq(Letters) /\ Len(input') = n
  BY <1>1, <1>5, StringIsSeq
<1>7. CallsOK'
  <2>1. ASSUME NEW k \in 1 .. d
        PROVE  indexes[k] <= n
    <3>1. CASE k = d
      BY <1>2, <1>3, <3>1
    <3>2. CASE k < d
      BY <1>2, <3>2 DEF LettersInv, CallsOK
    <3> QED
      BY ONLY <1>3, <3>1, <3>2, k \in 1 .. d
  <2> QED
    BY <1>2, <2>1 DEF LettersInv, CallsOK
<1>8. ASSUME printed = << >>
      PROVE  input' = given
  <2>1. input = given /\ indexes[d] = d
    <3>1. d \in 1 .. d
      BY ONLY <1>3
    <3> QED
      BY <1>8, <3>1 DEF LettersInv, StringOK
  <2>2. input' = [input EXCEPT ![d] = input[d], ![d] = input[d]]
    BY <1>2, <1>3, <2>1 DEF Swap
  <2> QED
    BY <1>1, <2>1, <2>2
<1>9. StringOK'
  BY <1>2, <1>5, <1>6, <1>8 DEF LettersInv, StringOK
<1> QED
  BY <1>7, <1>9 DEF LettersInv

LEMMA EndLoopKeeps ==
  ASSUME LettersInv, EndLoop
  PROVE  LettersInv'
<1> DEFINE n == Len(given)
           d == Len(indexes)
           rest == Front(indexes)
<1>1. n \in Nat /\ Len(input) = n
  BY LettersLength DEF LettersInv
<1>2. /\ permuting = "loop" /\ Last(indexes) > n /\ ReturnTo(rest)
      /\ UNCHANGED <<input, given, printed>>
  BY <1>1 DEF EndLoop
<1>3. indexes \in Seq(Nat) /\ indexes # << >> /\ d <= n
  BY <1>2 DEF LettersInv, CallsOK
<1>4. /\ d \in Nat /\ d >= 1 /\ Last(indexes) = indexes[d] /\ indexes[d] \in Nat
      /\ rest \in Seq(Nat) /\ Len(rest) = d - 1
      /\ \A k \in 1 .. d - 1 : rest[k] = indexes[k]
  BY <1>3, FrontLast
<1>5. d \in 1 .. d /\ Len(rest) <= n
  BY ONLY <1>1, <1>3, <1>4
<1>6. indexes[d] = n + 1
  <2>1. indexes[d] <= n + 1
    BY <1>5 DEF LettersInv, CallsOK
  <2> QED
    BY ONLY <1>1, <1>2, <1>4, <2>1
<1>7. Len(printed') = PrintedBy(n, rest) + Factorial[n - Len(rest)]
  <2>1. Len(printed) = PrintedBy(n, indexes)
    BY <1>2 DEF LettersInv, CallsOK
  <2>2. PrintedBy(n, indexes) = PrintedBy(n, rest) + Factorial[n - Len(rest)]
    BY <1>1, <1>3, <1>6, EndCounts
  <2> QED
    BY <1>2, <2>1, <2>2
<1>8. ASSUME NEW k \in 1 .. Len(rest)
      PROVE  k <= rest[k] /\ rest[k] <= n
  <2>1. k \in 1 .. d - 1 /\ k \in 1 .. d /\ k < d
    BY ONLY <1>4, k \in 1 .. Len(rest)
  <2>2. k <= indexes[k] /\ indexes[k] <= n
    BY <2>1 DEF LettersInv, CallsOK
  <2> QED
    BY <1>4, <2>1, <2>2
<1>9. CallsOK'
  <2>1. n = Len(given')
    BY <1>2
  <2> HIDE DEF n, rest
  <2> QED
    BY ONLY <1>1, <1>2, <1>4, <1>5, <1>7, <1>8, <2>1, ReturnKeeps
<1>10. printed # << >>
  <2>1. SUFFICES ASSUME printed = << >>
                 PROVE  FALSE
    OBVIOUS
  <2>2. indexes[d] = d
    BY <1>5, <2>1 DEF LettersInv, StringOK
  <2> QED
    BY ONLY <1>1, <1>3, <1>4, <1>6, <2>2
<1>11. StringOK'
  BY <1>2, <1>10 DEF LettersInv, StringOK
<1> QED
  BY <1>9, <1>11 DEF LettersInv

(* In all steps of permute(): the strings printed so far and those that    *)
(* the calls underway have still to print are n! together, and the string  *)
(* they share keeps its letters.                                           *)
THEOREM LettersInvariant == PermuteSpec => []LettersInv
<1>1. PermuteInit => LettersInv
  <2> SUFFICES ASSUME PermuteInit
               PROVE  LettersInv
    OBVIOUS
  <2>1. /\ input = << >> /\ given = << >> /\ indexes = << >> /\ printed = << >>
        /\ permuting = "none" /\ Len(<< >>) = 0
    BY EmptySeq DEF PermuteInit
  <2>2. << >> \in Seq(Nat) /\ << >> \in Seq(Letters)
        /\ << >> \in Seq(Rearranged(<< >>))
    BY EmptySeq
  <2> QED
    BY <2>1, <2>2 DEF LettersInv, CallsOK, StringOK
<1>2. LettersInv /\ [PermuteNext]_permuteVars => LettersInv'
  <2> SUFFICES ASSUME LettersInv, [PermuteNext]_permuteVars
               PROVE  LettersInv'
    OBVIOUS
  <2>1. CASE PermuteText
    <3>1. /\ permuting' = "called" /\ given' \in Texts /\ input' = given'
          /\ indexes' = << >> /\ printed' = << >>
      BY <2>1 DEF PermuteText
    <3>2. given' \in Seq(Letters) /\ Len(given') \in Nat
      BY <3>1, TextAssumption, LenProperties
    <3>3. /\ << >> \in Seq(Nat) /\ << >> \in Seq(Rearranged(given'))
          /\ Len(<< >>) = 0
      BY EmptySeq
    <3>4. PrintedBy(Len(given'), << >>) = 0
      BY NonePrinted
    <3> QED
      BY <3>1, <3>2, <3>3, <3>4 DEF LettersInv, CallsOK, StringOK
  <2>2. CASE BeginLoop
    BY <2>2, BeginLoopKeeps
  <2>3. CASE PrintText
    BY <2>3, PrintTextKeeps
  <2>4. CASE SwapAndRecur
    BY <2>4, SwapAndRecurKeeps
  <2>5. CASE EndLoop
    BY <2>5, EndLoopKeeps
  <2>6. CASE UNCHANGED permuteVars
    BY <2>6 DEF permuteVars, LettersInv, CallsOK, StringOK
  <2> QED
    BY <2>1, <2>2, <2>3, <2>4, <2>5, <2>6 DEF PermuteNext
<1> QED
  BY <1>1, <1>2, PTL DEF PermuteSpec

(* A string of n letters is printed n! times, first as it was given and    *)
(* each time with its letters.                                             *)
THEOREM LettersPermuted == PermuteSpec => []PermutesLetters
<1>1. LettersInv => PermutesLetters
  <2> SUFFICES ASSUME LettersInv, permuting = "done"
               PROVE  /\ Len(printed) = Factorial[Len(given)]
                      /\ printed[1] = given
                      /\ Range(printed) \subseteq Rearranged(given)
    BY DEF PermutesLetters
  <2>1. Len(printed) = Factorial[Len(given)]
    BY DEF LettersInv, CallsOK
  <2>2. printed \in Seq(Rearranged(given))
    BY DEF LettersInv, StringOK
  <2>3. Range(printed) \subseteq Rearranged(given)
    BY <2>2, StringType DEF Range
  <2>4. printed # << >>
    <3>1. Len(given) \in Nat
      BY LettersLength DEF LettersInv
    <3>2. Factorial[Len(given)] > 0
      BY <3>1, FactorialPositive
    <3> QED
      BY <2>1, <3>2, EmptySeq
  <2>5. printed[1] = given
    BY <2>4 DEF LettersInv, StringOK
  <2> QED
    BY <2>1, <2>3, <2>5
<1> QED
  BY <1>1, LettersInvariant, PTL

-----------------------------------------------------------------------------
(* The strings that begin with p and those that come before all of them.   *)

Prefix(t, p) == \A k \in 1 .. Len(p) : t[k] = p[k]

Earlier(t, p) ==
  \E k \in 1 .. Len(p) : t[k] < p[k] /\ \A l \in 1 .. k - 1 : t[l] = p[l]

(* p is q and one letter c more. *)
OneMore(p, q, c) ==
  /\ p \in Seq(Letters) /\ q \in Seq(Letters) /\ c \in Letters
  /\ Len(q) \in Nat /\ Len(p) = Len(q) + 1
  /\ p[Len(q) + 1] = c /\ \A k \in 1 .. Len(q) : p[k] = q[k]

LEMMA AppendOneMore ==
  ASSUME NEW q \in Seq(Letters), NEW c \in Letters, NEW p, p = Append(q, c)
  PROVE  OneMore(p, q, c)
BY AppendProperties, LenProperties DEF OneMore

LEMMA FrontOneMore ==
  ASSUME NEW p \in Seq(Letters), p # << >>
  PROVE  OneMore(p, Front(p), Last(p))
<1>1. /\ Len(p) \in Nat /\ Len(p) >= 1 /\ Last(p) = p[Len(p)] /\ Last(p) \in Letters
      /\ Front(p) \in Seq(Letters) /\ Len(Front(p)) = Len(p) - 1
      /\ \A k \in 1 .. Len(p) - 1 : Front(p)[k] = p[k]
  BY FrontLast
<1>2. Len(Front(p)) \in Nat /\ Len(p) = Len(Front(p)) + 1
  BY ONLY <1>1
<1> QED
  BY <1>1, <1>2 DEF OneMore

LEMMA PrefixMore ==
  ASSUME NEW p, NEW q, NEW c, OneMore(p, q, c), NEW t
  PROVE  Prefix(t, p) <=> Prefix(t, q) /\ t[Len(q) + 1] = c
<1>1. /\ Len(q) \in Nat /\ Len(p) = Len(q) + 1
      /\ p[Len(q) + 1] = c /\ \A k \in 1 .. Len(q) : p[k] = q[k]
  BY DEF OneMore
<1>2. \A k : k \in 1 .. Len(p) <=> k \in 1 .. Len(q) \/ k = Len(q) + 1
  BY ONLY <1>1
<1> QED
  BY <1>1, <1>2 DEF Prefix

LEMMA EarlierMore ==
  ASSUME NEW p, NEW q, NEW c, OneMore(p, q, c), NEW t
  PROVE  Earlier(t, p) <=> Earlier(t, q) \/ (Prefix(t, q) /\ t[Len(q) + 1] < c)
<1> DEFINE m == Len(q)
<1>1. /\ m \in Nat /\ Len(p) = m + 1
      /\ p[m + 1] = c /\ \A k \in 1 .. m : p[k] = q[k]
  BY DEF OneMore
<1> HIDE DEF m
<1>2. ASSUME NEW k \in 1 .. m
      PROVE  (t[k] < p[k] /\ \A l \in 1 .. k - 1 : t[l] = p[l])
               <=> (t[k] < q[k] /\ \A l \in 1 .. k - 1 : t[l] = q[l])
  <2>1. \A l \in 1 .. k - 1 : l \in 1 .. m
    BY ONLY <1>1, k \in 1 .. m
  <2> QED
    BY <1>1, <2>1
<1>3. (\A l \in 1 .. (m + 1) - 1 : t[l] = p[l]) <=> Prefix(t, q)
  <2>1. (m + 1) - 1 = m
    BY ONLY <1>1
  <2> QED
    BY <1>1, <2>1 DEF Prefix, m
<1>4. \A k : k \in 1 .. m + 1 <=> k \in 1 .. m \/ k = m + 1
  BY ONLY <1>1
<1>5. Earlier(t, p) <=>
        \/ \E k \in 1 .. m : t[k] < p[k] /\ \A l \in 1 .. k - 1 : t[l] = p[l]
        \/ t[m + 1] < p[m + 1] /\ \A l \in 1 .. (m + 1) - 1 : t[l] = p[l]
  BY <1>1, <1>4 DEF Earlier
<1>6. Earlier(t, q) <=>
        \E k \in 1 .. m : t[k] < q[k] /\ \A l \in 1 .. k - 1 : t[l] = q[l]
  BY DEF Earlier, m
<1> QED
  BY <1>1, <1>2, <1>3, <1>5, <1>6 DEF m

(* The letters after the first k ones are those that are more often in the *)
(* whole string.                                                           *)
LEMMA CountInSame ==
  ASSUME NEW k, NEW t, NEW p, NEW c, \A j \in 1 .. k : t[j] = p[j]
  PROVE  CountIn(t, c, k) = CountIn(p, c, k)
<1>1. {j \in 1 .. k : t[j] = c} = {j \in 1 .. k : p[j] = c}
  OBVIOUS
<1> QED
  BY <1>1 DEF CountIn

LEMMA CountInLater ==
  ASSUME NEW n \in Nat, NEW k \in 0 .. n, NEW t, NEW c
  PROVE  /\ CountIn(t, c, k) <= CountIn(t, c, n)
         /\ CountIn(t, c, k) < CountIn(t, c, n)
              <=> \E j \in k + 1 .. n : t[j] = c
<1> DEFINE C(m) == {j \in 1 .. m : t[j] = c}
<1>1. IsFiniteSet(C(n)) /\ C(k) \subseteq C(n)
  <2>1. IsFiniteSet(1 .. n)
    BY FS_Interval
  <2> QED
    BY <2>1, FS_Subset
<1>2. C(k) = C(n) <=> ~ \E j \in k + 1 .. n : t[j] = c
  <2>1. \A j : j \in 1 .. n <=> j \in 1 .. k \/ j \in k + 1 .. n
    BY ONLY n \in Nat, k \in 0 .. n
  <2>2. \A j \in k + 1 .. n : j \notin 1 .. k
    BY ONLY n \in Nat, k \in 0 .. n
  <2> QED
    BY <2>1, <2>2
<1> HIDE DEF C
<1>3. /\ Cardinality(C(k)) <= Cardinality(C(n))
      /\ Cardinality(C(k)) = Cardinality(C(n)) => C(k) = C(n)
      /\ Cardinality(C(k)) \in Nat /\ Cardinality(C(n)) \in Nat
  BY <1>1, FS_Subset, FS_CardinalityType
<1>4. CountIn(t, c, k) = Cardinality(C(k)) /\ CountIn(t, c, n) = Cardinality(C(n))
  BY DEF CountIn, C
<1>5. Cardinality(C(k)) < Cardinality(C(n)) <=> C(k) # C(n)
  BY <1>3
<1> QED
  BY <1>2, <1>3, <1>4, <1>5

LEMMA ToBagCount ==
  ASSUME NEW n \in Nat, NEW S, NEW p \in [1 .. n -> S], NEW x
  PROVE  Copies(x, ToBag(p)) = CountIn(p, x, n)
<1>1. Holding(p, x) = {j \in 1 .. n : p[j] = x}
  BY DEF Holding
<1>2. Copies(x, ToBag(p)) = Cardinality(Holding(p, x))
  BY ToBagCopies
<1> QED
  BY <1>1, <1>2 DEF CountIn

LEMMA RearrangedCount ==
  ASSUME NEW w \in Seq(Letters), NEW t \in Rearranged(w), NEW x
  PROVE  CountIn(t, x, Len(w)) = CountIn(w, x, Len(w))
<1>1. Len(w) \in Nat /\ w \in [1 .. Len(w) -> Letters]
  BY StringType
<1>2. t \in [1 .. Len(w) -> Letters] /\ ToBag(t) = ToBag(w)
  BY <1>1, RearrangedType
<1> QED
  BY <1>1, <1>2, ToBagCount

-----------------------------------------------------------------------------
(* perm(): what the calls share, seen from one level.                      *)

(* The map holds the letters of w that are not in p.                       *)
MapOK(w, p, map) ==
  /\ IsABag(map)
  /\ \A x : Copies(x, map) + CountIn(p, x, Len(p)) = CountIn(w, x, Len(w))

(* Each call in its loop has put its letter in p, and knows whether it has *)
(* taken the last one.                                                     *)
Callers == [letter : Letters, slot : Slots, erased : BOOLEAN]

LoopsOK(w, p, callers) ==
  /\ callers \in Seq(Callers) /\ Len(callers) = Len(p)
  /\ \A k \in 1 .. Len(p) :
       /\ callers[k].letter = p[k]
       /\ callers[k].erased <=> CountIn(p, p[k], k) = CountIn(w, p[k], Len(w))

(* Some rearrangement of w begins with p.                                  *)
BeginOK(w, p) ==
  /\ p \in Seq(Letters) /\ Len(p) <= Len(w)
  /\ \E t \in Rearranged(w) : Prefix(t, p)

LevelOK(w, p, map, callers) ==
  MapOK(w, p, map) /\ LoopsOK(w, p, callers) /\ BeginOK(w, p)

(* The letters of the map are those that come after p. *)
LEMMA LettersLeft ==
  ASSUME NEW w \in Seq(Letters), NEW p \in Seq(Letters), Len(p) <= Len(w),
         NEW map, MapOK(w, p, map),
         NEW t \in Rearranged(w), Prefix(t, p), NEW x
  PROVE  x \in BagToSet(map) <=> \E j \in Len(p) + 1 .. Len(w) : t[j] = x
<1> DEFINE n == Len(w)
           d == Len(p)
<1>1. n \in Nat /\ d \in 0 .. n
  <2>1. n \in Nat /\ d \in Nat
    BY LenProperties
  <2> QED
    BY ONLY <2>1, Len(p) <= Len(w)
<1>2. CountIn(t, x, n) = CountIn(w, x, n)
  BY RearrangedCount
<1>3. CountIn(t, x, d) = CountIn(p, x, d)
  BY CountInSame DEF Prefix
<1>4. Copies(x, map) + CountIn(p, x, d) = CountIn(w, x, n)
  BY DEF MapOK
<1>5. Copies(x, map) \in Nat /\ (x \in BagToSet(map) <=> Copies(x, map) > 0)
  BY CopiesType DEF MapOK
<1>6. CountIn(t, x, d) < CountIn(t, x, n) <=> \E j \in d + 1 .. n : t[j] = x
  BY <1>1, CountInLater
<1>7. CountIn(t, x, d) \in Nat
  BY <1>1, CountInType
<1> HIDE DEF n, d
<1>8. x \in BagToSet(map) <=> CountIn(t, x, d) < CountIn(t, x, n)
  BY ONLY <1>2, <1>3, <1>4, <1>5, <1>7
<1> QED
  BY <1>6, <1>8 DEF n, d

(* The letter that a loop takes from the map. *)
LEMMA MapDown ==
  ASSUME NEW w, NEW p, NEW q, NEW c, OneMore(p, q, c),
         NEW map, MapOK(w, q, map), c \in BagToSet(map)
  PROVE  MapOK(w, p, RemoveBin(map, c))
<1> DEFINE m == Len(q)
           rest == RemoveBin(map, c)
<1>1. /\ IsABag(rest)
      /\ \A x : Copies(x, rest) = Copies(x, map) - IF x = c THEN 1 ELSE 0
  BY RemoveCopies DEF MapOK
<1>2. /\ m \in Nat /\ Len(p) = m + 1
      /\ p[m + 1] = c /\ \A k \in 1 .. m : p[k] = q[k]
  BY DEF OneMore
<1>3. ASSUME NEW x
      PROVE  Copies(x, rest) + CountIn(p, x, Len(p)) = CountIn(w, x, Len(w))
  <2>1. CountIn(p, x, Len(p)) = CountIn(p, x, m) + IF p[m + 1] = x THEN 1 ELSE 0
    <3> HIDE DEF m
    <3>1. CountIn(p, x, m + 1) = CountIn(p, x, m) + IF p[m + 1] = x THEN 1 ELSE 0
      BY <1>2, CountInStep
    <3> QED
      BY <1>2, <3>1
  <2>2. CountIn(p, x, m) = CountIn(q, x, m)
    BY <1>2, CountInSame
  <2>3. Copies(x, map) + CountIn(q, x, m) = CountIn(w, x, Len(w))
    BY DEF MapOK
  <2>4. Copies(x, map) \in Nat /\ CountIn(q, x, m) \in Nat
    BY <1>2, CopiesType, CountInType DEF MapOK
  <2>5. Copies(x, rest) = Copies(x, map) - IF x = c THEN 1 ELSE 0
    BY <1>1
  <2> HIDE DEF m, rest
  <2> QED
    BY ONLY <1>2, <2>1, <2>2, <2>3, <2>4, <2>5
<1> QED
  BY <1>1, <1>3 DEF MapOK

LEMMA LoopsDown ==
  ASSUME NEW w \in Seq(Letters), NEW p, NEW q, NEW c, OneMore(p, q, c),
         NEW map, MapOK(w, q, map), c \in BagToSet(map),
         NEW callers, LoopsOK(w, q, callers), NEW at \in Slots,
         NEW more,
         more = Append(callers, [letter |-> c, slot |-> at, erased |-> map[c] = 1])
  PROVE  LoopsOK(w, p, more)
<1> DEFINE m == Len(q)
           call_c == [letter |-> c, slot |-> at, erased |-> map[c] = 1]
<1>1. /\ m \in Nat /\ Len(p) = m + 1 /\ c \in Letters
      /\ p[m + 1] = c /\ \A k \in 1 .. m : p[k] = q[k]
  BY DEF OneMore
<1>2. callers \in Seq(Callers) /\ Len(callers) = m
  BY DEF LoopsOK
<1>3. call_c \in Callers
  BY <1>1 DEF Callers
<1>4. /\ more \in Seq(Callers) /\ Len(more) = m + 1
      /\ more[m + 1] = call_c /\ \A k \in 1 .. m : more[k] = callers[k]
  BY <1>2, <1>3, AppendProperties
<1>5. map[c] = 1 <=> CountIn(p, c, m + 1) = CountIn(w, c, Len(w))
  <2>1. Copies(c, map) = map[c]
    BY DEF Copies, BagToSet
  <2>2. Copies(c, map) \in Nat
    BY CopiesType DEF MapOK
  <2>3. Copies(c, map) + CountIn(q, c, m) = CountIn(w, c, Len(w))
    BY DEF MapOK
  <2>4. CountIn(p, c, m + 1) = CountIn(p, c, m) + 1
    BY <1>1, CountInStep
  <2>5. CountIn(p, c, m) = CountIn(q, c, m)
    BY <1>1, CountInSame
  <2>6. CountIn(q, c, m) \in Nat
    BY <1>1, CountInType
  <2> HIDE DEF m
  <2> QED
    BY ONLY <2>1, <2>2, <2>3, <2>4, <2>5, <2>6
<1>6. ASSUME NEW k \in 1 .. m + 1
      PROVE  /\ more[k].letter = p[k]
             /\ more[k].erased <=> CountIn(p, p[k], k) = CountIn(w, p[k], Len(w))
  <2>1. CASE k = m + 1
    <3>1. call_c.letter = c /\ (call_c.erased <=> map[c] = 1)
      OBVIOUS
    <3> HIDE DEF call_c, m
    <3>2. more[k] = call_c /\ p[k] = c
      BY <1>1, <1>4, <2>1
    <3> QED
      BY ONLY <1>5, <2>1, <3>1, <3>2
  <2>2. CASE k \in 1 .. m
    <3>1. /\ callers[k].letter = q[k]
          /\ callers[k].erased <=> CountIn(q, q[k], k) = CountIn(w, q[k], Len(w))
      BY <2>2 DEF LoopsOK
    <3>2. \A j \in 1 .. k : j \in 1 .. m
      BY ONLY <1>1, <2>2
    <3>3. CountIn(p, q[k], k) = CountIn(q, q[k], k)
      BY <1>1, <3>2, CountInSame
    <3>4. p[k] = q[k] /\ more[k] = callers[k]
      BY <1>1, <1>4, <2>2
    <3> QED
      BY <3>1, <3>3, <3>4
  <2> QED
    BY ONLY <1>1, <2>1, <2>2, k \in 1 .. m + 1
<1> QED
  BY <1>1, <1>4, <1>6 DEF LoopsOK

LEMMA BeginDown ==
  ASSUME NEW w \in Seq(Letters), NEW p, NEW q, NEW c, OneMore(p, q, c),
         NEW map, MapOK(w, q, map), c \in BagToSet(map), BeginOK(w, q)
  PROVE  BeginOK(w, p) /\ Len(q) < Len(w)
<1> DEFINE n == Len(w)
           m == Len(q)
<1>1. /\ m \in Nat /\ Len(p) = m + 1 /\ p \in Seq(Letters) /\ q \in Seq(Letters)
  BY DEF OneMore
<1>2. n \in Nat /\ w \in [1 .. n -> Letters] /\ m <= n
  BY StringType DEF BeginOK
<1>3. PICK t \in Rearranged(w) : Prefix(t, q)
  BY DEF BeginOK
<1>4. t \in [1 .. n -> Letters] /\ ToBag(t) = ToBag(w)
  BY <1>2, RearrangedType
<1>5. PICK j \in m + 1 .. n : t[j] = c
  BY <1>1, <1>2, <1>3, LettersLeft
<1>6. m + 1 \in 1 .. n /\ j \in 1 .. n /\ m < n /\ Len(p) <= n
  BY ONLY <1>1, <1>2, j \in m + 1 .. n
<1> DEFINE u == Swap(t, m + 1, j)
<1>7. /\ u[m + 1] = c
      /\ \A k \in 1 .. m : u[k] = t[k]
  <2>1. u = [t EXCEPT ![m + 1] = t[j], ![j] = t[m + 1]]
    BY DEF Swap
  <2>2. u[m + 1] = t[j]
    <3>1. CASE j = m + 1
      BY <1>4, <1>6, <2>1, <3>1
    <3>2. CASE j # m + 1
      BY <1>4, <1>6, <2>1, <3>2
    <3> QED
      BY <3>1, <3>2
  <2>3. \A k \in 1 .. m : k \in 1 .. n /\ k # m + 1 /\ k # j
    BY ONLY <1>1, <1>2, j \in m + 1 .. n
  <2>4. \A k \in 1 .. m : u[k] = t[k]
    BY <1>4, <2>1, <2>3
  <2> QED
    BY <1>5, <2>2, <2>4
<1>8. u \in [1 .. n -> Letters] /\ ToBag(u) = ToBag(w)
  <2>1. u = Swap(t, m + 1, j)
    OBVIOUS
  <2> HIDE DEF u, m, n
  <2>2. u \in [1 .. n -> Letters] /\ ToBag(u) = ToBag(t)
    <3>1. n \in Nat /\ t \in [1 .. n -> Letters]
      BY <1>2, <1>4
    <3> DEFINE a == m + 1
    <3>2. a \in 1 .. n /\ j \in 1 .. n /\ u = Swap(t, a, j)
      BY <1>6, <2>1
    <3> HIDE DEF a
    <3>3. Swapped(n, t, u, a, j)
      BY ONLY <3>1, <3>2 DEF Swapped
    <3> QED
      BY ONLY <3>3, SwapBag
  <2> QED
    BY <1>4, <2>2
<1> HIDE DEF u
<1>9. u \in Rearranged(w)
  BY <1>2, <1>8, SameBag
<1>10. Prefix(u, p)
  <2>1. Prefix(u, q)
    BY <1>3, <1>7 DEF Prefix
  <2> QED
    BY <1>7, <2>1, PrefixMore
<1> QED
  BY <1>1, <1>6, <1>9, <1>10 DEF BeginOK

LEMMA MapLetters ==
  ASSUME NEW w \in Seq(Letters), NEW p, NEW map, MapOK(w, p, map), BeginOK(w, p),
         NEW x \in BagToSet(map)
  PROVE  x \in Letters /\ x \in Range(w)
<1>1. p \in Seq(Letters) /\ Len(p) <= Len(w) /\ Len(p) \in Nat /\ Len(w) \in Nat
  BY LenProperties DEF BeginOK
<1>2. PICK t \in Rearranged(w) : Prefix(t, p)
  BY DEF BeginOK
<1>3. PICK j \in Len(p) + 1 .. Len(w) : t[j] = x
  BY <1>1, <1>2, LettersLeft
<1>4. t \in [1 .. Len(w) -> Letters] /\ t \in [1 .. Len(w) -> Range(w)]
  BY StringType, RearrangedType DEF Rearranged
<1>5. j \in 1 .. Len(w)
  BY ONLY <1>1, j \in Len(p) + 1 .. Len(w)
<1> QED
  BY <1>3, <1>4, <1>5

(* What a loop gives back. *)
LEMMA MapUp ==
  ASSUME NEW w \in Seq(Letters), NEW p, NEW q, NEW c, OneMore(p, q, c),
         NEW map, MapOK(w, p, map), NEW back,
         back = IF CountIn(p, c, Len(p)) = CountIn(w, c, Len(w))
                THEN Insert(map, c) ELSE [map EXCEPT ![c] = @ + 1]
  PROVE  MapOK(w, q, back)
<1> DEFINE m == Len(q)
<1>1. /\ m \in Nat /\ Len(p) = m + 1
      /\ p[m + 1] = c /\ \A k \in 1 .. m : p[k] = q[k]
  BY DEF OneMore
<1>2. /\ IsABag(map)
      /\ \A x : Copies(x, map) + CountIn(p, x, m + 1) = CountIn(w, x, Len(w))
  BY <1>1 DEF MapOK
<1>3. \A x : Copies(x, map) \in Nat /\ (x \in DOMAIN map <=> Copies(x, map) > 0)
  BY <1>2, CopiesType DEF BagToSet
<1>4. map = [x \in DOMAIN map |-> map[x]] /\ \A x \in DOMAIN map : map[x] \in Nat /\ map[x] > 0
  BY <1>2 DEF IsABag
<1>5. ASSUME NEW x
      PROVE  /\ CountIn(p, x, m + 1) = CountIn(q, x, m) + IF x = c THEN 1 ELSE 0
             /\ CountIn(q, x, m) \in Nat
  <2> HIDE DEF m
  <2>1. CountIn(p, x, m + 1) = CountIn(p, x, m) + IF p[m + 1] = x THEN 1 ELSE 0
    BY <1>1, CountInStep
  <2>2. CountIn(p, x, m) = CountIn(q, x, m)
    BY <1>1, CountInSame
  <2>3. CountIn(q, x, m) \in Nat
    BY <1>1, CountInType
  <2> QED
    BY <1>1, <2>1, <2>2, <2>3
<1>6. /\ IsABag(back)
      /\ \A x : Copies(x, back) = Copies(x, map) + IF x = c THEN 1 ELSE 0
  <2>1. CASE CountIn(p, c, m + 1) = CountIn(w, c, Len(w))
    <3>1. c \notin DOMAIN map
      <4>1. /\ Copies(c, map) + CountIn(p, c, m + 1) = CountIn(w, c, Len(w))
            /\ Copies(c, map) \in Nat /\ CountIn(q, c, m) \in Nat
            /\ CountIn(p, c, m + 1) = CountIn(q, c, m) + 1
        BY <1>2, <1>3, <1>5
      <4>2. ~(Copies(c, map) > 0)
        BY ONLY <2>1, <4>1
      <4> QED
        BY <1>3, <4>2
    <3>2. back = Insert(map, c)
      BY <1>1, <2>1
    <3>3. back = [x \in DOMAIN map \cup {c} |-> IF x \in DOMAIN map THEN map[x] ELSE 1]
      BY <3>2 DEF Insert, BagToSet
    <3>4. \A x \in DOMAIN back : back[x] \in Nat /\ back[x] > 0
      BY <1>4, <3>3
    <3>5. IsABag(back)
      BY <3>3, <3>4 DEF IsABag
    <3>6. \A x : Copies(x, back) = Copies(x, map) + IF x = c THEN 1 ELSE 0
      BY <1>4, <3>1, <3>3 DEF Copies
    <3> QED
      BY <3>5, <3>6
  <2>2. CASE CountIn(p, c, m + 1) # CountIn(w, c, Len(w))
    <3>1. c \in DOMAIN map
      <4>1. /\ Copies(c, map) + CountIn(p, c, m + 1) = CountIn(w, c, Len(w))
            /\ Copies(c, map) \in Nat /\ CountIn(q, c, m) \in Nat
            /\ CountIn(p, c, m + 1) = CountIn(q, c, m) + 1
        BY <1>2, <1>3, <1>5
      <4>2. Copies(c, map) > 0
        BY ONLY <2>2, <4>1
      <4> QED
        BY <1>3, <4>2
    <3>2. back = [map EXCEPT ![c] = map[c] + 1]
      BY <1>1, <2>2
    <3>3. back = [x \in DOMAIN map |-> IF x = c THEN map[c] + 1 ELSE map[x]]
      BY <1>4, <3>2
    <3>4. \A x \in DOMAIN back : back[x] \in Nat /\ back[x] > 0
      BY <1>4, <3>3
    <3>5. IsABag(back)
      BY <3>3, <3>4 DEF IsABag
    <3>6. \A x : Copies(x, back) = Copies(x, map) + IF x = c THEN 1 ELSE 0
      BY <1>4, <3>1, <3>3 DEF Copies
    <3> QED
      BY <3>5, <3>6
  <2> QED
    BY <2>1, <2>2
<1>7. ASSUME NEW x
      PROVE  Copies(x, back) + CountIn(q, x, m) = CountIn(w, x, Len(w))
  <2>1. /\ Copies(x, back) = Copies(x, map) + IF x = c THEN 1 ELSE 0
        /\ Copies(x, map) + CountIn(p, x, m + 1) = CountIn(w, x, Len(w))
        /\ CountIn(p, x, m + 1) = CountIn(q, x, m) + IF x = c THEN 1 ELSE 0
        /\ Copies(x, map) \in Nat /\ CountIn(q, x, m) \in Nat
    BY <1>2, <1>3, <1>5, <1>6
  <2> HIDE DEF m
  <2> QED
    BY ONLY <2>1
<1> QED
  BY <1>6, <1>7 DEF MapOK

LEMMA LoopsUp ==
  ASSUME NEW w, NEW p, NEW q, NEW c, OneMore(p, q, c),
         NEW callers, LoopsOK(w, p, callers)
  PROVE  /\ LoopsOK(w, q, Front(callers))
         /\ Last(callers).letter = c
         /\ Last(callers).erased <=> CountIn(p, c, Len(p)) = CountIn(w, c, Len(w))
<1> DEFINE m == Len(q)
<1>1. /\ m \in Nat /\ Len(p) = m + 1
      /\ p[m + 1] = c /\ \A k \in 1 .. m : p[k] = q[k]
  BY DEF OneMore
<1>2. /\ callers \in Seq(Callers) /\ Len(callers) = m + 1
      /\ \A k \in 1 .. m + 1 :
           /\ callers[k].letter = p[k]
           /\ callers[k].erased <=> CountIn(p, p[k], k) = CountIn(w, p[k], Len(w))
  BY <1>1 DEF LoopsOK
<1>3. callers # << >>
  BY <1>1, <1>2, EmptySeq
<1>4. /\ Last(callers) = callers[m + 1]
      /\ Front(callers) \in Seq(Callers) /\ Len(Front(callers)) = m
      /\ \A k \in 1 .. m : Front(callers)[k] = callers[k]
  <2>1. (m + 1) - 1 = m
    BY ONLY <1>1
  <2> QED
    <3>1. /\ Last(callers) = callers[Len(callers)]
          /\ Front(callers) \in Seq(Callers)
          /\ Len(Front(callers)) = Len(callers) - 1
          /\ \A k \in 1 .. Len(callers) - 1 : Front(callers)[k] = callers[k]
      BY <1>2, <1>3, FrontLast
    <3>2. Len(callers) = m + 1 /\ Len(callers) - 1 = m
      BY <1>2, <2>1
    <3> HIDE DEF m
    <3> QED
      BY <3>1, <3>2
<1>5. m + 1 \in 1 .. m + 1
  BY ONLY <1>1
<1>6. ASSUME NEW k \in 1 .. m
      PROVE  /\ Front(callers)[k].letter = q[k]
             /\ Front(callers)[k].erased
                  <=> CountIn(q, q[k], k) = CountIn(w, q[k], Len(w))
  <2>1. k \in 1 .. m + 1 /\ \A j \in 1 .. k : j \in 1 .. m
    BY ONLY <1>1, k \in 1 .. m
  <2>2. CountIn(p, q[k], k) = CountIn(q, q[k], k)
    BY <1>1, <2>1, CountInSame
  <2>3. p[k] = q[k] /\ Front(callers)[k] = callers[k]
    BY <1>1, <1>4
  <2> QED
    BY <1>2, <2>1, <2>2, <2>3
<1>7. LoopsOK(w, q, Front(callers))
  BY <1>4, <1>6 DEF LoopsOK
<1>8. /\ callers[m + 1].letter = c
      /\ callers[m + 1].erased
           <=> CountIn(p, c, m + 1) = CountIn(w, c, Len(w))
  BY <1>1, <1>2, <1>5
<1> QED
  BY <1>1, <1>4, <1>7, <1>8

LEMMA BeginUp ==
  ASSUME NEW w, NEW p, NEW q, NEW c, OneMore(p, q, c), w \in Seq(Letters),
         BeginOK(w, p)
  PROVE  BeginOK(w, q) /\ Len(q) < Len(w)
<1>1. /\ Len(q) \in Nat /\ Len(p) = Len(q) + 1 /\ q \in Seq(Letters)
      /\ Len(w) \in Nat /\ Len(p) <= Len(w)
  BY LenProperties DEF OneMore, BeginOK
<1>2. Len(q) <= Len(w) /\ Len(q) < Len(w)
  BY ONLY <1>1
<1>3. PICK t \in Rearranged(w) : Prefix(t, p)
  BY DEF BeginOK
<1>4. Prefix(t, q)
  BY <1>3, PrefixMore
<1> QED
  BY <1>1, <1>2, <1>3, <1>4 DEF BeginOK

(* Where a loop goes on, the strings with its letters so far still have    *)
(* the letters of the map to come.                                         *)
LEMMA NextLetterLeft ==
  ASSUME NEW w \in Seq(Letters), NEW q, NEW map, MapOK(w, q, map),
         BeginOK(w, q), Len(q) < Len(w), NEW t \in Rearranged(w), Prefix(t, q)
  PROVE  t[Len(q) + 1] \in BagToSet(map) /\ t[Len(q) + 1] \in Int
<1>1. /\ q \in Seq(Letters) /\ Len(q) \in Nat /\ Len(w) \in Nat
      /\ Len(q) <= Len(w)
  BY LenProperties DEF BeginOK
<1>2. Len(q) + 1 \in Len(q) + 1 .. Len(w)
  BY ONLY <1>1, Len(q) < Len(w)
<1>3. t[Len(q) + 1] \in BagToSet(map)
  BY <1>1, <1>2, LettersLeft
<1>4. t[Len(q) + 1] \in Letters
  BY <1>3, MapLetters
<1> QED
  BY <1>3, <1>4, TextAssumption

-----------------------------------------------------------------------------
(* perm(). *)

(* Before a call all strings are printed that come before those of the     *)
(* call, and after it those of the call as well.                           *)
CalledOK(w, p, o) == Range(o) = {t \in Rearranged(w) : Earlier(t, p)}

ReturnedOK(w, p, o) ==
  Range(o) = {t \in Rearranged(w) : Earlier(t, p) \/ Prefix(t, p)}

Sorted(o) == \A k, l \in DOMAIN o : k < l => Before(o[k], o[l])

UniqueInv ==
  /\ perming \in {"none", "called", "returned", "done", "undefined"}
  /\ word \in Seq(Letters) /\ slot \in [Range(word) -> Slots]
  /\ LevelOK(word, permutation, char_map, loops)
  /\ perming = "returned" => permutation # << >>
  /\ perming = "done" => permutation = << >>
  /\ out \in Seq(Rearranged(word)) /\ Sorted(out)
  /\ perming = "called" => CalledOK(word, permutation, out)
  /\ perming \in {"returned", "done"} => ReturnedOK(word, permutation, out)
  /\ UndefinedIfRepeated

LEMMA RecurKeeps ==
  ASSUME word \in Seq(Letters), NEW q, NEW map, NEW callers,
         LevelOK(word, q, map, callers), NEW slots \in [Range(word) -> Slots],
         NEW c \in BagToSet(map), Recur(q, map, slots, callers, c)
  PROVE  /\ OneMore(permutation', q, c) /\ Len(q) < Len(word)
         /\ LevelOK(word, permutation', char_map', loops')
         /\ slot' \in [Range(word) -> Slots]
         /\ perming' = "called"
<1>1. MapOK(word, q, map) /\ LoopsOK(word, q, callers) /\ BeginOK(word, q)
  BY DEF LevelOK
<1>2. /\ perming' = "called" /\ permutation' = Append(q, c)
      /\ char_map' = RemoveBin(map, c) /\ slot' = slots
      /\ loops' = Append(callers, [letter |-> c, slot |-> slots[c],
                                   erased |-> map[c] = 1])
  BY DEF Recur, RemoveBin
<1>3. q \in Seq(Letters) /\ c \in Letters /\ slots[c] \in Slots
  BY <1>1, MapLetters DEF BeginOK
<1>4. OneMore(permutation', q, c)
  BY <1>2, <1>3, AppendOneMore
<1>5. MapOK(word, permutation', char_map')
  BY <1>1, <1>2, <1>4, MapDown
<1>6. LoopsOK(word, permutation', loops')
  BY <1>1, <1>2, <1>3, <1>4, LoopsDown
<1>7. BeginOK(word, permutation') /\ Len(q) < Len(word)
  BY <1>1, <1>4, BeginDown
<1> QED
  BY <1>2, <1>4, <1>5, <1>6, <1>7 DEF LevelOK

LEMMA RestoreKeeps ==
  ASSUME UniqueInv, perming = "returned"
  PROVE  /\ OneMore(permutation, Front(permutation), LetterBack)
         /\ Len(Front(permutation)) < Len(word)
         /\ LevelOK(word, Front(permutation), Restore, Front(loops))
         /\ \A n \in Slots : Replaced(n) \in [Range(word) -> Slots]
<1> DEFINE q == Front(permutation)
           c == Last(permutation)
<1>1. /\ MapOK(word, permutation, char_map) /\ LoopsOK(word, permutation, loops)
      /\ BeginOK(word, permutation) /\ word \in Seq(Letters)
  BY DEF UniqueInv, LevelOK
<1>2. permutation \in Seq(Letters) /\ permutation # << >>
  BY <1>1 DEF UniqueInv, BeginOK
<1>3. OneMore(permutation, q, c)
  BY <1>2, FrontOneMore
<1> HIDE DEF q, c
<1>4. /\ LoopsOK(word, q, Front(loops)) /\ Last(loops).letter = c
      /\ Last(loops).erased
           <=> CountIn(permutation, c, Len(permutation)) = CountIn(word, c, Len(word))
  BY <1>1, <1>3, LoopsUp
<1>5. LetterBack = c
  BY <1>4 DEF LetterBack, c
<1>6. Restore = IF CountIn(permutation, c, Len(permutation))
                     = CountIn(word, c, Len(word))
                THEN Insert(char_map, c) ELSE [char_map EXCEPT ![c] = @ + 1]
  BY <1>4, <1>5 DEF Restore
<1>7. MapOK(word, q, Restore)
  BY <1>1, <1>3, <1>6, MapUp
<1>8. BeginOK(word, q) /\ Len(q) < Len(word)
  BY <1>1, <1>3, BeginUp
<1>9. \A n \in Slots : Replaced(n) \in [Range(word) -> Slots]
  <2>1. slot \in [Range(word) -> Slots]
    BY DEF UniqueInv
  <2> QED
    BY <2>1 DEF Replaced
<1> QED
  BY <1>3, <1>4, <1>5, <1>7, <1>8, <1>9 DEF LevelOK, q

(* A string that is complete comes after all that were printed. *)
LEMMA PrintPermutationKeeps ==
  ASSUME UniqueInv, PrintPermutation
  PROVE  UniqueInv'
<1> DEFINE n == Len(word)
           R == Rearranged(word)
<1>1. /\ perming = "called" /\ BagToSet(char_map) = {}
      /\ out' = Append(out, permutation) /\ PermReturns(loops)
      /\ UNCHANGED <<word, permutation, char_map, slot>>
  BY DEF PrintPermutation
<1>2. /\ word \in Seq(Letters) /\ LevelOK(word, permutation, char_map, loops)
      /\ MapOK(word, permutation, char_map) /\ LoopsOK(word, permutation, loops)
      /\ BeginOK(word, permutation)
      /\ out \in Seq(R) /\ Sorted(out) /\ CalledOK(word, permutation, out)
  BY <1>1 DEF UniqueInv, LevelOK
<1>3. /\ n \in Nat /\ permutation \in Seq(Letters)
      /\ Len(permutation) \in Nat /\ Len(permutation) <= n
      /\ permutation \in [1 .. Len(permutation) -> Letters]
  BY <1>2, StringType DEF BeginOK
<1>4. Len(permutation) = n
  <2>1. SUFFICES ASSUME Len(permutation) < n
                 PROVE  FALSE
    BY <1>3
  <2>2. PICK t \in R : Prefix(t, permutation)
    BY <1>2 DEF BeginOK
  <2> QED
    BY <1>1, <1>2, <2>1, <2>2, NextLetterLeft
<1>5. ASSUME NEW t \in R
      PROVE  Prefix(t, permutation) <=> t = permutation
  <2>1. t \in [1 .. n -> Letters]
    BY <1>2, StringType, RearrangedType
  <2> QED
    BY <1>3, <1>4, <2>1 DEF Prefix
<1>6. permutation \in R
  BY <1>2, <1>5 DEF BeginOK
<1>7. /\ out' \in Seq(R) /\ Len(out) \in Nat /\ Len(out') = Len(out) + 1
      /\ out'[Len(out) + 1] = permutation
      /\ \A k \in 1 .. Len(out) : out'[k] = out[k]
      /\ DOMAIN out = 1 .. Len(out) /\ DOMAIN out' = 1 .. Len(out) + 1
  <2>1. /\ out' \in Seq(R) /\ Len(out) \in Nat /\ Len(out') = Len(out) + 1
        /\ out'[Len(out) + 1] = permutation
        /\ \A k \in 1 .. Len(out) : out'[k] = out[k]
    BY <1>1, <1>2, <1>6, AppendProperties, LenProperties
  <2>2. DOMAIN out = 1 .. Len(out) /\ DOMAIN out' = 1 .. Len(out')
    BY <1>2, <2>1, LenProperties
  <2> QED
    BY <2>1, <2>2
<1> HIDE DEF n, R
<1>8. Range(out') = Range(out) \cup {permutation}
  <2>1. \A k : k \in 1 .. Len(out) + 1 <=> k \in 1 .. Len(out) \/ k = Len(out) + 1
    BY ONLY <1>7
  <2>2. /\ Range(out) = {out[k] : k \in 1 .. Len(out)}
        /\ Range(out') = {out'[k] : k \in 1 .. Len(out) + 1}
    BY <1>7 DEF Range
  <2> QED
    BY <1>7, <2>1, <2>2
<1>9. ReturnedOK(word, permutation, out')
  BY <1>2, <1>5, <1>6, <1>8 DEF ReturnedOK, CalledOK, R
<1>10. ASSUME NEW t \in R, Earlier(t, permutation)
       PROVE  Before(t, permutation)
  <2>1. DOMAIN t = 1 .. n
    <3>1. t \in [1 .. n -> Letters]
      BY <1>2, StringType, RearrangedType DEF R, n
    <3> QED
      BY <3>1
  <2> QED
    BY <1>4, <1>10, <2>1 DEF Earlier, Before
<1>11. Sorted(out')
  <2>1. SUFFICES ASSUME NEW k \in 1 .. Len(out) + 1, NEW l \in 1 .. Len(out) + 1,
                        k < l
                 PROVE  Before(out'[k], out'[l])
    BY <1>7 DEF Sorted
  <2>2. k \in 1 .. Len(out) /\ out'[k] = out[k]
    BY <1>7, <2>1
  <2>3. CASE l = Len(out) + 1
    <3>1. out[k] \in Range(out)
      BY <1>7, <2>2 DEF Range
    <3>2. out[k] \in R /\ Earlier(out[k], permutation)
      BY <1>2, <3>1 DEF CalledOK, R
    <3> QED
      BY <1>7, <1>10, <2>2, <2>3, <3>2
  <2>4. CASE l \in 1 .. Len(out)
    BY <1>2, <1>7, <2>1, <2>2, <2>4 DEF Sorted
  <2> QED
    BY ONLY <1>7, <2>3, <2>4, l \in 1 .. Len(out) + 1
<1>12. /\ loops' = loops /\ perming' \in {"returned", "done"}
       /\ perming' = "done" <=> loops = << >>
  BY <1>1 DEF PermReturns
<1>13. loops = << >> <=> permutation = << >>
  BY <1>2, <1>3, EmptySeq DEF LoopsOK
<1>14. UndefinedIfRepeated'
  BY <1>12 DEF UndefinedIfRepeated
<1>15. slot' \in [Range(word) -> Slots]
  BY <1>1 DEF UniqueInv
<1> QED
  BY <1>1, <1>2, <1>7, <1>9, <1>11, <1>12, <1>13, <1>14, <1>15 DEF UniqueInv, R

(* The loop of a call takes the first letter: nothing comes before it. *)
LEMMA FirstLetterKeeps ==
  ASSUME UniqueInv, FirstLetter
  PROVE  UniqueInv'
<1> DEFINE q == permutation
<1>1. /\ perming = "called" /\ UNCHANGED <<word, out>>
      /\ word \in Seq(Letters) /\ LevelOK(word, q, char_map, loops)
      /\ out \in Seq(Rearranged(word)) /\ Sorted(out) /\ CalledOK(word, q, out)
      /\ slot \in [Range(word) -> Slots]
  BY DEF FirstLetter, UniqueInv
<1>2. PICK c \in BagToSet(char_map) :
        /\ \A d \in BagToSet(char_map) : c <= d
        /\ Recur(q, char_map, slot, loops, c)
  BY DEF FirstLetter
<1>3. /\ OneMore(permutation', q, c) /\ Len(q) < Len(word)
      /\ LevelOK(word, permutation', char_map', loops')
      /\ slot' \in [Range(word) -> Slots]
      /\ perming' = "called"
  <2> HIDE DEF q
  <2> QED
    BY <1>1, <1>2, RecurKeeps
<1>4. MapOK(word, q, char_map) /\ BeginOK(word, q)
  BY <1>1 DEF LevelOK
<1>5. c \in Int
  BY <1>1, <1>4, MapLetters, TextAssumption
<1> HIDE DEF q
<1>6. ASSUME NEW t \in Rearranged(word)
      PROVE  Earlier(t, permutation') <=> Earlier(t, q)
  <2>1. Earlier(t, permutation')
          <=> Earlier(t, q) \/ (Prefix(t, q) /\ t[Len(q) + 1] < c)
    BY <1>3, EarlierMore
  <2>2. ASSUME Prefix(t, q)
        PROVE  ~(t[Len(q) + 1] < c)
    <3> DEFINE e == t[Len(q) + 1]
    <3>1. e \in BagToSet(char_map) /\ e \in Int
      BY <1>1, <1>3, <1>4, <2>2, NextLetterLeft
    <3> HIDE DEF e
    <3>2. c <= e
      BY <1>2, <3>1
    <3>3. ~(e < c)
      BY ONLY <1>5, <3>1, <3>2
    <3> QED
      BY <3>3 DEF e
  <2> QED
    BY <2>1, <2>2
<1>7. CalledOK(word, permutation', out)
  BY <1>1, <1>6 DEF CalledOK
<1> QED
  BY <1>1, <1>3, <1>7 DEF UniqueInv, UndefinedIfRepeated

(* The loop goes on with the next greater letter of the map: no letter is  *)
(* between.                                                                *)
LEMMA NextLetterKeeps ==
  ASSUME UniqueInv, NextLetter
  PROVE  UniqueInv'
<1> DEFINE q == Front(permutation)
           b == LetterBack
           map == Restore
<1>1. /\ perming = "returned" /\ UNCHANGED <<word, out>>
      /\ word \in Seq(Letters)
      /\ out \in Seq(Rearranged(word)) /\ Sorted(out)
      /\ ReturnedOK(word, permutation, out)
  BY DEF NextLetter, UniqueInv
<1>2. /\ OneMore(permutation, q, b) /\ Len(q) < Len(word)
      /\ LevelOK(word, q, map, Front(loops))
      /\ \A n \in Slots : Replaced(n) \in [Range(word) -> Slots]
  BY <1>1, RestoreKeeps
<1>3. PICK n \in Slots, c \in Greater :
        /\ \A d \in Greater : c <= d
        /\ Recur(q, map, Replaced(n), Front(loops), c)
  BY DEF NextLetter
<1>4. /\ c \in BagToSet(map) /\ c > b
      /\ \A d \in BagToSet(map) : d > b => c <= d
  BY <1>3 DEF Greater
<1> HIDE DEF q, b, map
<1>5. /\ OneMore(permutation', q, c)
      /\ LevelOK(word, permutation', char_map', loops')
      /\ slot' \in [Range(word) -> Slots]
      /\ perming' = "called"
  BY <1>1, <1>2, <1>3, <1>4, RecurKeeps
<1>6. MapOK(word, q, map) /\ BeginOK(word, q)
  BY <1>2 DEF LevelOK
<1>7. c \in Int /\ b \in Int
  BY <1>2, <1>5, TextAssumption DEF OneMore
<1>8. ASSUME NEW t \in Rearranged(word)
      PROVE  Earlier(t, permutation')
               <=> Earlier(t, permutation) \/ Prefix(t, permutation)
  <2> DEFINE e == t[Len(q) + 1]
  <2>1. Earlier(t, permutation') <=> Earlier(t, q) \/ (Prefix(t, q) /\ e < c)
    BY <1>5, EarlierMore
  <2>2. /\ Earlier(t, permutation) <=> Earlier(t, q) \/ (Prefix(t, q) /\ e < b)
        /\ Prefix(t, permutation) <=> Prefix(t, q) /\ e = b
    BY <1>2, EarlierMore, PrefixMore
  <2>3. ASSUME Prefix(t, q)
        PROVE  e < c <=> e < b \/ e = b
    <3>1. e \in BagToSet(map) /\ e \in Int
      BY <1>1, <1>2, <1>6, <2>3, NextLetterLeft
    <3> HIDE DEF e
    <3>2. e > b => c <= e
      BY <1>4, <3>1
    <3> QED
      BY ONLY <1>4, <1>7, <3>1, <3>2
  <2> HIDE DEF e
  <2> QED
    BY <2>1, <2>2, <2>3
<1>9. CalledOK(word, permutation', out)
  BY <1>1, <1>8 DEF CalledOK, ReturnedOK
<1> QED
  BY <1>1, <1>5, <1>9 DEF UniqueInv, UndefinedIfRepeated

(* The loop is over: no letter of the map is greater. *)
LEMMA EndLettersKeeps ==
  ASSUME UniqueInv, EndLetters
  PROVE  UniqueInv'
<1> DEFINE q == Front(permutation)
           b == LetterBack
           map == Restore
<1>1. /\ perming = "returned" /\ UNCHANGED <<word, out>>
      /\ word \in Seq(Letters)
      /\ out \in Seq(Rearranged(word)) /\ Sorted(out)
      /\ ReturnedOK(word, permutation, out)
  BY DEF EndLetters, UniqueInv
<1>2. /\ OneMore(permutation, q, b) /\ Len(q) < Len(word)
      /\ LevelOK(word, q, map, Front(loops))
      /\ \A n \in Slots : Replaced(n) \in [Range(word) -> Slots]
  BY <1>1, RestoreKeeps
<1>3. /\ permutation' = q /\ char_map' = map /\ PermReturns(Front(loops))
      /\ \A d \in BagToSet(map) : ~(d > b)
      /\ slot' \in [Range(word) -> Slots]
  BY <1>2 DEF EndLetters, Greater
<1> HIDE DEF q, b, map
<1>4. MapOK(word, q, map) /\ BeginOK(word, q) /\ LoopsOK(word, q, Front(loops))
  BY <1>2 DEF LevelOK
<1>5. b \in Int
  BY <1>2, TextAssumption DEF OneMore
<1>6. ASSUME NEW t \in Rearranged(word)
      PROVE  Earlier(t, q) \/ Prefix(t, q)
               <=> Earlier(t, permutation) \/ Prefix(t, permutation)
  <2> DEFINE e == t[Len(q) + 1]
  <2>1. /\ Earlier(t, permutation) <=> Earlier(t, q) \/ (Prefix(t, q) /\ e < b)
        /\ Prefix(t, permutation) <=> Prefix(t, q) /\ e = b
    BY <1>2, EarlierMore, PrefixMore
  <2>2. ASSUME Prefix(t, q)
        PROVE  e < b \/ e = b
    <3>1. e \in BagToSet(map) /\ e \in Int
      BY <1>1, <1>2, <1>4, <2>2, NextLetterLeft
    <3> HIDE DEF e
    <3>2. ~(e > b)
      BY <1>3, <3>1
    <3> QED
      BY ONLY <1>5, <3>1, <3>2
  <2> HIDE DEF e
  <2> QED
    BY <2>1, <2>2
<1>7. ReturnedOK(word, q, out)
  BY <1>1, <1>6 DEF ReturnedOK
<1>8. /\ loops' = Front(loops) /\ perming' \in {"returned", "done"}
      /\ perming' = "done" <=> Front(loops) = << >>
  BY <1>3 DEF PermReturns
<1>9. Front(loops) = << >> <=> q = << >>
  BY <1>4, EmptySeq DEF LoopsOK, BeginOK
<1>10. UndefinedIfRepeated'
  BY <1>8 DEF UndefinedIfRepeated
<1> QED
  BY <1>1, <1>2, <1>3, <1>7, <1>8, <1>9, <1>10 DEF UniqueInv

(* Two of a letter are at two places. *)
LEMMA TwoPlaces ==
  ASSUME NEW t, NEW c, NEW n \in Nat, CountIn(t, c, n) > 1
  PROVE  \E k, l \in 1 .. n : k # l /\ t[k] = t[l]
<1> DEFINE P == {j \in 1 .. n : t[j] = c}
<1>1. CountIn(t, c, n) = Cardinality(P)
  BY DEF CountIn
<1>2. PICK k \in P : TRUE
  <2>1. SUFFICES ASSUME P = {}
                 PROVE  FALSE
    OBVIOUS
  <2>2. Cardinality(P) = 0
    BY <2>1, FS_EmptySet
  <2> QED
    BY <1>1, <2>2
<1>3. P # {k}
  <2>1. SUFFICES ASSUME P = {k}
                 PROVE  FALSE
    OBVIOUS
  <2>2. Cardinality(P) = 1
    BY <2>1, FS_Singleton
  <2> QED
    BY <1>1, <2>2
<1>4. PICK l \in P : l # k
  BY <1>2, <1>3
<1> QED
  BY <1>2, <1>4

(* An iterator whose entry a deeper call erased was kept at a letter of    *)
(* which this call had not taken the last: it took one, and another one    *)
(* is in the word.                                                         *)
LEMMA UseInvalidKeeps ==
  ASSUME UniqueInv, UseInvalid
  PROVE  UniqueInv'
<1> DEFINE c == Last(permutation)
           q == Front(permutation)
<1>1. /\ perming = "returned" /\ perming' = "undefined"
      /\ UNCHANGED <<word, permutation, char_map, slot, loops, out>>
      /\ word \in Seq(Letters) /\ permutation # << >>
      /\ MapOK(word, permutation, char_map) /\ LoopsOK(word, permutation, loops)
      /\ BeginOK(word, permutation)
  BY DEF UseInvalid, UniqueInv, LevelOK
<1>2. ~Last(loops).erased
  BY DEF UseInvalid, Points, Iterator
<1>3. OneMore(permutation, q, c)
  BY <1>1, FrontOneMore DEF BeginOK
<1> HIDE DEF c, q
<1>4. CountIn(permutation, c, Len(permutation)) # CountIn(word, c, Len(word))
  BY <1>1, <1>2, <1>3, LoopsUp
<1>5. /\ Copies(c, char_map) \in Nat
      /\ Copies(c, char_map) + CountIn(permutation, c, Len(permutation))
           = CountIn(word, c, Len(word))
  BY <1>1, CopiesType DEF MapOK
<1>6. CountIn(permutation, c, Len(permutation)) \in Nat \ {0}
  <2> DEFINE m == Len(q)
  <2>1. m \in Nat /\ Len(permutation) = m + 1 /\ permutation[m + 1] = c
    BY <1>3 DEF OneMore
  <2> HIDE DEF m
  <2>2. /\ CountIn(permutation, c, m + 1) = CountIn(permutation, c, m) + 1
        /\ CountIn(permutation, c, m) \in Nat
    BY <2>1, CountInStep, CountInType
  <2>3. CountIn(permutation, c, m + 1) \in Nat \ {0}
    BY ONLY <2>2
  <2> QED
    BY <2>1, <2>3
<1>7. CountIn(word, c, Len(word)) > 1
  BY ONLY <1>4, <1>5, <1>6
<1>8. Len(word) \in Nat /\ DOMAIN word = 1 .. Len(word)
  BY <1>1, StringType
<1>9. \E k, l \in 1 .. Len(word) : k # l /\ word[k] = word[l]
  BY <1>7, <1>8, TwoPlaces
<1>10. UndefinedIfRepeated'
  BY <1>1, <1>8, <1>9 DEF UndefinedIfRepeated
<1> QED
  BY <1>1, <1>10 DEF UniqueInv

(* No letter is picked yet. *)
LEMMA NothingPicked ==
  ASSUME NEW w \in Seq(Letters)
  PROVE  /\ LevelOK(w, << >>, ToBag(w), << >>)
         /\ \A t : ~Earlier(t, << >>) /\ Prefix(t, << >>)
<1>1. Len(<< >>) = 0 /\ Len(w) \in Nat /\ w \in [1 .. Len(w) -> Letters]
  BY EmptySeq, StringType
<1>2. MapOK(w, << >>, ToBag(w))
  <2>1. IsABag(ToBag(w)) /\ \A x : Copies(x, ToBag(w)) = CountIn(w, x, Len(w))
    BY <1>1, ToBagCopies, ToBagCount
  <2>2. \A x : CountIn(<< >>, x, 0) = 0 /\ CountIn(w, x, Len(w)) \in Nat
    BY <1>1, CountInNone, CountInType
  <2> QED
    BY <1>1, <2>1, <2>2 DEF MapOK
<1>3. LoopsOK(w, << >>, << >>)
  BY <1>1, EmptySeq DEF LoopsOK
<1>4. \A t : ~Earlier(t, << >>) /\ Prefix(t, << >>)
  BY <1>1 DEF Earlier, Prefix
<1>5. BeginOK(w, << >>)
  <2>1. w \in Rearranged(w)
    BY <1>1, SameBag
  <2> QED
    BY <1>1, <1>4, <2>1, EmptySeq DEF BeginOK
<1> QED
  BY <1>2, <1>3, <1>4, <1>5 DEF LevelOK

(* In all steps of perm() up to the first use of an iterator whose entry   *)
(* is gone: the map and the string share out the letters of the word, each *)
(* loop knows whether its letter is to be inserted or counted again, and   *)
(* what is printed is all that comes before. Such a use takes a letter     *)
(* that the word repeats.                                                  *)
THEOREM UniqueInvariant == UniqueSpec => []UniqueInv
<1>1. UniqueInit => UniqueInv
  <2> SUFFICES ASSUME UniqueInit
               PROVE  UniqueInv
    OBVIOUS
  <2>1. /\ word = << >> /\ permutation = << >> /\ loops = << >> /\ out = << >>
        /\ char_map = EmptyBag /\ perming = "none" /\ << >> \in Seq(Letters)
        /\ slot = << >>
    BY EmptySeq DEF UniqueInit
  <2>2. ToBag(<< >>) = EmptyBag
    BY DEF ToBag, EmptyBag, SetToBag, Range
  <2>3. /\ << >> \in Seq(Rearranged(<< >>)) /\ Sorted(<< >>)
    BY EmptySeq DEF Sorted
  <2>4. slot \in [Range(word) -> Slots]
    BY <2>1 DEF Range
  <2>5. LevelOK(word, permutation, char_map, loops)
    BY <2>1, <2>2, NothingPicked
  <2> QED
    BY <2>1, <2>3, <2>4, <2>5 DEF UniqueInv, UndefinedIfRepeated
<1>2. UniqueInv /\ [UniqueNext]_uniqueVars => UniqueInv'
  <2> SUFFICES ASSUME UniqueInv, [UniqueNext]_uniqueVars
               PROVE  UniqueInv'
    OBVIOUS
  <2>1. CASE PermuteWord
    <3>1. /\ perming' = "called" /\ word' \in Texts /\ char_map' = ToBag(word')
          /\ permutation' = << >> /\ loops' = << >> /\ out' = << >>
          /\ slot' \in [Range(word') -> Slots]
      BY <2>1 DEF PermuteWord
    <3>2. word' \in Seq(Letters)
      BY <3>1, TextAssumption
    <3>3. << >> \in Seq(Rearranged(word')) /\ Sorted(<< >>) /\ Range(<< >>) = {}
      BY EmptySeq DEF Sorted, Range
    <3>4. /\ LevelOK(word', << >>, ToBag(word'), << >>)
          /\ CalledOK(word', << >>, << >>)
      BY <3>2, <3>3, NothingPicked DEF CalledOK
    <3> QED
      BY <3>1, <3>2, <3>3, <3>4 DEF UniqueInv, UndefinedIfRepeated
  <2>2. CASE PrintPermutation
    BY <2>2, PrintPermutationKeeps
  <2>3. CASE FirstLetter
    BY <2>3, FirstLetterKeeps
  <2>4. CASE NextLetter
    BY <2>4, NextLetterKeeps
  <2>5. CASE EndLetters
    BY <2>5, EndLettersKeeps
  <2>6. CASE UseInvalid
    BY <2>6, UseInvalidKeeps
  <2>7. CASE UNCHANGED uniqueVars
    BY <2>7 DEF uniqueVars, UniqueInv, UndefinedIfRepeated
  <2> QED
    BY <2>1, <2>2, <2>3, <2>4, <2>5, <2>6, <2>7 DEF UniqueNext
<1> QED
  BY <1>1, <1>2, PTL DEF UniqueSpec

(* An iterator that points to an erased entry is used for no word whose    *)
(* letters all differ, wherever the allocator puts the entries.            *)
THEOREM DistinctDefined == UniqueSpec => []UndefinedIfRepeated
<1>1. UniqueInv => UndefinedIfRepeated
  BY DEF UniqueInv
<1> QED
  BY <1>1, UniqueInvariant, PTL

(* Whenever perm() comes to its end, every distinct permutation is         *)
(* printed, once, in the order of the dictionary, and what the calls       *)
(* shared is restored. A word with a repeated letter may leave perm() by   *)
(* UseInvalid instead, and by DistinctDefined no other word does.          *)
THEOREM UniquePermuted == UniqueSpec => []PermutesUnique
<1>1. UniqueInv => PermutesUnique
  <2> SUFFICES ASSUME UniqueInv, perming = "done"
               PROVE  /\ Range(out) = Rearranged(word)
                      /\ \A k, l \in DOMAIN out : k < l => Before(out[k], out[l])
                      /\ permutation = << >> /\ char_map = ToBag(word)
    BY DEF PermutesUnique
  <2>1. /\ permutation = << >> /\ Sorted(out) /\ word \in Seq(Letters)
        /\ MapOK(word, << >>, char_map) /\ ReturnedOK(word, << >>, out)
    BY DEF UniqueInv, LevelOK
  <2>2. /\ MapOK(word, << >>, ToBag(word))
        /\ \A t : Prefix(t, << >>)
    BY <2>1, NothingPicked DEF LevelOK
  <2>3. Range(out) = Rearranged(word)
    BY <2>1, <2>2 DEF ReturnedOK
  <2>4. char_map = ToBag(word)
    <3>1. IsABag(char_map) /\ IsABag(ToBag(word)) /\ Len(<< >>) = 0
      BY <2>1, <2>2, EmptySeq DEF MapOK
    <3>2. ASSUME NEW x
          PROVE  Copies(x, char_map) = Copies(x, ToBag(word))
      <4>1. /\ Copies(x, char_map) + CountIn(<< >>, x, 0) = CountIn(word, x, Len(word))
            /\ Copies(x, ToBag(word)) + CountIn(<< >>, x, 0)
                 = CountIn(word, x, Len(word))
        BY <2>1, <2>2, <3>1 DEF MapOK
      <4>2. /\ Copies(x, char_map) \in Nat /\ Copies(x, ToBag(word)) \in Nat
            /\ CountIn(<< >>, x, 0) \in Nat
        BY <3>1, CopiesType, CountInType
      <4> QED
        BY ONLY <4>1, <4>2
    <3> QED
      BY <3>1, <3>2, BagsEqual
  <2> QED
    BY <2>1, <2>3, <2>4 DEF Sorted
<1> QED
  BY <1>1, UniqueInvariant, PTL
=============================================================================
