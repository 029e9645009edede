-------------------------- MODULE LogFormatProofs --------------------------
(* Proofs about LogFormat, for patterns over any characters and of any      *)
(* length: init() never passes substr() a position behind the pattern, a    *)
(* clean pattern is parsed into what it is made of, and what it prints has  *)
(* the letters of its texts and no others.                                  *)
EXTENDS LogFormat, FiniteSetTheorems, SequenceTheorems, WellFoundedInduction, TLAPS

\* A set of numbers has a least one: the numbers up to it are the least set
\* among those up to each of the others.
LEMMA LeastOf ==
  ASSUME NEW S, S \subseteq Nat, S # {}
  PROVE  \E k \in S : \A j \in S : k <= j
<1> DEFINE upTo == {0 .. k : k \in S}
           R    == StrictSubsetOrdering(Nat)
<1>1. \A k \in Nat : 0 .. k \in FiniteSubsetsOf(Nat)
  <2> SUFFICES ASSUME NEW k \in Nat PROVE IsFiniteSet(0 .. k)
    BY DEF FiniteSubsetsOf
  <2> QED
    BY FS_Interval
<1>2. upTo \subseteq FiniteSubsetsOf(Nat) /\ upTo # {}
  BY <1>1
<1>3. \E X \in upTo : \A Y \in upTo : ~(<<Y, X>> \in R)
  <2> HIDE DEF upTo, R
  <2>1. IsWellFoundedOn(R, FiniteSubsetsOf(Nat))
    BY FS_StrictSubsetOrderingWellFounded DEF R
  <2> QED
    BY <1>2, <2>1, WFMin
<1>4. PICK k \in S : \A j \in S : ~(<<0 .. j, 0 .. k>> \in R)
  BY <1>3
<1>5. ASSUME NEW j \in S PROVE k <= j
  <2> SUFFICES ASSUME j < k PROVE FALSE
    BY <1>5
  <2>1. 0 .. j \subseteq 0 .. k /\ k \in 0 .. k /\ k \notin 0 .. j
    BY <1>5
  <2>2. <<0 .. j, 0 .. k>> \in R
    BY <2>1 DEF StrictSubsetOrdering
  <2> QED
    BY <1>4, <2>2
<1> QED
  BY <1>5

\* The scan for '}' stops at one, if there is one.
Closes(k) == pattern[k] = "}"
LEMMA ClosingInRange ==
  ASSUME Len0 \in Nat, i \in Nat,
         Closing <= Len0 \/ \E k \in i + 3 .. Len0 : Closes(k)
  PROVE  Closing \in i + 3 .. Len0 /\ Closes(Closing)
<1> DEFINE found == {k \in i + 3 .. Len0 : Closes(k)}
<1>1. found \subseteq i + 3 .. Len0 /\ \A k \in found : Closes(k)
  BY Zenon
<1>2. Closing = IF found = {} THEN Len0 + 1 ELSE CHOOSE k \in found : \A j \in found : k <= j
  BY Zenon DEF Closing, Closes
<1>3. Closing <= Len0 \/ found # {}
  BY Zenon
<1> HIDE DEF found
<1>4. CASE found = {}
  BY <1>2, <1>3, <1>4
<1>5. CASE found # {}
  <2>1. found \subseteq Nat
    BY <1>1
  <2>2. \E k \in found : \A j \in found : k <= j
    BY <1>5, <2>1, LeastOf
  <2>3. Closing \in found
    BY <1>2, <1>5, <2>2
  <2> QED
    BY <1>1, <2>3
<1> QED
  BY <1>4, <1>5

\* The loop's two indices, whatever the pattern.
RangeInv ==
  /\ pattern \in Patterns
  /\ i \in 1 .. Len0 + 1 /\ last \in 1 .. Len0 + 1 /\ last <= i + 1

LEMMA LengthOfPattern ==
  ASSUME MaxLen \in Nat, pattern \in Patterns
  PROVE  Len0 \in Nat
<1>1. PICK n \in 0 .. MaxLen : pattern \in [1 .. n -> Chars]
  BY DEF Patterns
<1>2. pattern \in Seq(Chars)
  BY <1>1
<1> QED
  BY <1>2 DEF Len0

LEMMA RangeHolds == Spec => []RangeInv
<1>0. MaxLen \in Nat
  BY LogFormatAssumption, Zenon DEF LogFormatAssumption
<1>1. Init => RangeInv
  <2> SUFFICES ASSUME Init PROVE RangeInv
    OBVIOUS
  <2>1. pattern \in Patterns /\ i = 1 /\ last = 1
    BY DEF Init
  <2>2. Len0 \in Nat
    BY <1>0, <2>1, LengthOfPattern
  <2> QED
    BY <2>1, <2>2 DEF RangeInv
<1>2. RangeInv /\ [Next]_vars => RangeInv'
  <2> SUFFICES ASSUME RangeInv, [Next]_vars PROVE RangeInv'
    OBVIOUS
  <2>1. Len0 \in Nat /\ pattern \in Patterns
    BY <1>0, LengthOfPattern DEF RangeInv
  <2>2. pattern' = pattern /\ Len0' = Len0
    BY DEF Next, vars, Len0, ScanText, ScanLast, ScanEscape, ScanCode, ScanDetail,
           ScanUnclosed, ScanEnd, Build
  <2>3. i \in 1 .. Len0 + 1 /\ last \in 1 .. Len0 + 1 /\ last <= i + 1
    BY DEF RangeInv
  <2>4. ASSUME i' \in 1 .. Len0 + 1, last' \in 1 .. Len0 + 1, last' <= i' + 1
        PROVE  RangeInv'
    BY <2>1, <2>2, <2>4 DEF RangeInv
  <2>5. CASE ScanText \/ ScanLast
    <3>1. i <= Len0 /\ i' = i + 1 /\ last' = last
      BY <2>1, <2>3, <2>5 DEF ScanText, ScanLast
    <3> QED
      BY <2>1, <2>3, <2>4, <3>1
  <2>6. CASE ScanEscape \/ ScanCode
    <3>1. (i + 1 <= Len0 \/ i < Len0) /\ i' = i + 1 /\ last' = i + 2
      BY <2>6, Zenon DEF ScanEscape, ScanCode, At
    <3> QED
      BY <2>1, <2>3, <2>4, <3>1
  <2>7. CASE ScanDetail
    <3>1. Closing <= Len0 /\ i' = Closing + 1 /\ last' = Closing + 1
      BY <2>7, Zenon DEF ScanDetail
    <3>2. Closing \in i + 3 .. Len0
      BY <2>1, <2>3, <3>1, ClosingInRange
    <3> QED
      BY <2>1, <2>3, <2>4, <3>1, <3>2
  <2>8. CASE ScanUnclosed
    <3>1. i + 2 <= Len0 /\ i' = i + 1 /\ last' = i + 2
      BY <2>8 DEF ScanUnclosed, At
    <3> QED
      BY <2>1, <2>3, <2>4, <3>1
  <2>9. CASE ScanEnd
    <3>1. i' = i /\ last' = Len0 + 1 /\ i > Len0
      BY <2>9 DEF ScanEnd
    <3> QED
      BY <2>1, <2>3, <2>4, <3>1
  <2>10. CASE Build \/ UNCHANGED vars
    <3>1. i' = i /\ last' = last
      BY <2>10 DEF Build, vars
    <3> QED
      BY <2>3, <2>4, <3>1
  <2> QED
    BY <2>5, <2>6, <2>7, <2>8, <2>9, <2>10 DEF Next
<1> QED
  BY <1>1, <1>2, PTL DEF Spec

\* For any pattern, however malformed, no substr() is given a position behind
\* the pattern, where it would throw (log.cpp:370-401).
THEOREM IndicesInRange == Spec => []SubstrInRange
<1>1. RangeInv => SubstrInRange
  BY DEF RangeInv, SubstrInRange
<1> QED
  BY <1>1, RangeHolds, PTL
----------------------------------------------------------------------------
\* What FlattenSeq has put together after each element of s.
Flattens(f, s) ==
  f[0] = <<>> /\ \A k \in 1 .. Len(s) : f[k] = f[k - 1] \o s[k]

\* There is such an f, and FlattenSeq is its last value.
LEMMA FlattenHas ==
  ASSUME NEW S, NEW s \in Seq(Seq(S))
  PROVE  \E f \in [0 .. Len(s) -> Seq(S)] : Flattens(f, s)
<1> DEFINE Has(n) == \E f \in [0 .. n -> Seq(S)] :
                       f[0] = <<>> /\ \A k \in 1 .. n : f[k] = f[k - 1] \o s[k]
           Hasnt  == {n \in 0 .. Len(s) : ~Has(n)}
<1>1. Len(s) \in Nat /\ \A n \in 1 .. Len(s) : s[n] \in Seq(S)
  OBVIOUS
<1>2. Has(0)
  <2> DEFINE f == [k \in 0 .. 0 |-> <<>>]
  <2>1. f \in [0 .. 0 -> Seq(S)] /\ f[0] = <<>> /\ \A k \in 1 .. 0 : f[k] = f[k - 1] \o s[k]
    OBVIOUS
  <2> QED
    BY <2>1
<1>3. ASSUME NEW n \in 1 .. Len(s), Has(n - 1) PROVE Has(n)
  <2>1. PICK f \in [0 .. n - 1 -> Seq(S)] :
          f[0] = <<>> /\ \A k \in 1 .. n - 1 : f[k] = f[k - 1] \o s[k]
    BY <1>3
  <2> DEFINE e == f[n - 1] \o s[n]
             g == [k \in 0 .. n |-> IF k = n THEN e ELSE f[k]]
  <2>2. e \in Seq(S)
    BY <1>1, <1>3
  <2> HIDE DEF e
  <2>3. n \in Nat /\ n # 0 /\ n \in 0 .. n /\ n - 1 \in 0 .. n - 1
    BY <1>1
  <2>4. g \in [0 .. n -> Seq(S)]
    BY <2>2, <2>3
  <2>5. g[n] = e /\ \A k \in 0 .. n - 1 : g[k] = f[k]
    BY <2>3
  <2> HIDE DEF g
  <2>6. ASSUME NEW k \in 1 .. n PROVE g[k] = g[k - 1] \o s[k]
    <3>1. CASE k = n
      <4>1. g[k - 1] = f[n - 1] /\ g[k] = e
        BY <2>3, <2>5, <3>1
      <4> QED
        BY <3>1, <4>1 DEF e
    <3>2. CASE k # n
      <4>1. k \in 1 .. n - 1 /\ k \in 0 .. n - 1 /\ k - 1 \in 0 .. n - 1
        BY <2>3, <3>2
      <4>2. g[k] = f[k] /\ g[k - 1] = f[k - 1]
        BY <2>5, <4>1
      <4> QED
        BY <2>1, <4>1, <4>2
    <3> QED
      BY <3>1, <3>2
  <2>7. g[0] = <<>>
    BY <2>1, <2>3, <2>5
  <2> QED
    BY <2>4, <2>6, <2>7
<1>4. Has(Len(s))
  <2> HIDE DEF Has
  <2>1. ASSUME Hasnt # {} PROVE FALSE
    <3>0. Hasnt \subseteq Nat
      BY <1>1
    <3>1. PICK n \in Hasnt : \A j \in Hasnt : n <= j
      <4> HIDE DEF Hasnt
      <4> QED
        BY <2>1, <3>0, LeastOf
    <3>2. n \in 1 .. Len(s)
      BY <1>1, <1>2
    <3>3. n - 1 \in 0 .. Len(s) /\ n - 1 \notin Hasnt
      BY <1>1, <3>1, <3>2
    <3> QED
      BY <1>3, <3>2, <3>3
  <2> QED
    BY <1>1, <2>1
<1> QED
  BY <1>4 DEF Flattens

LEMMA FlattenIs ==
  ASSUME NEW S, NEW s \in Seq(Seq(S)), NEW f \in [0 .. Len(s) -> Seq(S)], Flattens(f, s)
  PROVE  FlattenSeq(s) = f[Len(s)]
<1> DEFINE Body(g, k) == IF k = 1 THEN s[k] ELSE g[k - 1] \o s[k]
           flatten == CHOOSE g : g = [k \in 1 .. Len(s) |-> Body(g, k)]
           Differ  == {k \in 1 .. Len(s) : flatten[k] # f[k]}
<1>1. /\ Len(s) \in Nat /\ \A k \in 1 .. Len(s) : s[k] \in Seq(S)
      /\ f[0] = <<>> /\ \A k \in 1 .. Len(s) : f[k] = f[k - 1] \o s[k]
  BY DEF Flattens
<1>2. ASSUME Len(s) = 0 PROVE FlattenSeq(s) = f[Len(s)]
  <2>1. s = <<>>
    BY <1>2
  <2> QED
    BY <1>1, <1>2, <2>1 DEF FlattenSeq
<1>3. \A k \in 1 .. Len(s) : f[k] = Body(f, k)
  <2> SUFFICES ASSUME NEW k \in 1 .. Len(s) PROVE f[k] = Body(f, k)
    OBVIOUS
  <2>1. k = 1 => f[k] = <<>> \o s[k]
    <3>1. k = 1 => k - 1 = 0
      OBVIOUS
    <3> QED
      BY <1>1, <3>1
  <2>2. <<>> \o s[k] = s[k]
    BY <1>1
  <2> QED
    BY <1>1, <2>1, <2>2
<1>4. \E g : g = [k \in 1 .. Len(s) |-> Body(g, k)]
  <2> DEFINE g == [k \in 1 .. Len(s) |-> f[k]]
  <2>1. ASSUME NEW k \in 1 .. Len(s) PROVE Body(g, k) = Body(f, k)
    BY <1>1
  <2>2. g = [k \in 1 .. Len(s) |-> Body(g, k)]
    <3> HIDE DEF Body
    <3> QED
      BY <1>3, <2>1
  <2> QED
    BY <2>2
<1>5. flatten = [k \in 1 .. Len(s) |-> Body(flatten, k)]
  <2> HIDE DEF Body
  <2> QED
    BY <1>4
<1>6. Len(s) # 0 => FlattenSeq(s) = flatten[Len(s)]
  BY DEF FlattenSeq
<1> HIDE DEF flatten
<1>7. \A k \in 1 .. Len(s) : flatten[k] = Body(flatten, k)
  BY <1>5
<1>8. Differ = {}
  <2> SUFFICES ASSUME Differ # {} PROVE FALSE
    OBVIOUS
  <2>0. Differ \subseteq Nat
    BY <1>1
  <2>1. PICK k \in Differ : \A j \in Differ : k <= j
    <3> HIDE DEF Differ
    <3> QED
      BY <2>0, LeastOf
  <2>2. k \in 1 .. Len(s) /\ flatten[k] # f[k]
    OBVIOUS
  <2>3. k # 1 => k - 1 \in 1 .. Len(s) /\ k - 1 \notin Differ
    <3>1. k # 1 => k - 1 \in 1 .. Len(s) /\ ~(k <= k - 1)
      BY <1>1, <2>2
    <3> HIDE DEF Differ
    <3> QED
      BY <2>1, <3>1
  <2>4. k # 1 => flatten[k - 1] = f[k - 1]
    BY <2>3
  <2>5. Body(flatten, k) = Body(f, k)
    BY <2>4
  <2> HIDE DEF Body, Differ
  <2> QED
    BY <1>3, <1>7, <2>2, <2>5
<1>9. Len(s) # 0 => flatten[Len(s)] = f[Len(s)]
  <2>1. Len(s) # 0 => Len(s) \in 1 .. Len(s)
    BY <1>1
  <2> QED
    BY <1>8, <2>1
<1> QED
  BY <1>2, <1>6, <1>9

LEMMA FlattenType ==
  ASSUME NEW S, NEW s \in Seq(Seq(S))
  PROVE  FlattenSeq(s) \in Seq(S)
<1>1. PICK f \in [0 .. Len(s) -> Seq(S)] : Flattens(f, s)
  BY FlattenHas
<1>2. Len(s) \in 0 .. Len(s)
  OBVIOUS
<1> QED
  BY <1>1, <1>2, FlattenIs

\* What two lists of sequences make, one after the other.
LEMMA FlattenCat ==
  ASSUME NEW S, NEW s \in Seq(Seq(S)), NEW t \in Seq(Seq(S))
  PROVE  FlattenSeq(s \o t) = FlattenSeq(s) \o FlattenSeq(t)
<1> DEFINE m == Len(s)
           n == Len(t)
           r == s \o t
<1>1. PICK f \in [0 .. m -> Seq(S)] : Flattens(f, s)
  BY FlattenHas
<1>2. PICK g \in [0 .. n -> Seq(S)] : Flattens(g, t)
  BY FlattenHas
<1>3. /\ m \in Nat /\ n \in Nat /\ r \in Seq(Seq(S)) /\ Len(r) = m + n
      /\ \A k \in 1 .. m : r[k] = s[k] /\ s[k] \in Seq(S)
      /\ \A k \in m + 1 .. m + n : r[k] = t[k - m] /\ t[k - m] \in Seq(S)
  OBVIOUS
<1>4. /\ f[0] = <<>> /\ \A k \in 1 .. m : f[k] = f[k - 1] \o s[k]
      /\ g[0] = <<>> /\ \A k \in 1 .. n : g[k] = g[k - 1] \o t[k]
  BY <1>1, <1>2 DEF Flattens
<1>5. FlattenSeq(s) = f[m] /\ FlattenSeq(t) = g[n] /\ f[m] \in Seq(S)
  <2>1. FlattenSeq(s) = f[m]
    BY <1>1, FlattenIs
  <2>2. FlattenSeq(t) = g[n]
    BY <1>2, FlattenIs
  <2>3. m \in 0 .. m
    BY <1>3
  <2> QED
    BY <1>1, <2>1, <2>2, <2>3
<1>0. m \in Nat /\ n \in Nat
  BY <1>3
<1> HIDE DEF m, n, r
<1> DEFINE h == [k \in 0 .. m + n |-> IF k <= m THEN f[k] ELSE f[m] \o g[k - m]]
<1>6. /\ \A k \in 0 .. m : h[k] = f[k]
      /\ \A k \in m + 1 .. m + n : h[k] = f[m] \o g[k - m]
  <2> DEFINE a(k) == f[m] \o g[k - m]
  <2>1. h = [k \in 0 .. m + n |-> IF k <= m THEN f[k] ELSE a(k)]
    OBVIOUS
  <2> HIDE DEF a, h
  <2>2. \A k \in 0 .. m : k \in 0 .. m + n /\ k <= m
    BY <1>0
  <2>3. \A k \in m + 1 .. m + n : k \in 0 .. m + n /\ ~(k <= m)
    BY <1>0
  <2>4. \A k \in 0 .. m : h[k] = f[k]
    BY <2>1, <2>2
  <2>5. \A k \in m + 1 .. m + n : h[k] = a(k)
    BY <2>1, <2>3
  <2> QED
    BY <2>4, <2>5 DEF a
<1>7. h \in [0 .. m + n -> Seq(S)]
  <2> SUFFICES ASSUME NEW k \in 0 .. m + n PROVE h[k] \in Seq(S)
    BY DEF h
  <2> HIDE DEF h
  <2>1. CASE k <= m
    <3>1. k \in 0 .. m
      BY <1>0, <2>1
    <3>2. f[k] \in Seq(S)
      BY <3>1
    <3> QED
      BY <1>6, <3>1, <3>2
  <2>2. CASE k > m
    <3>1. k \in m + 1 .. m + n /\ k - m \in 0 .. n
      BY <1>0, <2>2
    <3>2. g[k - m] \in Seq(S)
      BY <3>1
    <3> DEFINE a == f[m]
               b == g[k - m]
    <3>3. h[k] = a \o b /\ a \in Seq(S) /\ b \in Seq(S)
      BY <1>5, <1>6, <3>1, <3>2
    <3> HIDE DEF a, b
    <3> QED
      BY <3>3
  <2> QED
    BY <1>0, <2>1, <2>2
<1> HIDE DEF h
<1>8. h[m] = f[m] \o g[0]
  <2>1. f[m] \o <<>> = f[m]
    BY <1>5
  <2> QED
    BY <1>3, <1>4, <1>6, <2>1
<1>9. \A k \in m .. m + n : h[k] = f[m] \o g[k - m]
  <2> SUFFICES ASSUME NEW k \in m .. m + n PROVE h[k] = f[m] \o g[k - m]
    OBVIOUS
  <2>1. k = m \/ k \in m + 1 .. m + n
    BY <1>3
  <2>2. k = m => k - m = 0
    BY <1>3
  <2> QED
    BY <1>6, <1>8, <2>1, <2>2
<1>10. ASSUME NEW k \in 1 .. m + n PROVE h[k] = h[k - 1] \o r[k]
  <2>1. CASE k <= m
    <3>1. k \in 1 .. m /\ k \in 0 .. m /\ k - 1 \in 0 .. m
      BY <1>3, <2>1
    <3>2. h[k] = f[k] /\ h[k - 1] = f[k - 1] /\ f[k] = f[k - 1] \o s[k] /\ r[k] = s[k]
      BY <1>3, <1>4, <1>6, <3>1
    <3> QED
      BY <3>2
  <2>2. CASE k > m
    <3>1. /\ k \in m + 1 .. m + n /\ k \in m .. m + n /\ k - 1 \in m .. m + n
          /\ k - m \in 1 .. n /\ (k - 1) - m = (k - m) - 1 /\ (k - m) - 1 \in 0 .. n
      BY <1>3, <2>2
    <3>2. /\ h[k] = f[m] \o g[k - m] /\ h[k - 1] = f[m] \o g[(k - m) - 1]
          /\ g[k - m] = g[(k - m) - 1] \o t[k - m] /\ r[k] = t[k - m] /\ t[k - m] \in Seq(S)
      BY <1>3, <1>4, <1>9, <3>1
    <3>3. g[(k - m) - 1] \in Seq(S)
      BY <3>1
    <3> DEFINE a == f[m]
               b == g[(k - m) - 1]
               c == t[k - m]
    <3>4. a \in Seq(S) /\ b \in Seq(S) /\ c \in Seq(S)
      BY <1>5, <3>2, <3>3
    <3>5. h[k] = a \o (b \o c) /\ h[k - 1] \o r[k] = (a \o b) \o c
      BY <3>2
    <3> HIDE DEF a, b, c
    <3>6. a \o (b \o c) = (a \o b) \o c
      BY <3>4
    <3> QED
      BY <3>5, <3>6
  <2>3. k <= m \/ k > m
    BY <1>0
  <2> QED
    BY <2>1, <2>2, <2>3
<1>11. Flattens(h, r)
  <2>1. h[0] = <<>>
    BY <1>3, <1>4, <1>6
  <2> QED
    BY <1>3, <1>10, <2>1 DEF Flattens
<1>12. FlattenSeq(r) = h[m + n]
  BY <1>3, <1>7, <1>11, FlattenIs
<1>13. m + n \in m .. m + n /\ (m + n) - m = n
  BY <1>0
<1>14. h[m + n] = f[m] \o g[n]
  BY <1>9, <1>13
<1>15. FlattenSeq(r) = FlattenSeq(s) \o FlattenSeq(t)
  BY <1>5, <1>12, <1>14
<1> QED
  BY <1>15 DEF r

LEMMA FlattenOne ==
  ASSUME NEW S, NEW e \in Seq(S)
  PROVE  FlattenSeq(<<e>>) = e
<1> DEFINE f == [k \in 0 .. 1 |-> IF k = 0 THEN <<>> ELSE e]
           s == <<e>>
<1>1. s \in Seq(Seq(S)) /\ Len(s) = 1 /\ s[1] = e
  OBVIOUS
<1>2. <<>> \o e = e /\ <<>> \in Seq(S)
  OBVIOUS
<1> HIDE DEF s
<1>3. f[0] = <<>> /\ f[1] = e /\ f \in [0 .. 1 -> Seq(S)]
  BY <1>2
<1> HIDE DEF f
<1>4. Flattens(f, s)
  <2>1. \A k \in 1 .. 1 : k = 1 /\ k - 1 = 0
    OBVIOUS
  <2> QED
    BY <1>1, <1>2, <1>3, <2>1 DEF Flattens
<1>5. FlattenSeq(s) = f[1]
  BY <1>1, <1>3, <1>4, FlattenIs
<1> QED
  BY <1>3, <1>5 DEF s

\* A piece of one element.
LEMMA SubSeqOne ==
  ASSUME NEW S, NEW p \in Seq(S), NEW a \in 1 .. Len(p)
  PROVE  SubSeq(p, a, a) = <<p[a]>>
<1> DEFINE x == <<p[a]>>
<1>1. SubSeq(p, a, a) = x \o SubSeq(p, a + 1, a)
  BY SubSeqRecursiveFirst
<1>2. SubSeq(p, a + 1, a) = <<>>
  BY SubSeqEmpty
<1>3. p[a] \in S /\ x \in Seq(S)
  OBVIOUS
<1> HIDE DEF x
<1>4. x \o <<>> = x
  BY <1>3, ConcatEmptySeq
<1> QED
  BY <1>1, <1>2, <1>4 DEF x

Percent(k) == At(k, "%")
Brace(k)   == At(k, "{")

\* Neighbours d and e of a parse_tab; a text with no '%' in it.
Between(d, e) ==
  /\ d.code \/ e.code
  /\ d.code /\ d.detail = <<>> /\ ~e.code => e.str[1] # "{"
Plain(s) == \A j \in DOMAIN s : s[j] # "%"
Apart(es) ==
  \A k \in DOMAIN es : /\ ~es[k].code => Plain(es[k].str)
                       /\ k < Len(es) => Between(es[k], es[k + 1])

\* The parse of a clean pattern: what is in parse_tab spells what lies in front
\* of last_idx, the text since then has no '%' in it, and the last entry is a
\* code.
NotYet(a, b) == \A k \in a .. b : pattern[k] # "%"
Ready == tab # <<>> => /\ tab[Len(tab)].code
                       /\ tab[Len(tab)].detail = <<>> => ~Brace(last)
Ahead == (last <= i \/ ~Percent(i)) /\ NotYet(last, i - 1) /\ Ready

\* The items are made of the entries, one by one.
DoneInv ==
  pc = "done" => /\ items = [k \in DOMAIN tab |-> Item(tab[k])]
                 /\ error = \E k \in DOMAIN tab : tab[k].code /\ ~Known(tab[k])

LEMMA SpellingType ==
  ASSUME NEW e \in Entry
  PROVE  Spelling(e) \in Seq(Chars)
<1>0. "%" \in Chars /\ "{" \in Chars /\ "}" \in Chars
  BY LogFormatAssumption, Zenon DEF LogFormatAssumption
<1>1. e.str \in Seq(Chars) /\ e.detail \in Seq(Chars)
  BY DEF Entry
<1> DEFINE p == <<"%">>
           l == <<"{">>
           r == <<"}">>
           s == e.str
           d == e.detail
<1>2. p \in Seq(Chars) /\ l \in Seq(Chars) /\ r \in Seq(Chars)
  <2>1. ASSUME NEW c \in Chars PROVE <<c>> \in Seq(Chars)
    BY <2>1
  <2> QED
    BY <1>0, <2>1
<1>3. Spelling(e) = IF ~e.code THEN s ELSE p \o s \o (IF d = <<>> THEN <<>> ELSE l \o d \o r)
  BY Zenon DEF Spelling
<1> HIDE DEF p, l, r, s, d
<1>4. s \in Seq(Chars) /\ d \in Seq(Chars) /\ <<>> \in Seq(Chars)
  BY <1>1 DEF s, d
<1>5. l \o d \o r \in Seq(Chars)
  BY <1>2, <1>4
<1>6. p \o s \o (l \o d \o r) \in Seq(Chars) /\ p \o s \o <<>> \in Seq(Chars)
  BY <1>2, <1>4, <1>5
<1> QED
  BY <1>3, <1>4, <1>6

\* The spellings of a table are those of its entries.
LEMMA Spellings ==
  ASSUME NEW es \in Seq(Entry)
  PROVE  /\ [k \in DOMAIN es |-> Spelling(es[k])] \in Seq(Seq(Chars))
         /\ Len([k \in DOMAIN es |-> Spelling(es[k])]) = Len(es)
<1> DEFINE F == [k \in 1 .. Len(es) |-> Spelling(es[k])]
<1>1. Len(es) \in Nat /\ DOMAIN es = 1 .. Len(es) /\ \A k \in 1 .. Len(es) : es[k] \in Entry
  <2> HIDE DEF Entry
  <2> QED
    OBVIOUS
<1>2. \A k \in 1 .. Len(es) : Spelling(es[k]) \in Seq(Chars)
  BY <1>1, SpellingType
<1>3. F \in [1 .. Len(es) -> Seq(Chars)]
  BY <1>2
<1>4. F \in Seq(Seq(Chars)) /\ Len(F) = Len(es)
  <2> HIDE DEF F
  <2>1. DOMAIN F = 1 .. Len(es)
    BY <1>3
  <2> QED
    BY <1>1, <1>3, <2>1
<1> QED
  BY <1>1, <1>4

LEMMA SpelledEmpty == Spelled(<<>>) = <<>>
<1> DEFINE F == [k \in DOMAIN <<>> |-> Spelling(<<>>[k])]
<1>1. F \in Seq(Seq(Chars)) /\ Len(F) = 0
  <2>1. <<>> \in Seq(Entry) /\ Len(<<>>) = 0
    OBVIOUS
  <2> QED
    BY <2>1, Spellings
<1>2. Spelled(<<>>) = FlattenSeq(F)
  BY DEF Spelled
<1> HIDE DEF F
<1>3. FlattenSeq(F) = F
  BY <1>1 DEF FlattenSeq
<1> QED
  BY <1>1, <1>2, <1>3

\* A sequence that goes on with one element more.
LEMMA AppendsOne ==
  ASSUME NEW X, NEW s \in Seq(X), NEW t \in Seq(X), NEW c \in X,
         Len(t) = Len(s) + 1, \A k \in 1 .. Len(s) : t[k] = s[k], t[Len(s) + 1] = c
  PROVE  t = s \o <<c>>
<1> DEFINE q == Append(s, c)
<1>1. /\ q \in Seq(X) /\ Len(q) = Len(s) + 1 /\ Len(s) \in Nat
      /\ \A k \in 1 .. Len(s) : q[k] = s[k]
      /\ q[Len(s) + 1] = c
  BY AppendProperties
<1>2. q = s \o <<c>>
  BY AppendIsConcat
<1> HIDE DEF q
<1>3. ASSUME NEW k \in 1 .. Len(t) PROVE q[k] = t[k]
  <2>1. k \in 1 .. Len(s) \/ k = Len(s) + 1
    BY <1>1
  <2> QED
    BY <1>1, <2>1
<1>4. t = q
  BY <1>1, <1>3, SeqEqual
<1> QED
  BY <1>2, <1>4

LEMMA SpelledAppend ==
  ASSUME NEW es \in Seq(Entry), NEW e \in Entry
  PROVE  Spelled(Append(es, e)) = Spelled(es) \o Spelling(e) /\ Spelled(es) \in Seq(Chars)
<1> DEFINE fs == Append(es, e)
           E  == [k \in DOMAIN es |-> Spelling(es[k])]
           F  == [k \in DOMAIN fs |-> Spelling(fs[k])]
           c  == Spelling(e)
           x  == <<c>>
<1>1. /\ Len(es) \in Nat /\ fs \in Seq(Entry) /\ Len(fs) = Len(es) + 1
      /\ DOMAIN es = 1 .. Len(es) /\ DOMAIN fs = 1 .. Len(es) + 1
      /\ fs[Len(es) + 1] = e /\ \A k \in 1 .. Len(es) : fs[k] = es[k]
  <2> HIDE DEF Entry
  <2> QED
    OBVIOUS
<1> HIDE DEF fs
<1>2. E \in Seq(Seq(Chars)) /\ Len(E) = Len(es) /\ F \in Seq(Seq(Chars)) /\ Len(F) = Len(es) + 1
  BY <1>1, Spellings
<1>3. \A k \in 1 .. Len(E) : F[k] = E[k]
  BY <1>1, <1>2
<1>4. F[Len(es) + 1] = c
  BY <1>1
<1>5. Spelled(es) = FlattenSeq(E) /\ Spelled(fs) = FlattenSeq(F)
  BY DEF Spelled
<1>6. c \in Seq(Chars)
  BY SpellingType
<1> HIDE DEF E, F, c
<1>7. x \in Seq(Seq(Chars)) /\ Len(x) = 1 /\ x[1] = c
  BY <1>6
<1> HIDE DEF x
<1>8. F = E \o x
  <2> DEFINE X == Seq(Chars)
  <2>1. E \in Seq(X) /\ F \in Seq(X) /\ c \in X /\ Len(F) = Len(E) + 1 /\ F[Len(E) + 1] = c
    BY <1>1, <1>2, <1>4, <1>6
  <2> HIDE DEF X
  <2> QED
    BY <1>3, <2>1, AppendsOne DEF x
<1>9. FlattenSeq(F) = FlattenSeq(E) \o FlattenSeq(x)
  BY <1>2, <1>7, <1>8, FlattenCat
<1>10. FlattenSeq(x) = c
  BY <1>6, FlattenOne DEF x
<1>11. FlattenSeq(E) \in Seq(Chars)
  BY <1>2, FlattenType
<1> QED
  BY <1>5, <1>9, <1>10, <1>11 DEF c, fs

LEMMA PatternType ==
  ASSUME pattern \in Patterns
  PROVE  pattern \in Seq(Chars) /\ Len0 \in Nat /\ Len0 = Len(pattern)
<1>0. MaxLen \in Nat
  BY LogFormatAssumption, Zenon DEF LogFormatAssumption
<1>1. PICK n \in 0 .. MaxLen : pattern \in [1 .. n -> Chars]
  BY DEF Patterns
<1>2. pattern \in Seq(Chars)
  BY <1>0, <1>1
<1> QED
  BY <1>2 DEF Len0

LEMMA PieceType ==
  ASSUME pattern \in Seq(Chars), NEW a \in Nat \ {0}, NEW b \in Int, b <= Len(pattern)
  PROVE  /\ SubSeq(pattern, a, b) \in Seq(Chars)
         /\ Len(SubSeq(pattern, a, b)) = IF a <= b THEN b - a + 1 ELSE 0
         /\ \A k \in 1 .. b - a + 1 : SubSeq(pattern, a, b)[k] = pattern[a + k - 1]
<1>1. \A k \in a .. b : pattern[k] \in Chars
  OBVIOUS
<1> QED
  BY <1>1, SubSeqProperties

LEMMA SubstrIs ==
  ASSUME pattern \in Patterns, NEW pos \in Nat \ {0}, NEW n \in Int
  PROVE  /\ Substr(pos, n) \in Seq(Chars)
         /\ n >= 0 /\ pos + n - 1 <= Len0 => Substr(pos, n) = SubSeq(pattern, pos, pos + n - 1)
<1>1. pattern \in Seq(Chars) /\ Len0 \in Nat /\ Len0 = Len(pattern)
  BY PatternType
<1> DEFINE b == IF n < 0 \/ pos + n - 1 > Len0 THEN Len0 ELSE pos + n - 1
<1>2. b \in Int /\ b <= Len(pattern) /\ (n >= 0 /\ pos + n - 1 <= Len0 => b = pos + n - 1)
  BY <1>1
<1>3. Substr(pos, n) = SubSeq(pattern, pos, b)
  BY DEF Substr
<1> HIDE DEF b
<1>4. SubSeq(pattern, pos, b) \in Seq(Chars)
  BY <1>1, <1>2, PieceType
<1> QED
  BY <1>2, <1>3, <1>4

LEMMA TextType ==
  ASSUME NEW s \in Seq(Chars)
  PROVE  Text(s) \in Entry /\ ~Text(s).code /\ Text(s).str = s /\ Spelling(Text(s)) = s
<1>1. Text(s) \in Entry /\ ~Text(s).code /\ Text(s).str = s
  BY DEF Text, Entry
<1> QED
  BY <1>1, Zenon DEF Spelling

LEMMA CodeType ==
  ASSUME NEW c \in Chars, NEW s \in Seq(Chars)
  PROVE  Code(c, s) \in Entry /\ Code(c, s).code /\ Code(c, s).str = <<c>> /\ Code(c, s).detail = s
<1>1. <<c>> \in Seq(Chars)
  OBVIOUS
<1> QED
  BY <1>1 DEF Code, Entry

\* An entry more.
LEMMA ApartAppend ==
  ASSUME NEW es \in Seq(Entry), NEW e \in Entry, Apart(es), ~e.code => Plain(e.str),
         es # <<>> => Between(es[Len(es)], e)
  PROVE  /\ Append(es, e) \in Seq(Entry) /\ Apart(Append(es, e))
         /\ Append(es, e) # <<>> /\ Append(es, e)[Len(Append(es, e))] = e
<1> DEFINE q == Append(es, e)
<1>1. /\ q \in Seq(Entry) /\ q # <<>> /\ Len(q) = Len(es) + 1
      /\ \A k \in 1 .. Len(es) : q[k] = es[k]
      /\ q[Len(es) + 1] = e
  BY AppendProperties
<1>2. Len(es) \in Nat /\ DOMAIN es = 1 .. Len(es) /\ DOMAIN q = 1 .. Len(es) + 1
  BY <1>1, LenProperties
<1> HIDE DEF q
<1>3. ASSUME NEW k \in DOMAIN q, k # Len(es) + 1
      PROVE  q[k] = es[k] /\ k \in DOMAIN es
  BY <1>1, <1>2, <1>3
<1>4. ASSUME NEW k \in DOMAIN q PROVE ~q[k].code => Plain(q[k].str)
  <2>1. CASE k = Len(es) + 1
    BY <1>1, <2>1, Zenon
  <2>2. CASE k # Len(es) + 1
    BY <1>3, <2>2 DEF Apart
  <2> QED
    BY <2>1, <2>2
<1>5. ASSUME NEW k \in DOMAIN q, k < Len(q) PROVE Between(q[k], q[k + 1])
  <2>1. CASE k = Len(es)
    <3>1. es # <<>> /\ q[k] = es[Len(es)] /\ q[k + 1] = e
      BY <1>1, <1>2, <2>1
    <3> QED
      BY <3>1
  <2>2. CASE k # Len(es)
    <3>1. k \in DOMAIN es /\ k < Len(es) /\ q[k] = es[k] /\ q[k + 1] = es[k + 1]
      BY <1>1, <1>2, <1>5, <2>2
    <3> QED
      BY <3>1 DEF Apart
  <2> QED
    BY <2>1, <2>2
<1>6. Apart(q)
  BY <1>4, <1>5, Zenon DEF Apart
<1> QED
  BY <1>1, <1>6 DEF q

\* What of the pattern lies in front of the position a is in the table es.
Spells(es, a) == es \in Seq(Entry) /\ Apart(es) /\ Spelled(es) = SubSeq(pattern, 1, a - 1)

CleanInv == Clean => Spells(tab, last) /\ (pc = "scan" => Ahead)

\* The text from last_idx to b becomes an entry.
LEMMA TextAdded ==
  ASSUME pattern \in Patterns, last \in Nat \ {0}, Spells(tab, last), Ready,
         NEW b \in last .. Len0, NotYet(last, b)
  PROVE  Spells(Append(tab, Text(SubSeq(pattern, last, b))), b + 1)
<1> DEFINE s == SubSeq(pattern, last, b)
           e == Text(s)
           q == Append(tab, e)
<1>1. pattern \in Seq(Chars) /\ Len0 \in Nat /\ Len0 = Len(pattern) /\ last \in Nat \ {0}
      /\ b \in Nat /\ last <= b /\ b <= Len0
  BY PatternType
<1>2. /\ s \in Seq(Chars) /\ Len(s) = b - last + 1
      /\ \A k \in 1 .. b - last + 1 : s[k] = pattern[last + k - 1]
  BY <1>1, PieceType
<1> HIDE DEF s
<1>3. e \in Entry /\ ~e.code /\ e.str = s /\ Spelling(e) = s
  BY <1>2, TextType
<1>4. Plain(s)
  <2>1. ASSUME NEW k \in DOMAIN s
        PROVE  \E j \in last .. b : s[k] = pattern[j]
    <3>1. k \in 1 .. b - last + 1
      BY <1>2
    <3>2. last + k - 1 \in last .. b /\ s[k] = pattern[last + k - 1]
      BY <1>1, <1>2, <3>1
    <3> QED
      BY <3>2
  <2> QED
    BY <2>1, Zenon DEF Plain, NotYet
<1>5. s[1] = pattern[last]
  <2>1. 1 \in 1 .. b - last + 1 /\ last + 1 - 1 = last
    BY <1>1
  <2> QED
    BY <1>2, <2>1
<1> HIDE DEF e
<1>6. tab # <<>> => Between(tab[Len(tab)], e)
  <2> SUFFICES ASSUME tab # <<>> PROVE Between(tab[Len(tab)], e)
    OBVIOUS
  <2>1. last <= Len0
    BY <1>1
  <2>2. tab[Len(tab)].code /\ (tab[Len(tab)].detail = <<>> => ~Brace(last))
    BY Zenon DEF Ready
  <2>3. ~Brace(last) => e.str[1] # "{"
    BY <1>3, <1>5, <2>1, Zenon DEF At, Brace
  <2> QED
    BY <2>2, <2>3, Zenon DEF Between
<1>7. tab \in Seq(Entry) /\ Apart(tab) /\ Spelled(tab) = SubSeq(pattern, 1, last - 1)
  BY DEF Spells
<1>8. q \in Seq(Entry) /\ Apart(q)
  BY <1>3, <1>4, <1>6, <1>7, ApartAppend
<1>9. Spelled(q) = Spelled(tab) \o s
  BY <1>3, <1>7, SpelledAppend
<1>10. SubSeq(pattern, 1, last - 1) \o s = SubSeq(pattern, 1, b)
  <2> DEFINE m == last - 1
  <2>1. m \in 0 .. Len(pattern) /\ b \in m .. Len(pattern) /\ 1 \in 1 .. Len(pattern) + 1
        /\ m \in 1 - 1 .. Len(pattern) /\ m + 1 = last
    BY <1>1
  <2> HIDE DEF m
  <2>2. SubSeq(pattern, 1, m) \o SubSeq(pattern, m + 1, b) = SubSeq(pattern, 1, b)
    BY <1>1, <2>1, ConcatAdjacentSubSeq
  <2> QED
    BY <2>1, <2>2 DEF m, s
<1>11. (b + 1) - 1 = b
  BY <1>1
<1>12. Spells(q, b + 1)
  BY <1>7, <1>8, <1>9, <1>10, <1>11 DEF Spells
<1> QED
  BY <1>12 DEF q, e, s

\* A code becomes an entry.
LEMMA CodeAdded ==
  ASSUME pattern \in Patterns, i \in 1 .. Len0, NEW es, Spells(es, i),
         NEW e \in Entry, e.code,
         NEW b \in i .. Len0, Spelling(e) = SubSeq(pattern, i, b)
  PROVE  /\ Spells(Append(es, e), b + 1)
         /\ Append(es, e) # <<>> /\ Append(es, e)[Len(Append(es, e))] = e
<1> DEFINE q == Append(es, e)
<1>1. pattern \in Seq(Chars) /\ Len0 \in Nat /\ Len0 = Len(pattern)
      /\ i \in Nat /\ b \in Nat /\ 1 <= i /\ i <= b /\ b <= Len0
  BY PatternType
<1>2. es \in Seq(Entry) /\ Apart(es) /\ Spelled(es) = SubSeq(pattern, 1, i - 1)
  BY DEF Spells
<1>3. es # <<>> => Between(es[Len(es)], e)
  BY Zenon DEF Between
<1>4. q \in Seq(Entry) /\ Apart(q) /\ q # <<>> /\ q[Len(q)] = e
  BY <1>2, <1>3, ApartAppend
<1>5. Spelled(q) = Spelled(es) \o SubSeq(pattern, i, b)
  BY <1>2, SpelledAppend
<1>6. SubSeq(pattern, 1, i - 1) \o SubSeq(pattern, i, b) = SubSeq(pattern, 1, b)
  <2> DEFINE m == i - 1
  <2>1. m \in 0 .. Len(pattern) /\ b \in m .. Len(pattern) /\ 1 \in 1 .. Len(pattern) + 1
        /\ m \in 1 - 1 .. Len(pattern) /\ m + 1 = i
    BY <1>1
  <2> HIDE DEF m
  <2>2. SubSeq(pattern, 1, m) \o SubSeq(pattern, m + 1, b) = SubSeq(pattern, 1, b)
    BY <1>1, <2>1, ConcatAdjacentSubSeq
  <2> QED
    BY <2>1, <2>2 DEF m
<1>7. (b + 1) - 1 = b
  BY <1>1
<1> QED
  BY <1>2, <1>4, <1>5, <1>6, <1>7 DEF Spells

LEMMA CleanKept ==
  ASSUME pattern' = pattern
  PROVE  Clean' <=> Clean
BY Zenon DEF Clean, At, Len0

\* A '%' of a clean pattern begins a code, and a brace behind the code is closed.
LEMMA CleanAt ==
  ASSUME RangeInv, Clean, Percent(i)
  PROVE  /\ i \in 1 .. Len0 /\ i < Len0 /\ ~Percent(i + 1)
         /\ Brace(i + 2) => ~(i + 3 <= Len0 /\ Closes(i + 3)) /\ \E k \in i + 3 .. Len0 : Closes(k)
<1> DEFINE percent(k) == pattern[k] = "%"
           two(k) == ~Percent(k + 1)
           brace(k) == Brace(k + 2) => ~(k + 3 <= Len0 /\ Closes(k + 3)) /\ \E j \in k + 3 .. Len0 : Closes(j)
<1>1. i <= Len0 /\ percent(i)
  BY Zenon DEF At, Percent
<1>2. \A k \in 1 .. Len0 : percent(k) => k < Len0 /\ two(k)
  BY Zenon DEF Clean, Percent
<1>3. \A k \in 1 .. Len0 : percent(k) => brace(k)
  BY Zenon DEF Clean, Closes, Brace, At
<1>4. i \in 1 .. Len0 + 1 /\ Len0 \in Nat
  BY PatternType DEF RangeInv
<1> HIDE DEF percent, two, brace
<1>5. i \in 1 .. Len0
  BY <1>1, <1>4
<1>6. i < Len0 /\ two(i) /\ brace(i)
  BY <1>1, <1>2, <1>3, <1>5
<1> QED
  BY <1>5, <1>6 DEF two, brace

\* The text in front of a '%'.
LEMMA TextBefore ==
  ASSUME RangeInv, Spells(tab, last), Ahead, Percent(i)
  PROVE  Spells(WithText, i)
<1>1. last <= i /\ NotYet(last, i - 1) /\ Ready
  BY Zenon DEF Ahead
<1>2. pattern \in Patterns /\ Len0 \in Nat /\ i \in 1 .. Len0 + 1 /\ last \in 1 .. Len0 + 1
  BY PatternType DEF RangeInv
<1>3. CASE last = i
  BY <1>3, Zenon DEF WithText
<1>4. CASE last # i
  <2> DEFINE b == i - 1
  <2>1. /\ b \in last .. Len0 /\ b + 1 = i /\ i - last \in Int /\ i - last >= 0
        /\ last + (i - last) - 1 = b /\ b <= Len0 /\ last \in Nat \ {0}
    BY <1>1, <1>2, <1>4
  <2>2. NotYet(last, b)
    BY <1>1
  <2> HIDE DEF b
  <2>3. Substr(last, i - last) = SubSeq(pattern, last, b)
    BY <1>2, <2>1, SubstrIs
  <2>4. WithText = Append(tab, Text(SubSeq(pattern, last, b)))
    BY <1>4, <2>3, Zenon DEF WithText
  <2>5. Spells(Append(tab, Text(SubSeq(pattern, last, b))), b + 1)
    BY <1>1, <1>2, <2>1, <2>2, TextAdded
  <2> QED
    BY <2>1, <2>4, <2>5
<1> QED
  BY <1>3, <1>4

\* What a round of the loop that appended a code to parse_tab leaves behind.
LEMMA AfterCode ==
  ASSUME RangeInv, pattern' = pattern, Len0' = Len0, NEW es, Spells(es, i), i \in 1 .. Len0,
         NEW e \in Entry, e.code, NEW b \in i .. Len0, Spelling(e) = SubSeq(pattern, i, b),
         tab' = Append(es, e), last' = b + 1,
         i' = b + 1 \/ (i' = b /\ ~Percent(b)),
         e.detail = <<>> => ~Brace(b + 1)
  PROVE  Spells(tab, last)' /\ Ahead'
<1>1. pattern \in Patterns /\ Len0 \in Nat /\ b \in Nat
  BY PatternType DEF RangeInv
<1>2. Spells(tab', b + 1) /\ tab' # <<>> /\ tab'[Len(tab')] = e
  BY <1>1, CodeAdded
<1>3. Spells(tab, last)'
  BY <1>2 DEF Spells
<1>4. Ready'
  <2>1. Brace(b + 1) <=> Brace(last)'
    BY Zenon DEF At, Brace
  <2> QED
    BY <1>2, <2>1, Zenon DEF Ready
<1>5. NotYet(last, i - 1)'
  <2>1. \A k \in last' .. i' - 1 : FALSE
    BY <1>1
  <2> QED
    BY <2>1, Zenon DEF NotYet
<1>6. (last <= i \/ ~Percent(i))'
  <2>1. CASE i' = b + 1
    BY <1>1, <2>1
  <2>2. CASE i' = b /\ ~Percent(b)
    BY <2>2, Zenon DEF At, Percent
  <2> QED
    BY <2>1, <2>2
<1> QED
  BY <1>3, <1>4, <1>5, <1>6, Zenon DEF Ahead

LEMMA CodeStep ==
  ASSUME RangeInv, Clean, Spells(tab, last), Ahead, ScanCode
  PROVE  Spells(tab, last)' /\ Ahead'
<1>1. /\ Percent(i) /\ ~Percent(i + 1) /\ ~Brace(i + 2)
      /\ tab' = Append(WithText, Code(pattern[i + 1], <<>>))
      /\ last' = i + 2 /\ i' = i + 1 /\ pattern' = pattern
  BY Zenon DEF ScanCode, ScanPercent, Percent, Brace
<1>2. i \in 1 .. Len0 /\ i < Len0
  BY <1>1, CleanAt
<1>3. Spells(WithText, i)
  BY <1>1, TextBefore
<1>4. pattern \in Seq(Chars) /\ Len0 \in Nat /\ Len0 = Len(pattern) /\ Len0' = Len0
  BY <1>1, PatternType DEF RangeInv, Len0
<1> DEFINE b == i + 1
           c == pattern[b]
           e == Code(c, <<>>)
<1>5. b \in i .. Len0 /\ b \in 1 .. Len(pattern) /\ i \in 1 .. Len(pattern) /\ b + 1 = i + 2
      /\ b \in i .. Len(pattern) /\ i + 1 = b /\ b \in Nat
  BY <1>2, <1>4
<1>6. c \in Chars
  BY <1>4, <1>5
<1> HIDE DEF b
<1>7. e \in Entry /\ e.code /\ e.str = <<c>> /\ e.detail = <<>>
  <2>1. <<>> \in Seq(Chars)
    OBVIOUS
  <2> HIDE DEF c
  <2> QED
    BY <1>6, <2>1, CodeType
<1>8. SubSeq(pattern, i, b) = <<pattern[i]>> \o <<c>>
  <2>1. SubSeq(pattern, i, b) = <<pattern[i]>> \o SubSeq(pattern, i + 1, b)
    BY <1>4, <1>5, SubSeqRecursiveFirst
  <2>2. SubSeq(pattern, b, b) = <<c>>
    BY <1>4, <1>5, SubSeqOne
  <2> QED
    BY <1>5, <2>1, <2>2
<1>9. Spelling(e) = SubSeq(pattern, i, b)
  <2> DEFINE p == <<"%">>
             x == <<c>>
  <2>1. pattern[i] = "%"
    BY <1>1, Zenon DEF At, Percent
  <2>2. Spelling(e) = p \o x \o <<>>
    BY <1>7, Zenon DEF Spelling
  <2>3. p \o x \in Seq({"%", c})
    OBVIOUS
  <2>4. p \o x \o <<>> = p \o x
    <3> DEFINE y == p \o x
               Y == {"%", c}
    <3>1. y \in Seq(Y)
      BY <2>3
    <3> HIDE DEF y, Y
    <3>2. y \o <<>> = y
      BY <3>1, ConcatEmptySeq
    <3> QED
      BY <3>2 DEF y
  <2> QED
    BY <1>8, <2>1, <2>2, <2>4, Zenon
<1>10. ~Percent(b) /\ ~Brace(b + 1)
  BY <1>1, <1>5 DEF b, Percent, Brace
<1>11. tab' = Append(WithText, e)
  BY <1>1 DEF b
<1>12. i' = b /\ last' = b + 1
  BY <1>1, <1>5
<1> HIDE DEF e
<1> QED
  BY <1>1, <1>2, <1>3, <1>4, <1>5, <1>7, <1>9, <1>10, <1>11, <1>12, AfterCode

\* Two neighbouring pieces of the pattern.
LEMMA Joined ==
  ASSUME pattern \in Seq(Chars), NEW a \in 1 .. Len(pattern), NEW k \in a .. Len(pattern),
         NEW n \in k .. Len(pattern)
  PROVE  SubSeq(pattern, a, k) \o SubSeq(pattern, k + 1, n) = SubSeq(pattern, a, n)
<1>1. a \in 1 .. Len(pattern) + 1 /\ k \in a - 1 .. Len(pattern)
  OBVIOUS
<1> QED
  BY <1>1, ConcatAdjacentSubSeq

LEMMA DetailStep ==
  ASSUME RangeInv, Clean, Spells(tab, last), Ahead, ScanDetail
  PROVE  Spells(tab, last)' /\ Ahead'
<1> DEFINE z == Closing
           c == pattern[i + 1]
           d == Substr(i + 3, z - i - 3)
           e == Code(c, d)
<1>1. /\ Percent(i) /\ Brace(i + 2) /\ z <= Len0
      /\ tab' = Append(WithText, e)
      /\ last' = z + 1 /\ i' = z + 1 /\ pattern' = pattern
  BY Zenon DEF ScanDetail, ScanPercent, Percent, Brace
<1>2. i \in 1 .. Len0 /\ i < Len0 /\ (~(i + 3 <= Len0 /\ Closes(i + 3)))
  BY <1>1, CleanAt
<1>3. Spells(WithText, i)
  BY <1>1, TextBefore
<1>4. pattern \in Patterns /\ pattern \in Seq(Chars) /\ Len0 \in Nat /\ Len0 = Len(pattern)
      /\ Len0' = Len0
  BY <1>1, PatternType DEF RangeInv, Len0
<1>5. z \in i + 3 .. Len0 /\ Closes(z)
  <2>1. i \in Nat
    BY <1>2
  <2> QED
    BY <1>1, <1>4, <2>1, ClosingInRange
<1> HIDE DEF z
<1>6. z # i + 3
  BY <1>2, <1>4, <1>5
<1>7. /\ i \in 1 .. Len(pattern) /\ i + 1 \in 1 .. Len(pattern) /\ i + 2 \in 1 .. Len(pattern)
      /\ i + 3 \in 1 .. Len(pattern) /\ z \in 1 .. Len(pattern) /\ z - 1 \in i + 3 .. Len(pattern)
      /\ z - i - 3 \in Int /\ z - i - 3 >= 0 /\ (i + 3) + (z - i - 3) - 1 = z - 1 /\ z - 1 <= Len0
      /\ i + 3 \in Nat \ {0} /\ (z - 1) - (i + 3) + 1 # 0 /\ i + 3 <= z - 1
      /\ z \in i .. Len0 /\ (z - 1) + 1 = z
  BY <1>2, <1>4, <1>5, <1>6
<1>8. d \in Seq(Chars) /\ d = SubSeq(pattern, i + 3, z - 1) /\ d # <<>>
  <2>1. d \in Seq(Chars) /\ d = SubSeq(pattern, i + 3, z - 1)
    BY <1>4, <1>7, SubstrIs
  <2>2. Len(d) # 0
    <3>1. Len(SubSeq(pattern, i + 3, z - 1)) = (z - 1) - (i + 3) + 1
      BY <1>4, <1>7, PieceType
    <3> QED
      BY <1>7, <2>1, <3>1
  <2> HIDE DEF d
  <2>3. d # <<>>
    BY <2>2
  <2> QED
    BY <2>1, <2>3
<1>9. c \in Chars
  BY <1>4, <1>7
<1> HIDE DEF c, d
<1>10. e \in Entry /\ e.code /\ e.str = <<c>> /\ e.detail = d
  BY <1>8, <1>9, CodeType
<1> HIDE DEF e
<1> DEFINE P(a, b) == SubSeq(pattern, a, b)
<1>11. /\ <<c>> = P(i + 1, i + 1) /\ <<"%">> = P(i, i)
       /\ <<"{">> = P(i + 2, i + 2) /\ <<"}">> = P(z, z)
  <2>1. /\ <<pattern[i]>> = P(i, i) /\ <<pattern[i + 1]>> = P(i + 1, i + 1)
        /\ <<pattern[i + 2]>> = P(i + 2, i + 2) /\ <<pattern[z]>> = P(z, z)
    BY <1>4, <1>7, SubSeqOne
  <2>2. pattern[i] = "%" /\ pattern[i + 2] = "{" /\ pattern[z] = "}"
    BY <1>1, <1>5, Zenon DEF Percent, Brace, Closes, At
  <2> QED
    BY <2>1, <2>2, Zenon DEF c
<1>12. Spelling(e) = <<"%">> \o <<c>> \o (<<"{">> \o d \o <<"}">>)
  BY <1>8, <1>10, Zenon DEF Spelling
<1>13. Spelling(e) = (P(i, i) \o P(i + 1, i + 1)) \o ((P(i + 2, i + 2) \o P(i + 3, z - 1)) \o P(z, z))
  BY <1>8, <1>11, <1>12, Zenon
<1>14. P(i, i) \o P(i + 1, i + 1) = P(i, i + 1)
  BY <1>4, <1>7, Joined
<1>15. P(i + 2, i + 2) \o P(i + 3, z - 1) = P(i + 2, z - 1)
  <2>1. (i + 2) + 1 = i + 3 /\ z - 1 \in i + 2 .. Len(pattern) /\ i + 2 \in i + 2 .. Len(pattern)
    BY <1>7
  <2> QED
    BY <1>4, <1>7, <2>1, Joined
<1>16. P(i + 2, z - 1) \o P(z, z) = P(i + 2, z)
  <2>1. (z - 1) + 1 = z /\ z - 1 \in i + 2 .. Len(pattern) /\ z \in z - 1 .. Len(pattern)
    BY <1>7
  <2> DEFINE m == z - 1
  <2>2. m + 1 = z /\ m \in i + 2 .. Len(pattern) /\ z \in m .. Len(pattern)
    BY <2>1
  <2> HIDE DEF m
  <2>3. P(i + 2, m) \o P(m + 1, z) = P(i + 2, z)
    BY <1>4, <1>7, <2>2, Joined
  <2> QED
    BY <2>2, <2>3 DEF m
<1>17. P(i, i + 1) \o P(i + 2, z) = P(i, z)
  <2>1. (i + 1) + 1 = i + 2 /\ i + 1 \in i .. Len(pattern) /\ z \in i + 1 .. Len(pattern)
    BY <1>7
  <2> DEFINE m == i + 1
  <2>2. m + 1 = i + 2 /\ m \in i .. Len(pattern) /\ z \in m .. Len(pattern)
    BY <2>1
  <2> HIDE DEF m
  <2>3. P(i, m) \o P(m + 1, z) = P(i, z)
    BY <1>4, <1>7, <2>2, Joined
  <2> QED
    BY <2>2, <2>3 DEF m
<1>18. Spelling(e) = SubSeq(pattern, i, z)
  <2> HIDE DEF P
  <2>1. Spelling(e) = P(i, z)
    BY <1>13, <1>14, <1>15, <1>16, <1>17
  <2> QED
    BY <2>1 DEF P
<1>19. i' = z + 1 /\ last' = z + 1 /\ tab' = Append(WithText, e) /\ e.detail # <<>>
  BY <1>1, <1>8, <1>10 DEF e
<1> QED
  BY <1>1, <1>2, <1>3, <1>4, <1>7, <1>10, <1>18, <1>19, AfterCode

\* A piece of text, and the last one.
LEMMA TextStep ==
  ASSUME RangeInv, Clean, Spells(tab, last), Ahead, ScanText
  PROVE  Spells(tab, last)' /\ Ahead'
<1>1. /\ UNCHANGED <<pattern, last, tab>> /\ Len0' = Len0
      /\ i' = i + 1 /\ ~Percent(i)
  BY DEF ScanText, Percent, At, Len0
<1>2. Len0 \in Nat /\ i \in 1 .. Len0 + 1 /\ last \in 1 .. Len0 + 1 /\ last <= i + 1
  BY PatternType DEF RangeInv
<1>3. Spells(tab, last)'
  BY <1>1 DEF Spells
<1>4. (last <= i)'
  BY <1>1, <1>2
<1>5. Ready'
  <2>1. Brace(last)' <=> Brace(last)
    BY <1>1, Zenon DEF Brace, At
  <2> QED
    BY <1>1, <2>1, Zenon DEF Ready, Ahead
<1>6. NotYet(last, i - 1)'
  <2>1. \A k \in last .. i : k = i \/ k \in last .. i - 1
    BY <1>2
  <2>2. pattern[i] # "%"
    BY Zenon DEF ScanText
  <2>3. \A k \in last .. i : pattern[k] # "%"
    BY <2>1, <2>2, Zenon DEF Ahead, NotYet
  <2>4. i' - 1 = i
    BY <1>1, <1>2
  <2> QED
    BY <1>1, <2>3, <2>4, Zenon DEF NotYet
<1> QED
  BY <1>3, <1>4, <1>5, <1>6, Zenon DEF Ahead

LEMMA EndStep ==
  ASSUME RangeInv, Clean, Spells(tab, last), Ahead, ScanEnd
  PROVE  Spells(tab, last)'
<1>1. /\ tab' = IF last # Len0 + 1 THEN Append(tab, Text(Substr(last, Len0 + 1 - last))) ELSE tab
      /\ last' = Len0 + 1 /\ i > Len0 /\ pattern' = pattern
  BY Zenon DEF ScanEnd
<1>2. /\ pattern \in Patterns /\ Len0 \in Nat /\ i \in 1 .. Len0 + 1 /\ last \in 1 .. Len0 + 1
      /\ i = Len0 + 1
  BY <1>1, PatternType DEF RangeInv
<1>3. NotYet(last, Len0) /\ Ready
  <2>1. i - 1 = Len0
    BY <1>2
  <2> QED
    BY <2>1, Zenon DEF Ahead
<1>4. Spells(tab', Len0 + 1)
  <2>1. CASE last = Len0 + 1
    BY <1>1, <2>1, Zenon
  <2>2. CASE last # Len0 + 1
    <3>1. /\ Len0 \in last .. Len0 /\ Len0 + 1 - last \in Int /\ Len0 + 1 - last >= 0
          /\ last + (Len0 + 1 - last) - 1 = Len0 /\ Len0 <= Len0 /\ last \in Nat \ {0}
      BY <1>2, <2>2
    <3>2. Substr(last, Len0 + 1 - last) = SubSeq(pattern, last, Len0)
      BY <1>2, <3>1, SubstrIs
    <3>3. tab' = Append(tab, Text(SubSeq(pattern, last, Len0)))
      BY <1>1, <2>2, <3>2, Zenon
    <3> QED
      BY <1>2, <1>3, <3>1, <3>3, TextAdded
  <2> QED
    BY <2>1, <2>2
<1> QED
  BY <1>1, <1>4 DEF Spells

LEMMA CleanStep ==
  ASSUME RangeInv, CleanInv, [Next]_vars
  PROVE  CleanInv'
<1>1. pattern' = pattern
  BY DEF Next, vars, ScanText, ScanLast, ScanEscape, ScanCode, ScanDetail, ScanUnclosed,
         ScanEnd, Build
<1> SUFFICES ASSUME Clean PROVE Spells(tab, last)' /\ (pc' = "scan" => Ahead')
  BY <1>1, CleanKept DEF CleanInv
<1>2. Spells(tab, last) /\ (pc = "scan" => Ahead)
  BY DEF CleanInv
<1>3. CASE ScanText
  BY <1>2, <1>3, TextStep DEF ScanText
<1>4. CASE ScanCode
  BY <1>2, <1>4, CodeStep DEF ScanCode, ScanPercent
<1>5. CASE ScanDetail
  BY <1>2, <1>5, DetailStep DEF ScanDetail, ScanPercent
<1>6. CASE ScanEnd
  BY <1>2, <1>6, EndStep DEF ScanEnd
<1>7. ~ScanLast /\ ~ScanEscape /\ ~ScanUnclosed
  <2>1. ScanPercent => i < Len0 /\ ~At(i + 1, "%")
    BY CleanAt DEF ScanPercent, Percent
  <2>2. ~ScanEscape
    BY <2>1, Zenon DEF ScanEscape
  <2>3. i \in Nat /\ Len0 \in Nat
    BY PatternType DEF RangeInv
  <2>4. ~ScanLast
    <3>1. i < Len0 => i # Len0
      BY <2>3
    <3> QED
      BY <2>1, <3>1, Zenon DEF ScanLast
  <2>5. ~ScanUnclosed
    <3> SUFFICES ASSUME ScanUnclosed PROVE FALSE
      OBVIOUS
    <3>1. Percent(i) /\ Brace(i + 2) /\ Closing > Len0
      BY Zenon DEF ScanUnclosed, ScanPercent, Percent, Brace
    <3>2. Closing \in i + 3 .. Len0
      BY <2>3, <3>1, CleanAt, ClosingInRange
    <3> QED
      BY <2>3, <3>1, <3>2
  <2> QED
    BY <2>2, <2>4, <2>5
<1>8. CASE Build \/ UNCHANGED vars
  <2>1. UNCHANGED <<pattern, i, last, tab>> /\ (pc' = "scan" => pc = "scan")
    BY <1>8 DEF Build, vars
  <2>2. Spells(tab, last)'
    BY <1>2, <2>1 DEF Spells
  <2>3. Ahead => Ahead'
    BY <2>1, Zenon DEF Ahead, NotYet, Ready, Percent, Brace, At, Len0
  <2> QED
    BY <1>2, <2>1, <2>2, <2>3
<1> QED
  BY <1>3, <1>4, <1>5, <1>6, <1>7, <1>8 DEF Next

LEMMA CleanHolds == Spec => []CleanInv
<1>1. Init => CleanInv
  <2> SUFFICES ASSUME Init PROVE CleanInv
    OBVIOUS
  <2>1. i = 1 /\ last = 1 /\ tab = <<>>
    BY DEF Init
  <2>2. Spells(tab, last)
    <3>1. SubSeq(pattern, 1, 1 - 1) = <<>>
      BY SubSeqEmpty
    <3>2. <<>> \in Seq(Entry) /\ DOMAIN <<>> = {}
      OBVIOUS
    <3> QED
      BY <2>1, <3>1, <3>2, SpelledEmpty DEF Spells, Apart
  <2>3. Ahead
    <3>1. \A k \in 1 .. 1 - 1 : FALSE
      OBVIOUS
    <3>2. NotYet(last, i - 1)
      BY <2>1, <3>1, Zenon DEF NotYet
    <3>3. last <= i
      BY <2>1
    <3> QED
      BY <2>1, <3>2, <3>3, Zenon DEF Ahead, Ready
  <2> QED
    BY <2>2, <2>3 DEF CleanInv
<1> QED
  BY <1>1, CleanStep, RangeHolds, PTL DEF Spec

\* A clean pattern, of any length and over any characters, is parsed into the
\* entries it is made of, without losing, doubling or moving a character
\* (log.cpp:369-401).
THEOREM CleanParsed == Spec => []ParseCorrect
<1>1. RangeInv /\ CleanInv => ParseCorrect
  <2> SUFFICES ASSUME RangeInv, CleanInv, Clean
               PROVE  /\ Spelled(tab) \o SubSeq(pattern, last, Len0) = pattern
                      /\ \A k \in DOMAIN tab :
                           /\ ~tab[k].code => Plain(tab[k].str)
                           /\ k < Len(tab) => Between(tab[k], tab[k + 1])
    BY DEF ParseCorrect, Plain, Between
  <2>1. Spelled(tab) = SubSeq(pattern, 1, last - 1) /\ Apart(tab)
    BY DEF CleanInv, Spells
  <2>2. pattern \in Seq(Chars) /\ Len0 \in Nat /\ Len0 = Len(pattern) /\ last \in 1 .. Len0 + 1
    BY PatternType DEF RangeInv
  <2>3. SubSeq(pattern, 1, last - 1) \o SubSeq(pattern, last, Len0) = pattern
    <3> DEFINE m == last - 1
    <3>1. m + 1 = last /\ m \in 1 - 1 .. Len(pattern) /\ Len0 \in m .. Len(pattern)
          /\ 1 \in 1 .. Len(pattern) + 1
      BY <2>2
    <3> HIDE DEF m
    <3>2. SubSeq(pattern, 1, m) \o SubSeq(pattern, m + 1, Len0) = SubSeq(pattern, 1, Len0)
      BY <2>2, <3>1, ConcatAdjacentSubSeq
    <3>3. SubSeq(pattern, 1, Len(pattern)) = pattern
      BY <2>2, SubSeqFull
    <3> QED
      BY <2>2, <3>1, <3>2, <3>3 DEF m
  <2> QED
    BY <2>1, <2>3 DEF Apart
<1> QED
  BY <1>1, RangeHolds, CleanHolds, PTL

\* What Letters() puts together of a sequence.
Marks(s) == [k \in DOMAIN s |-> IF s[k] \in Chars THEN <<s[k]>> ELSE <<>>]

LEMMA MarksType ==
  ASSUME NEW X, NEW s \in Seq(X)
  PROVE  /\ Marks(s) \in Seq(Seq(Chars)) /\ Len(Marks(s)) = Len(s)
         /\ \A k \in 1 .. Len(s) : Marks(s)[k] = IF s[k] \in Chars THEN <<s[k]>> ELSE <<>>
<1>1. Len(s) \in Nat /\ DOMAIN s = 1 .. Len(s)
  BY LenProperties
<1> DEFINE M == [k \in 1 .. Len(s) |-> IF s[k] \in Chars THEN <<s[k]>> ELSE <<>>]
<1>2. Marks(s) = M
  BY <1>1, Zenon DEF Marks
<1>3. M \in [1 .. Len(s) -> Seq(Chars)]
  <2>1. ASSUME NEW c \in Chars PROVE <<c>> \in Seq(Chars)
    BY <2>1
  <2>2. <<>> \in Seq(Chars)
    OBVIOUS
  <2> QED
    BY <2>1, <2>2
<1>4. \A k \in 1 .. Len(s) : M[k] = IF s[k] \in Chars THEN <<s[k]>> ELSE <<>>
  BY Zenon
<1> HIDE DEF M
<1>5. M \in Seq(Seq(Chars)) /\ Len(M) = Len(s)
  <2>1. DOMAIN M = 1 .. Len(s)
    BY <1>3
  <2> QED
    BY <1>1, <1>3, <2>1
<1> QED
  BY <1>2, <1>4, <1>5

\* Letters() of a whole is put together of the parts.
LEMMA LettersCat ==
  ASSUME NEW X, NEW s \in Seq(X), NEW t \in Seq(X)
  PROVE  Letters(s \o t) = Letters(s) \o Letters(t)
<1> DEFINE r == s \o t
           A == Marks(s)
           B == Marks(t)
           R == Marks(r)
           m == Len(s)
           n == Len(t)
           Q == A \o B
           Y == Seq(Chars)
<1>1. /\ r \in Seq(X) /\ Len(r) = m + n
      /\ \A k \in 1 .. m + n : r[k] = IF k <= m THEN s[k] ELSE t[k - m]
  BY ConcatProperties
<1>2. m \in Nat /\ n \in Nat
  BY LenProperties
<1>3. /\ A \in Seq(Y) /\ Len(A) = m /\ B \in Seq(Y) /\ Len(B) = n
      /\ \A k \in 1 .. m : A[k] = IF s[k] \in Chars THEN <<s[k]>> ELSE <<>>
      /\ \A k \in 1 .. n : B[k] = IF t[k] \in Chars THEN <<t[k]>> ELSE <<>>
  BY MarksType
<1> HIDE DEF r
<1>4. /\ R \in Seq(Y) /\ Len(R) = m + n
      /\ \A k \in 1 .. m + n : R[k] = IF r[k] \in Chars THEN <<r[k]>> ELSE <<>>
  BY <1>1, MarksType
<1> HIDE DEF A, B, R, Y, m, n
<1>5. /\ Q \in Seq(Y) /\ Len(Q) = m + n
      /\ \A k \in 1 .. m + n : Q[k] = IF k <= m THEN A[k] ELSE B[k - m]
  BY <1>3, ConcatProperties
<1> HIDE DEF Q
<1>6. ASSUME NEW k \in 1 .. m + n PROVE R[k] = Q[k]
  <2>1. CASE k <= m
    <3>1. k \in 1 .. m
      BY <1>2, <2>1
    <3> QED
      BY <1>1, <1>3, <1>4, <1>5, <2>1, <3>1, Zenon
  <2>2. CASE ~(k <= m)
    <3>1. k - m \in 1 .. n
      BY <1>2, <2>2
    <3> QED
      BY <1>1, <1>3, <1>4, <1>5, <2>2, <3>1, Zenon
  <2> QED
    BY <2>1, <2>2
<1>7. R = Q
  BY <1>4, <1>5, <1>6, SeqEqual
<1>8. FlattenSeq(Q) = FlattenSeq(A) \o FlattenSeq(B)
  BY <1>3, FlattenCat DEF Q, Y
<1> QED
  BY <1>7, <1>8, Zenon DEF Letters, Marks, A, B, R, r

LEMMA LettersAll ==
  ASSUME NEW s \in Seq(Chars)
  PROVE  Letters(s) = s
<1> DEFINE A == Marks(s)
           f == [k \in 0 .. Len(s) |-> SubSeq(s, 1, k)]
<1>1. Len(s) \in Nat /\ \A k \in 1 .. Len(s) : s[k] \in Chars
  OBVIOUS
<1>2. /\ A \in Seq(Seq(Chars)) /\ Len(A) = Len(s)
      /\ \A k \in 1 .. Len(s) : A[k] = <<s[k]>>
  BY <1>1, MarksType
<1> HIDE DEF A
<1>3. ASSUME NEW k \in 0 .. Len(s) PROVE SubSeq(s, 1, k) \in Seq(Chars)
  <2>1. \A j \in 1 .. k : s[j] \in Chars
    BY <1>1
  <2> QED
    BY <2>1, SubSeqProperties
<1>4. f \in [0 .. Len(s) -> Seq(Chars)] /\ \A k \in 0 .. Len(s) : f[k] = SubSeq(s, 1, k)
  BY <1>3
<1> HIDE DEF f
<1>5. f[0] = <<>>
  <2>1. SubSeq(s, 1, 0) = <<>>
    BY SubSeqEmpty
  <2> QED
    BY <1>1, <1>4, <2>1
<1>6. ASSUME NEW k \in 1 .. Len(A) PROVE f[k] = f[k - 1] \o A[k]
  <2>1. k \in 1 .. Len(s) /\ k - 1 \in 0 .. Len(s) /\ k \in 0 .. Len(s) /\ 1 \in 1 .. Len(s)
    BY <1>1, <1>2
  <2>2. SubSeq(s, 1, k) = SubSeq(s, 1, k - 1) \o <<s[k]>>
    BY <2>1, SubSeqRecursiveSecond
  <2> QED
    BY <1>2, <1>4, <2>1, <2>2
<1>7. FlattenSeq(A) = f[Len(s)]
  BY <1>2, <1>4, <1>5, <1>6, FlattenIs DEF Flattens
<1>8. f[Len(s)] = s
  <2>1. Len(s) \in 0 .. Len(s)
    BY <1>1
  <2> QED
    BY <1>4, <2>1, SubSeqFull
<1> QED
  BY <1>7, <1>8, Zenon DEF Letters, Marks, A

LEMMA LettersNone ==
  ASSUME NEW c, c \notin Chars
  PROVE  Letters(<<c>>) = <<>>
<1> DEFINE s == <<c>>
           A == Marks(s)
<1>1. s \in Seq({c}) /\ Len(s) = 1 /\ s[1] = c
  OBVIOUS
<1> HIDE DEF s
<1>2. A \in Seq(Seq(Chars)) /\ Len(A) = 1 /\ A[1] = <<>>
  <2>1. /\ A \in Seq(Seq(Chars)) /\ Len(A) = Len(s)
        /\ \A k \in 1 .. Len(s) : A[k] = IF s[k] \in Chars THEN <<s[k]>> ELSE <<>>
    BY <1>1, MarksType
  <2>2. 1 \in 1 .. Len(s)
    BY <1>1
  <2>3. A[1] = <<>>
    BY <1>1, <2>1, <2>2, Zenon
  <2> QED
    BY <1>1, <2>1, <2>3
<1> HIDE DEF A
<1>3. A = <<<<>>>>
  BY <1>2
<1>4. <<>> \in Seq(Chars)
  OBVIOUS
<1>5. FlattenSeq(A) = <<>>
  BY <1>3, <1>4, FlattenOne
<1> QED
  BY <1>5, Zenon DEF Letters, Marks, A, s

LEMMA CodesPrintFields == \A c \in DOMAIN s_format_items : s_format_items[c] # "string"
<1>1. DOMAIN s_format_items = {"m", "p", "r", "c", "t", "N", "n", "d", "f", "l", "T", "F"}
  BY DEF s_format_items
<1>2. /\ s_format_items["m"] = "message" /\ s_format_items["p"] = "level"
      /\ s_format_items["r"] = "elapse" /\ s_format_items["c"] = "logger name"
      /\ s_format_items["t"] = "thread id" /\ s_format_items["N"] = "thread name"
      /\ s_format_items["n"] = "newline" /\ s_format_items["d"] = "time"
      /\ s_format_items["f"] = "file" /\ s_format_items["l"] = "line"
      /\ s_format_items["T"] = "tab" /\ s_format_items["F"] = "fiber id"
  BY DEF s_format_items
<1> QED
  BY <1>1, <1>2

\* A text is printed as it stands, a code as a field or as nothing.
Signs == Chars \cup {s_format_items[c] : c \in DOMAIN s_format_items}
Shown(e) == IF e.code THEN <<>> ELSE e.str

LEMMA ItemPrints ==
  ASSUME NEW e \in Entry, e.code => Known(e)
  PROVE  Letters(Printed(Item(e))) = Shown(e) /\ Shown(e) \in Seq(Chars)
         /\ Printed(Item(e)) \in Seq(Signs)
<1>0. e.str \in Seq(Chars) /\ e.code \in BOOLEAN
  BY DEF Entry
<1>1. CASE ~e.code
  <2>1. Item(e) = [class |-> "string", arg |-> e.str]
    BY <1>1, Zenon DEF Item
  <2>2. Item(e).class = "string" /\ Item(e).arg = e.str
    BY <2>1
  <2>3. Printed(Item(e)) = e.str
    BY <2>2, Zenon DEF Printed
  <2>4. e.str \in Seq(Signs)
    BY <1>0 DEF Signs
  <2> QED
    BY <1>0, <1>1, <2>3, <2>4, LettersAll DEF Shown
<1>2. CASE e.code
  <2> DEFINE c == e.str[1]
             f == s_format_items[c]
  <2>1. c \in DOMAIN s_format_items
    BY <1>2 DEF Known
  <2>2. Item(e) = [class |-> f, arg |-> e.detail]
    BY <1>2, Zenon DEF Item
  <2>3. f # "string"
    BY <2>1, CodesPrintFields
  <2>4. f \notin Chars
    BY <2>1, FieldsAssumption
  <2>10. f \in Signs
    BY <2>1, Zenon DEF Signs
  <2> HIDE DEF f
  <2>5. Item(e).class = f
    BY <2>2
  <2>6. Printed(Item(e)) = <<>> \/ Printed(Item(e)) = <<f>>
    BY <2>3, <2>5, Zenon DEF Printed
  <2>7. Letters(<<>>) = <<>> /\ Letters(<<f>>) = <<>>
    <3>1. <<>> \in Seq(Chars)
      OBVIOUS
    <3> QED
      BY <2>4, <3>1, LettersAll, LettersNone
  <2>8. Shown(e) = <<>> /\ <<>> \in Seq(Chars)
    BY <1>2 DEF Shown
  <2>9. Printed(Item(e)) \in Seq(Signs)
    <3>1. <<>> \in Seq(Signs) /\ <<f>> \in Seq(Signs)
      BY <2>10
    <3> QED
      BY <2>6, <3>1
  <2> QED
    BY <2>6, <2>7, <2>8, <2>9
<1> QED
  BY <1>0, <1>1, <1>2

\* Item by item, the letters printed are those of the texts.
LEMMA TextsPrinted ==
  ASSUME tab \in Seq(Entry), items = [k \in DOMAIN tab |-> Item(tab[k])],
         \A k \in DOMAIN tab : tab[k].code => Known(tab[k])
  PROVE  Letters(Output) = Texts
<1> DEFINE n == Len(tab)
           O == [k \in 1 .. n |-> Printed(items[k])]
           T == [k \in 1 .. n |-> Shown(tab[k])]
<1>1. n \in Nat /\ DOMAIN tab = 1 .. n /\ \A k \in 1 .. n : tab[k] \in Entry
  <2> HIDE DEF Entry
  <2> QED
    OBVIOUS
<1>2. \A k \in 1 .. n : items[k] = Item(tab[k]) /\ DOMAIN items = 1 .. n
  BY <1>1
<1>0. DOMAIN items = 1 .. n
  BY <1>1
<1>3. ASSUME NEW k \in 1 .. n
      PROVE  /\ Letters(Printed(items[k])) = Shown(tab[k])
             /\ Printed(items[k]) \in Seq(Signs) /\ Shown(tab[k]) \in Seq(Chars)
  <2>1. tab[k] \in Entry /\ (tab[k].code => Known(tab[k])) /\ items[k] = Item(tab[k])
    BY <1>1, <1>2
  <2> QED
    BY <2>1, ItemPrints
<1>4. Output = FlattenSeq(O)
  BY <1>0, Zenon DEF Output
<1>5. Texts = FlattenSeq(T)
  BY <1>1, Zenon DEF Texts, Shown
<1>6. /\ \A k \in 1 .. n : Letters(O[k]) = T[k]
      /\ O \in [1 .. n -> Seq(Signs)] /\ T \in [1 .. n -> Seq(Chars)]
  BY <1>3
<1> HIDE DEF O, T, n
<1>7. O \in Seq(Seq(Signs)) /\ Len(O) = n /\ T \in Seq(Seq(Chars)) /\ Len(T) = n
  <2>1. DOMAIN O = 1 .. n /\ DOMAIN T = 1 .. n
    BY <1>6
  <2> QED
    BY <1>1, <1>6, <2>1
<1>8. PICK f \in [0 .. n -> Seq(Signs)] : Flattens(f, O)
  BY <1>7, FlattenHas
<1>9. PICK g \in [0 .. n -> Seq(Chars)] : Flattens(g, T)
  BY <1>7, FlattenHas
<1>10. f[0] = <<>> /\ g[0] = <<>>
       /\ \A k \in 1 .. n : f[k] = f[k - 1] \o O[k] /\ g[k] = g[k - 1] \o T[k]
  BY <1>7, <1>8, <1>9 DEF Flattens
<1> DEFINE Wrong == {k \in 0 .. n : Letters(f[k]) # g[k]}
<1>11. Wrong = {}
  <2> SUFFICES ASSUME Wrong # {} PROVE FALSE
    OBVIOUS
  <2>0. Wrong \subseteq Nat
    BY <1>1
  <2>1. PICK k \in Wrong : \A j \in Wrong : k <= j
    <3> HIDE DEF Wrong
    <3> QED
      BY <2>0, LeastOf
  <2>2. k \in 0 .. n /\ Letters(f[k]) # g[k]
    OBVIOUS
  <2>3. k # 0
    <3>1. <<>> \in Seq(Chars)
      OBVIOUS
    <3>2. Letters(<<>>) = <<>>
      BY <3>1, LettersAll
    <3> QED
      BY <1>10, <2>2, <3>2
  <2>4. k \in 1 .. n /\ k - 1 \in 0 .. n /\ ~(k <= k - 1)
    BY <1>1, <2>2, <2>3
  <2>5. Letters(f[k - 1]) = g[k - 1]
    BY <2>1, <2>4, Zenon
  <2>6. Letters(f[k - 1] \o O[k]) = Letters(f[k - 1]) \o Letters(O[k])
    <3>1. f[k - 1] \in Seq(Signs) /\ O[k] \in Seq(Signs)
      BY <1>6, <2>4
    <3> QED
      BY <3>1, LettersCat
  <2> HIDE DEF Wrong
  <2> QED
    BY <1>6, <1>10, <2>2, <2>4, <2>5, <2>6, Zenon
<1>12. Letters(f[n]) = g[n]
  <2>1. n \in 0 .. n
    BY <1>1
  <2> QED
    BY <1>11, <2>1
<1>13. Output = f[n]
  BY <1>4, <1>7, <1>8, FlattenIs
<1>14. Texts = g[n]
  BY <1>5, <1>7, <1>9, FlattenIs
<1> QED
  BY <1>12, <1>13, <1>14

\* Whatever a clean pattern is, what it prints has the letters of its texts, as
\* they stand and in their order, and no others (log.cpp:225-363, 425-438).
THEOREM OnlyTextsPrinted == Spec => []TextPrinted
<1>1. Init => DoneInv
  BY DEF Init, DoneInv
<1>2. DoneInv /\ [Next]_vars => DoneInv'
  <2> SUFFICES ASSUME DoneInv, [Next]_vars PROVE DoneInv'
    OBVIOUS
  <2>1. CASE Build
    BY <2>1 DEF Build, DoneInv
  <2>2. CASE UNCHANGED vars
    BY <2>2 DEF vars, DoneInv
  <2>3. CASE ScanText \/ ScanLast \/ ScanEscape \/ ScanCode \/ ScanDetail \/ ScanUnclosed \/ ScanEnd
    <3>1. pc' # "done"
      BY <2>3 DEF ScanText, ScanLast, ScanEscape, ScanCode, ScanDetail, ScanUnclosed, ScanEnd,
                  ScanPercent
    <3> QED
      BY <3>1 DEF DoneInv
  <2> QED
    BY <2>1, <2>2, <2>3 DEF Next
<1>3. DoneInv /\ CleanInv => TextPrinted
  <2> SUFFICES ASSUME DoneInv, CleanInv, pc = "done", Clean, ~error PROVE Letters(Output) = Texts
    BY DEF TextPrinted
  <2>1. tab \in Seq(Entry)
    BY DEF CleanInv, Spells
  <2>2. items = [k \in DOMAIN tab |-> Item(tab[k])]
        /\ \A k \in DOMAIN tab : tab[k].code => Known(tab[k])
    BY DEF DoneInv
  <2> QED
    BY <2>1, <2>2, TextsPrinted
<1> QED
  BY <1>1, <1>2, <1>3, CleanHolds, PTL DEF Spec
=============================================================================
