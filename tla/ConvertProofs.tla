--------------------------- MODULE ConvertProofs ---------------------------
(***************************************************************************)
(* Proofs about Convert: NothingByHalves, TakenAsWritten, PrintedComesBack.*)
(*                                                                         *)
(* A conversion works through the words of a type, and no theorem here     *)
(* needs to go through the words one by one.  What holds of the last word  *)
(* and passes from one word to the word before it holds of the first one   *)
(* (Outwards), and what passes from a word to the next holds of the last   *)
(* (Inwards): the greatest or the least word for which it failed would     *)
(* have a neighbour for which it fails too.  In this way                   *)
(*   the functions over the words are what their equations say (PartsDef,  *)
(*     ReadsDef, ValuesDef, WritesDef, MeantDef);                          *)
(*   a part that does not convert makes every text around it not convert;  *)
(*   a part that is formed converts to what it means, at every word.       *)
(***************************************************************************)
EXTENDS Convert, FiniteSetTheorems, WellFoundedInduction, TLAPS

----------------------------------------------------------------------------
(* Levels: what holds of one level of a type and passes on to the next one *)
(* holds of all, and the functions that recur over the levels exist.       *)

\* A set of natural numbers has a least element.
LEMMA LeastOf ==
  ASSUME NEW S, S \subseteq Nat, S # {}
  PROVE  \E k \in S : \A j \in S : k <= j
<1> DEFINE upTo == {0 .. k : k \in S}
           R    == StrictSubsetOrdering(Nat)
<1>1. \A k \in Nat : 0 .. k \in FiniteSubsetsOf(Nat)
  <2> SUFFICES ASSUME NEW k \in Nat PROVE IsFiniteSet(0 .. k)
    BY DEF FiniteSubsetsOf
  <2> QED
    BY FS_Interval
<1>2. upTo \subseteq FiniteSubsetsOf(Nat) /\ upTo # {}
  BY <1>1
<1>3. \E X \in upTo : \A Y \in upTo : ~(<<Y, X>> \in R)
  <2> HIDE DEF upTo, R
  <2>1. IsWellFoundedOn(R, FiniteSubsetsOf(Nat))
    BY FS_StrictSubsetOrderingWellFounded DEF R
  <2> QED
    BY <1>2, <2>1, WFMin
<1>4. PICK k \in S : \A j \in S : ~(<<0 .. j, 0 .. k>> \in R)
  BY <1>3
<1>5. ASSUME NEW j \in S PROVE k <= j
  <2> SUFFICES ASSUME j < k PROVE FALSE
    BY <1>5
  <2>1. 0 .. j \subseteq 0 .. k /\ k \in 0 .. k /\ k \notin 0 .. j
    BY <1>5
  <2>2. <<0 .. j, 0 .. k>> \in R
    BY <2>1 DEF StrictSubsetOrdering
  <2> QED
    BY <1>4, <2>2
<1> QED
  BY <1>5

\* A set of numbers up to n has a greatest one.
LEMMA GreatestOf ==
  ASSUME NEW n \in Nat, NEW S, S \subseteq 1 .. n, S # {}
  PROVE  \E k \in S : \A j \in S : j <= k
<1> DEFINE below == {n - k : k \in S}
<1>1. below \subseteq Nat /\ below # {}
  <2>1. ASSUME NEW k \in S PROVE n - k \in Nat
    <3>1. k \in 1 .. n
      OBVIOUS
    <3> QED
      BY <3>1
  <2> QED
    BY <2>1
<1>2. PICK m \in below : \A j \in below : m <= j
  <2> HIDE DEF below
  <2> QED
    BY <1>1, LeastOf
<1>3. PICK k \in S : m = n - k
  BY <1>2
<1>4. \A j \in S : j \in Int /\ n - j \in below
  OBVIOUS
<1>5. \A j \in S : j <= k
  BY <1>2, <1>3, <1>4
<1> QED
  BY <1>5

\* From the first level to all of them.
LEMMA Inwards ==
  ASSUME NEW m \in Nat \ {0}, NEW S, 1 \in S,
         \A n \in 1 .. m : n # m /\ n \in S => n + 1 \in S
  PROVE  \A n \in 1 .. m : n \in S
<1> DEFINE Hasnt == {n \in 1 .. m : n \notin S}
<1> SUFFICES ASSUME Hasnt # {} PROVE FALSE
  OBVIOUS
<1>1. PICK n \in Hasnt : \A j \in Hasnt : n <= j
  <2>1. Hasnt \subseteq Nat
    OBVIOUS
  <2> HIDE DEF Hasnt
  <2> QED
    BY <2>1, LeastOf
<1>2. n \in 1 .. m /\ n # 1 /\ n \notin S
  OBVIOUS
<1>3. n - 1 \in 1 .. m /\ n - 1 # m /\ (n - 1) + 1 = n /\ ~(n <= n - 1)
  BY <1>2
<1>4. n - 1 \in S
  BY <1>1, <1>3
<1> QED
  BY <1>2, <1>3, <1>4

\* From the last level to all of them.
LEMMA Outwards ==
  ASSUME NEW m \in Nat \ {0}, NEW S, m \in S,
         \A n \in 1 .. m : n # m /\ n + 1 \in S => n \in S
  PROVE  \A n \in 1 .. m : n \in S
<1> DEFINE Hasnt == {n \in 1 .. m : n \notin S}
<1> SUFFICES ASSUME Hasnt # {} PROVE FALSE
  OBVIOUS
<1>1. PICK n \in Hasnt : \A j \in Hasnt : j <= n
  <2>1. Hasnt \subseteq 1 .. m
    OBVIOUS
  <2> HIDE DEF Hasnt
  <2> QED
    BY <2>1, GreatestOf
<1>2. n \in 1 .. m /\ n # m /\ n \notin S
  OBVIOUS
<1>3. n + 1 \in 1 .. m /\ ~(n + 1 <= n)
  BY <1>2
<1>4. n + 1 \in S
  BY <1>1, <1>3
<1> QED
  BY <1>2, <1>4

\* The types: a word for each of m levels.
Levelled(E, m) == m \in Nat \ {0} /\ DOMAIN E = 1 .. m /\ Len(E) = m

\* What Parts says of each level.
LEMMA PartsDef ==
  ASSUME NEW E, NEW m, Levelled(E, m), NEW t
  PROVE  /\ Parts(E, t)[1] = {t}
         /\ \A n \in 1 .. m : n # 1 => Parts(E, t)[n] = UNION {Inside(E[n - 1], x) : x \in Parts(E, t)[n - 1]}
<1> DEFINE Body(f, n) == IF n = 1 THEN {t} ELSE UNION {Inside(E[n - 1], x) : x \in f[n - 1]}
           Good(f, k) == \A n \in 1 .. k : f[n] = Body(f, n)
           Reached == {k \in 1 .. m : \E f : Good(f, k)}
<1>0. m \in Nat \ {0} /\ DOMAIN E = 1 .. m
  BY DEF Levelled
<1>a. ASSUME NEW f, NEW g, NEW n, n # 1 => f[n - 1] = g[n - 1]
      PROVE  Body(f, n) = Body(g, n)
  BY <1>a
<1> HIDE DEF Body
<1>1. 1 \in Reached
  <2> DEFINE f == [n \in {1} |-> Body(<<>>, 1)]
  <2>1. Good(f, 1)
    BY <1>a
  <2> QED
    BY <1>0, <2>1
<1>2. ASSUME NEW n \in 1 .. m, n # m, n \in Reached PROVE n + 1 \in Reached
  <2>1. PICK f : Good(f, n)
    BY <1>2
  <2> DEFINE g == [k \in 1 .. n + 1 |-> IF k = n + 1 THEN Body(f, k) ELSE f[k]]
  <2>2. ASSUME NEW k \in 1 .. n + 1 PROVE g[k] = Body(g, k)
    <3>1. k # 1 => k - 1 \in 1 .. n + 1 /\ k - 1 # n + 1
      BY <1>0, <2>2
    <3>2. Body(g, k) = Body(f, k)
      BY <1>a, <3>1
    <3>3. k # n + 1 => k \in 1 .. n
      BY <1>0, <2>2
    <3> QED
      BY <2>1, <3>2, <3>3
  <2>3. n + 1 \in 1 .. m
    BY <1>0, <1>2
  <2> HIDE DEF g
  <2> QED
    BY <2>2, <2>3
<1>3. m \in Reached
  <2> HIDE DEF Reached
  <2>1. m \in 1 .. m
    BY <1>0
  <2>2. \A n \in 1 .. m : n \in Reached
    BY <1>0, <1>1, <1>2, Inwards
  <2> QED
    BY <2>1, <2>2
<1>4. \E g : g = [n \in DOMAIN E |-> Body(g, n)]
  <2>1. PICK f : Good(f, m)
    BY <1>3
  <2> DEFINE g == [n \in 1 .. m |-> f[n]]
  <2>2. ASSUME NEW n \in 1 .. m PROVE Body(g, n) = f[n]
    <3>1. n # 1 => n - 1 \in 1 .. m
      BY <1>0, <2>2
    <3> QED
      BY <1>a, <2>1, <3>1
  <2>3. g = [n \in DOMAIN E |-> Body(g, n)]
    BY <1>0, <2>2
  <2> QED
    BY <2>3
<1>5. Parts(E, t) = CHOOSE g : g = [n \in DOMAIN E |-> Body(g, n)]
  BY DEF Parts, Body
<1>6. Parts(E, t) = [n \in DOMAIN E |-> Body(Parts(E, t), n)]
  BY <1>4, <1>5
<1> DEFINE P == Parts(E, t)
<1>7. /\ P[1] = Body(P, 1)
      /\ \A n \in 1 .. m : P[n] = Body(P, n)
  <2>1. 1 \in DOMAIN E
    BY <1>0
  <2> HIDE DEF P
  <2> QED
    BY <1>0, <1>6, <2>1 DEF P
<1> HIDE DEF P
<1>8. /\ P[1] = {t}
      /\ \A n \in 1 .. m : n # 1 => P[n] = UNION {Inside(E[n - 1], x) : x \in P[n - 1]}
  BY <1>7 DEF Body
<1> QED
  BY <1>8 DEF P

\* What Values says of each level.
LEMMA ValuesDef ==
  ASSUME NEW E, NEW m, Levelled(E, m), NEW v
  PROVE  /\ Values(E, v)[1] = {v}
         /\ \A n \in 1 .. m : n # 1 => Values(E, v)[n] = UNION {Held(E[n - 1], x) : x \in Values(E, v)[n - 1]}
<1> DEFINE Body(f, n) == IF n = 1 THEN {v} ELSE UNION {Held(E[n - 1], x) : x \in f[n - 1]}
           Good(f, k) == \A n \in 1 .. k : f[n] = Body(f, n)
           Reached == {k \in 1 .. m : \E f : Good(f, k)}
<1>0. m \in Nat \ {0} /\ DOMAIN E = 1 .. m
  BY DEF Levelled
<1>a. ASSUME NEW f, NEW g, NEW n, n # 1 => f[n - 1] = g[n - 1]
      PROVE  Body(f, n) = Body(g, n)
  BY <1>a
<1> HIDE DEF Body
<1>1. 1 \in Reached
  <2> DEFINE f == [n \in {1} |-> Body(<<>>, 1)]
  <2>1. Good(f, 1)
    BY <1>a
  <2> QED
    BY <1>0, <2>1
<1>2. ASSUME NEW n \in 1 .. m, n # m, n \in Reached PROVE n + 1 \in Reached
  <2>1. PICK f : Good(f, n)
    BY <1>2
  <2> DEFINE g == [k \in 1 .. n + 1 |-> IF k = n + 1 THEN Body(f, k) ELSE f[k]]
  <2>2. ASSUME NEW k \in 1 .. n + 1 PROVE g[k] = Body(g, k)
    <3>1. k # 1 => k - 1 \in 1 .. n + 1 /\ k - 1 # n + 1
      BY <1>0, <2>2
    <3>2. Body(g, k) = Body(f, k)
      BY <1>a, <3>1
    <3>3. k # n + 1 => k \in 1 .. n
      BY <1>0, <2>2
    <3> QED
      BY <2>1, <3>2, <3>3
  <2>3. n + 1 \in 1 .. m
    BY <1>0, <1>2
  <2> HIDE DEF g
  <2> QED
    BY <2>2, <2>3
<1>3. m \in Reached
  <2> HIDE DEF Reached
  <2>1. m \in 1 .. m
    BY <1>0
  <2>2. \A n \in 1 .. m : n \in Reached
    BY <1>0, <1>1, <1>2, Inwards
  <2> QED
    BY <2>1, <2>2
<1>4. \E g : g = [n \in DOMAIN E |-> Body(g, n)]
  <2>1. PICK f : Good(f, m)
    BY <1>3
  <2> DEFINE g == [n \in 1 .. m |-> f[n]]
  <2>2. ASSUME NEW n \in 1 .. m PROVE Body(g, n) = f[n]
    <3>1. n # 1 => n - 1 \in 1 .. m
      BY <1>0, <2>2
    <3> QED
      BY <1>a, <2>1, <3>1
  <2>3. g = [n \in DOMAIN E |-> Body(g, n)]
    BY <1>0, <2>2
  <2> QED
    BY <2>3
<1>5. Values(E, v) = CHOOSE g : g = [n \in DOMAIN E |-> Body(g, n)]
  BY DEF Values, Body
<1>6. Values(E, v) = [n \in DOMAIN E |-> Body(Values(E, v), n)]
  BY <1>4, <1>5
<1> DEFINE P == Values(E, v)
<1>7. /\ P[1] = Body(P, 1)
      /\ \A n \in 1 .. m : P[n] = Body(P, n)
  <2>1. 1 \in DOMAIN E
    BY <1>0
  <2> HIDE DEF P
  <2> QED
    BY <1>0, <1>6, <2>1 DEF P
<1> HIDE DEF P
<1>8. /\ P[1] = {v}
      /\ \A n \in 1 .. m : n # 1 => P[n] = UNION {Held(E[n - 1], x) : x \in P[n - 1]}
  BY <1>7 DEF Body
<1> QED
  BY <1>8 DEF P

\* What Reads says of each level.
LEMMA ReadsDef ==
  ASSUME NEW E, NEW m, Levelled(E, m), NEW t
  PROVE  /\ \A x \in Parts(E, t)[m] : Reads(E, t)[m][x] = ReadBase(E[m], x)
         /\ \A n \in 1 .. m : n # m =>
              \A x \in Parts(E, t)[n] :
                Reads(E, t)[n][x] = ReadItems(E[n], E[n + 1], x, Reads(E, t)[n + 1])
<1> DEFINE Body(f, n) == [x \in Parts(E, t)[n] |-> IF n = m THEN ReadBase(E[n], x)
                                              ELSE ReadItems(E[n], E[n + 1], x, f[n + 1])]
           Good(f, k) == \A n \in k .. m : f[n] = Body(f, n)
           Reached == {k \in 1 .. m : \E f : Good(f, k)}
<1>0. m \in Nat \ {0} /\ DOMAIN E = 1 .. m /\ Len(E) = m
  BY DEF Levelled
<1>a. ASSUME NEW f, NEW g, NEW n, n # m => f[n + 1] = g[n + 1]
      PROVE  Body(f, n) = Body(g, n)
  BY <1>a
<1> HIDE DEF Body
<1>1. m \in Reached
  <2> DEFINE f == [n \in {m} |-> Body(<<>>, m)]
  <2>1. Good(f, m)
    BY <1>0, <1>a
  <2> QED
    BY <1>0, <2>1
<1>2. ASSUME NEW n \in 1 .. m, n # m, n + 1 \in Reached PROVE n \in Reached
  <2>1. PICK f : Good(f, n + 1)
    BY <1>2
  <2> DEFINE g == [k \in n .. m |-> IF k = n THEN Body(f, k) ELSE f[k]]
  <2>2. ASSUME NEW k \in n .. m PROVE g[k] = Body(g, k)
    <3>1. k # m => k + 1 \in n .. m /\ k + 1 # n
      BY <1>0, <2>2
    <3>2. Body(g, k) = Body(f, k)
      BY <1>a, <3>1
    <3>3. k # n => k \in n + 1 .. m
      BY <1>0, <2>2
    <3> QED
      BY <2>1, <3>2, <3>3
  <2> HIDE DEF g
  <2> QED
    BY <2>2
<1>3. 1 \in Reached
  <2> HIDE DEF Reached
  <2>1. 1 \in 1 .. m
    BY <1>0
  <2>2. \A n \in 1 .. m : n \in Reached
    BY <1>0, <1>1, <1>2, Outwards
  <2> QED
    BY <2>1, <2>2
<1>4. \E g : g = [n \in DOMAIN E |-> Body(g, n)]
  <2>1. PICK f : Good(f, 1)
    BY <1>3
  <2> DEFINE g == [n \in 1 .. m |-> f[n]]
  <2>2. ASSUME NEW n \in 1 .. m PROVE Body(g, n) = f[n]
    <3>1. n # m => n + 1 \in 1 .. m
      BY <1>0, <2>2
    <3> QED
      BY <1>a, <2>1, <3>1
  <2>3. g = [n \in DOMAIN E |-> Body(g, n)]
    BY <1>0, <2>2
  <2> QED
    BY <2>3
<1>5. Reads(E, t) = CHOOSE g : g = [n \in DOMAIN E |-> Body(g, n)]
  BY <1>0 DEF Reads, Body
<1>6. Reads(E, t) = [n \in DOMAIN E |-> Body(Reads(E, t), n)]
  BY <1>4, <1>5
<1> DEFINE P == Reads(E, t)
<1>7. \A n \in 1 .. m : P[n] = Body(P, n)
  <2> HIDE DEF P
  <2> QED
    BY <1>0, <1>6 DEF P
<1>8. m \in 1 .. m
  BY <1>0
<1> HIDE DEF P
<1>9. /\ \A x \in Parts(E, t)[m] : P[m][x] = ReadBase(E[m], x)
      /\ \A n \in 1 .. m : n # m =>
           \A x \in Parts(E, t)[n] :
             P[n][x] = ReadItems(E[n], E[n + 1], x, P[n + 1])
  BY <1>7, <1>8 DEF Body
<1> QED
  BY <1>9 DEF P

\* What Meant says of each level.
LEMMA MeantDef ==
  ASSUME NEW E, NEW m, Levelled(E, m), NEW t, NEW v
  PROVE  /\ \A p \in Parts(E, t)[m] \X Values(E, v)[m] : MeansBase(E[m], p[1], p[2]) => p \in Meant(E, t, v)[m]
         /\ \A n \in 1 .. m : n # m =>
              \A p \in Parts(E, t)[n] \X Values(E, v)[n] :
                MeansItems(E[n], p[1], p[2], Meant(E, t, v)[n + 1]) => p \in Meant(E, t, v)[n]
<1> DEFINE Body(f, n) == {p \in Parts(E, t)[n] \X Values(E, v)[n] :
                            IF n = m THEN MeansBase(E[n], p[1], p[2])
                            ELSE MeansItems(E[n], p[1], p[2], f[n + 1])}
           Good(f, k) == \A n \in k .. m : f[n] = Body(f, n)
           Reached == {k \in 1 .. m : \E f : Good(f, k)}
<1>0. m \in Nat \ {0} /\ DOMAIN E = 1 .. m /\ Len(E) = m
  BY DEF Levelled
<1>a. ASSUME NEW f, NEW g, NEW n, n # m => f[n + 1] = g[n + 1]
      PROVE  Body(f, n) = Body(g, n)
  BY <1>a
<1> HIDE DEF Body
<1>1. m \in Reached
  <2> DEFINE f == [n \in {m} |-> Body(<<>>, m)]
  <2>1. Good(f, m)
    BY <1>0, <1>a
  <2> QED
    BY <1>0, <2>1
<1>2. ASSUME NEW n \in 1 .. m, n # m, n + 1 \in Reached PROVE n \in Reached
  <2>1. PICK f : Good(f, n + 1)
    BY <1>2
  <2> DEFINE g == [k \in n .. m |-> IF k = n THEN Body(f, k) ELSE f[k]]
  <2>2. ASSUME NEW k \in n .. m PROVE g[k] = Body(g, k)
    <3>1. k # m => k + 1 \in n .. m /\ k + 1 # n
      BY <1>0, <2>2
    <3>2. Body(g, k) = Body(f, k)
      BY <1>a, <3>1
    <3>3. k # n => k \in n + 1 .. m
      BY <1>0, <2>2
    <3> QED
      BY <2>1, <3>2, <3>3
  <2> HIDE DEF g
  <2> QED
    BY <2>2
<1>3. 1 \in Reached
  <2> HIDE DEF Reached
  <2>1. 1 \in 1 .. m
    BY <1>0
  <2>2. \A n \in 1 .. m : n \in Reached
    BY <1>0, <1>1, <1>2, Outwards
  <2> QED
    BY <2>1, <2>2
<1>4. \E g : g = [n \in DOMAIN E |-> Body(g, n)]
  <2>1. PICK f : Good(f, 1)
    BY <1>3
  <2> DEFINE g == [n \in 1 .. m |-> f[n]]
  <2>2. ASSUME NEW n \in 1 .. m PROVE Body(g, n) = f[n]
    <3>1. n # m => n + 1 \in 1 .. m
      BY <1>0, <2>2
    <3> QED
      BY <1>a, <2>1, <3>1
  <2>3. g = [n \in DOMAIN E |-> Body(g, n)]
    BY <1>0, <2>2
  <2> QED
    BY <2>3
<1>5. Meant(E, t, v) = CHOOSE g : g = [n \in DOMAIN E |-> Body(g, n)]
  BY <1>0 DEF Meant, Body
<1>6. Meant(E, t, v) = [n \in DOMAIN E |-> Body(Meant(E, t, v), n)]
  BY <1>4, <1>5
<1> DEFINE P == Meant(E, t, v)
<1>7. \A n \in 1 .. m : P[n] = Body(P, n)
  <2> HIDE DEF P
  <2> QED
    BY <1>0, <1>6 DEF P
<1>8. m \in 1 .. m
  BY <1>0
<1> HIDE DEF P
<1>9. /\ \A p \in Parts(E, t)[m] \X Values(E, v)[m] : MeansBase(E[m], p[1], p[2]) => p \in P[m]
      /\ \A n \in 1 .. m : n # m =>
           \A p \in Parts(E, t)[n] \X Values(E, v)[n] :
             MeansItems(E[n], p[1], p[2], P[n + 1]) => p \in P[n]
  BY <1>7, <1>8 DEF Body
<1> QED
  BY <1>9 DEF P

\* What Writes says of each level.
LEMMA WritesDef ==
  ASSUME NEW E, NEW m, Levelled(E, m), NEW v
  PROVE  /\ \A x \in Values(E, v)[m] : Writes(E, v)[m][x] = {WriteBase(E[m], x)}
         /\ \A n \in 1 .. m : n # m =>
              \A x \in Values(E, v)[n] : Writes(E, v)[n][x] = WriteItems(E[n], x, Writes(E, v)[n + 1])
<1> DEFINE Body(f, n) == [x \in Values(E, v)[n] |-> IF n = m THEN {WriteBase(E[n], x)}
                                               ELSE WriteItems(E[n], x, f[n + 1])]
           Good(f, k) == \A n \in k .. m : f[n] = Body(f, n)
           Reached == {k \in 1 .. m : \E f : Good(f, k)}
<1>0. m \in Nat \ {0} /\ DOMAIN E = 1 .. m /\ Len(E) = m
  BY DEF Levelled
<1>a. ASSUME NEW f, NEW g, NEW n, n # m => f[n + 1] = g[n + 1]
      PROVE  Body(f, n) = Body(g, n)
  BY <1>a
<1> HIDE DEF Body
<1>1. m \in Reached
  <2> DEFINE f == [n \in {m} |-> Body(<<>>, m)]
  <2>1. Good(f, m)
    BY <1>0, <1>a
  <2> QED
    BY <1>0, <2>1
<1>2. ASSUME NEW n \in 1 .. m, n # m, n + 1 \in Reached PROVE n \in Reached
  <2>1. PICK f : Good(f, n + 1)
    BY <1>2
  <2> DEFINE g == [k \in n .. m |-> IF k = n THEN Body(f, k) ELSE f[k]]
  <2>2. ASSUME NEW k \in n .. m PROVE g[k] = Body(g, k)
    <3>1. k # m => k + 1 \in n .. m /\ k + 1 # n
      BY <1>0, <2>2
    <3>2. Body(g, k) = Body(f, k)
      BY <1>a, <3>1
    <3>3. k # n => k \in n + 1 .. m
      BY <1>0, <2>2
    <3> QED
      BY <2>1, <3>2, <3>3
  <2> HIDE DEF g
  <2> QED
    BY <2>2
<1>3. 1 \in Reached
  <2> HIDE DEF Reached
  <2>1. 1 \in 1 .. m
    BY <1>0
  <2>2. \A n \in 1 .. m : n \in Reached
    BY <1>0, <1>1, <1>2, Outwards
  <2> QED
    BY <2>1, <2>2
<1>4. \E g : g = [n \in DOMAIN E |-> Body(g, n)]
  <2>1. PICK f : Good(f, 1)
    BY <1>3
  <2> DEFINE g == [n \in 1 .. m |-> f[n]]
  <2>2. ASSUME NEW n \in 1 .. m PROVE Body(g, n) = f[n]
    <3>1. n # m => n + 1 \in 1 .. m
      BY <1>0, <2>2
    <3> QED
      BY <1>a, <2>1, <3>1
  <2>3. g = [n \in DOMAIN E |-> Body(g, n)]
    BY <1>0, <2>2
  <2> QED
    BY <2>3
<1>5. Writes(E, v) = CHOOSE g : g = [n \in DOMAIN E |-> Body(g, n)]
  BY <1>0 DEF Writes, Body
<1>6. Writes(E, v) = [n \in DOMAIN E |-> Body(Writes(E, v), n)]
  BY <1>4, <1>5
<1> DEFINE P == Writes(E, v)
<1>7. \A n \in 1 .. m : P[n] = Body(P, n)
  <2> HIDE DEF P
  <2> QED
    BY <1>0, <1>6 DEF P
<1>8. m \in 1 .. m
  BY <1>0
<1> HIDE DEF P
<1>9. /\ \A x \in Values(E, v)[m] : P[m][x] = {WriteBase(E[m], x)}
      /\ \A n \in 1 .. m : n # m =>
           \A x \in Values(E, v)[n] : P[n][x] = WriteItems(E[n], x, P[n + 1])
  BY <1>7, <1>8 DEF Body
<1> QED
  BY <1>9 DEF P

----------------------------------------------------------------------------
(* NoHalfDocument: nothing comes of a text that is broken somewhere.        *)

\* The words of a type: containers but for the last one.
LEMMA TypeWords ==
  ASSUME NEW E \in VarTypes
  PROVE  /\ Levelled(E, Len(E))
         /\ \A n \in 1 .. Len(E) : n # Len(E) => E[n] \in {"vector", "set", "map"}
         /\ E[Len(E)] \in {"int", "string", "appender", "log"}
<1> DEFINE Words == {"vector", "set", "map", "int", "string", "appender", "log"}
           Outer == {"vector", "set", "map"}
<1>1. E \in Seq(Words) /\ Len(E) > 0 /\ \A n \in DOMAIN E : E[n] \in Outer <=> n < Len(E)
  BY TypesAssumption
<1>2. E[Len(E)] \in Words /\ E[Len(E)] \notin Outer
  <2> HIDE DEF Words, Outer
  <2> QED
    BY <1>1
<1>3. Levelled(E, Len(E))
  <2> HIDE DEF Words, Outer
  <2> QED
    BY <1>1 DEF Levelled
<1>4. \A n \in 1 .. Len(E) : n # Len(E) => E[n] \in Outer
  <2> HIDE DEF Words, Outer
  <2> QED
    BY <1>1
<1> QED
  BY <1>2, <1>3, <1>4

\* A list with an item that throws does not convert.
LEMMA InOrderThrows ==
  ASSUME NEW results, NEW k \in DOMAIN results, results[k] = {}
  PROVE  InOrder(results) = {}
  BY DEF InOrder, ToSet

\* An item that throws ends the conversion of its container.
LEMMA ThrownThrough ==
  ASSUME NEW c \in {"vector", "set", "map"}, NEW e, NEW t, NEW item,
         NEW y \in Inside(c, t), item[y] = {}
  PROVE  ReadItems(c, e, t, item) = {}
<1>1. CASE c = "map" /\ t[1] = "map"
  <2> DEFINE results == [k \in DOMAIN t[2] |-> item[t[2][k][2]]]
  <2>1. PICK k \in DOMAIN t[2] : y = t[2][k][2]
    BY <1>1 DEF Inside
  <2>2. InOrder(results) = {}
    BY <2>1, InOrderThrows
  <2>3. ReadItems(c, e, t, item) = {LastOf([j \in DOMAIN t[2] |-> t[2][j][1]], s) : s \in InOrder(results)}
    BY <1>1 DEF ReadItems
  <2> HIDE DEF results
  <2> QED
    BY <2>2, <2>3
<1>2. CASE ~(c = "map" /\ t[1] = "map")
  <2> DEFINE results == [k \in DOMAIN Items(t) |-> item[Items(t)[k]]]
  <2>1. PICK k \in DOMAIN Items(t) : y = Items(t)[k]
    BY <1>2 DEF Inside, ToSet
  <2>2. InOrder(results) = {}
    BY <2>1, InOrderThrows
  <2>3. Items(t) # <<>>
    BY <2>1
  <2>4. c = "vector" => ReadItems(c, e, t, item) = InOrder(results)
    BY DEF ReadItems
  <2>5. c = "set" => ReadItems(c, e, t, item) = {Inserted(e, s) : s \in InOrder(results)}
    BY DEF ReadItems
  <2>6. c = "map" => ReadItems(c, e, t, item) = {}
    BY <1>2, <2>3 DEF ReadItems
  <2> HIDE DEF results
  <2> QED
    BY <2>2, <2>4, <2>5, <2>6
<1> QED
  BY <1>1, <1>2

\* A base does not convert if it is broken.
LEMMA BrokenBaseReads ==
  ASSUME NEW b \in {"int", "string", "appender", "log"}, NEW t, BrokenBase(b, t)
  PROVE  ReadBase(b, t) = {}
<1>1. ASSUME NEW a, "type" \notin Keys(a) PROVE ReadAppender(a) = {}
  BY <1>1 DEF ReadAppender, Given
<1>2. CASE b = "int"
  BY <1>2 DEF ReadBase, BrokenBase
<1>3. CASE b = "string"
  BY <1>3 DEF BrokenBase
<1>4. CASE b = "appender"
  BY <1>1, <1>4 DEF ReadBase, BrokenBase
<1>5. CASE b = "log"
  <2>1. ReadBase(b, t) = ReadLog(t)
    BY <1>5 DEF ReadBase
  <2>2. CASE "name" \notin Keys(t)
    <3>1. Given(t, "name") = {}
      BY <2>2 DEF Given
    <3> QED
      BY <2>1, <3>1 DEF ReadLog
  <2>3. CASE \E a \in ToSet(Logged(t)) : "type" \notin Keys(a)
    <3> DEFINE results == [k \in DOMAIN Logged(t) |-> ReadAppender(Logged(t)[k])]
    <3>1. PICK k \in DOMAIN Logged(t) : "type" \notin Keys(Logged(t)[k])
      BY <2>3 DEF ToSet
    <3>2. InOrder(results) = {}
      BY <1>1, <3>1, InOrderThrows
    <3>3. ReadLog(t) = {[name |-> n, level |-> LevelOf(l), formatter |-> f, appenders |-> a] :
                          n \in Given(t, "name"), l \in Optional(t, "level"), f \in Optional(t, "formatter"),
                          a \in InOrder(results)}
      BY DEF ReadLog
    <3> HIDE DEF results
    <3> QED
      BY <2>1, <3>2, <3>3
  <2> QED
    BY <1>5, <2>2, <2>3 DEF BrokenBase
<1> QED
  BY <1>2, <1>3, <1>4, <1>5

\* Whatever is broken at the innermost level, nothing is read at the outermost.
LEMMA BrokenReads ==
  ASSUME NEW E \in VarTypes, NEW t, Broken(E, t)
  PROVE  Read(E, t) = {}
<1> DEFINE m == Len(E)
           Empty == {n \in 1 .. m : \E x \in Parts(E, t)[n] : Reads(E, t)[n][x] = {}}
<1>1. Levelled(E, m) /\ m \in Nat \ {0}
  BY TypeWords DEF Levelled
<1>2. m \in Empty
  <2>1. PICK x \in Parts(E, t)[m] : BrokenBase(E[m], x)
    BY DEF Broken
  <2>2. ReadBase(E[m], x) = {}
    BY <2>1, BrokenBaseReads, TypeWords
  <2>3. Reads(E, t)[m][x] = {}
    BY <1>1, <2>2, ReadsDef
  <2>4. m \in 1 .. m
    BY <1>1
  <2> QED
    BY <2>3, <2>4
<1>3. ASSUME NEW n \in 1 .. m, n # m, n + 1 \in Empty PROVE n \in Empty
  <2>1. PICK y \in Parts(E, t)[n + 1] : Reads(E, t)[n + 1][y] = {}
    BY <1>3
  <2>2. n + 1 \in 1 .. m /\ n + 1 # 1 /\ (n + 1) - 1 = n
    BY <1>1, <1>3
  <2>3. PICK x \in Parts(E, t)[n] : y \in Inside(E[n], x)
    BY <1>1, <2>1, <2>2, PartsDef
  <2>4. E[n] \in {"vector", "set", "map"}
    BY <1>3, TypeWords
  <2>5. ReadItems(E[n], E[n + 1], x, Reads(E, t)[n + 1]) = {}
    BY <2>1, <2>3, <2>4, ThrownThrough
  <2>6. Reads(E, t)[n][x] = {}
    BY <1>1, <1>3, <2>5, ReadsDef
  <2> QED
    BY <2>6
<1>4. 1 \in Empty
  <2> HIDE DEF Empty, m
  <2>1. \A n \in 1 .. m : n \in Empty
    BY <1>1, <1>2, <1>3, Outwards
  <2> QED
    BY <1>1, <2>1
<1>5. PICK x \in Parts(E, t)[1] : Reads(E, t)[1][x] = {}
  BY <1>4
<1>6. x = t
  BY <1>1, PartsDef
<1> QED
  BY <1>5, <1>6 DEF Read

\* The type of the variable never changes.
TypeKnown == T \in VarTypes

LEMMA TypeStays == Spec => []TypeKnown
<1> USE DEF TypeKnown
<1>1. Init => TypeKnown
  BY DEF Init
<1>2. TypeKnown /\ [Next]_vars => TypeKnown'
  BY DEF Next, vars, Load, ToText, Restore, FromString
<1> HIDE DEF TypeKnown
<1> QED
  BY <1>1, <1>2, PTL DEF Spec

(* No document, whatever its depth, changes the value by its half: if an   *)
(* item anywhere in it does not convert, fromString leaves m_val as it is  *)
(* (config.hpp:255), for variables of any type made of the containers.     *)
THEOREM NothingByHalves == Spec => NoHalfDocument
<1>1. ASSUME T \in VarTypes, [Next]_vars PROVE Broken(T, text') => val' = val
  <2> SUFFICES ASSUME Broken(T, text') PROVE val' = val
    OBVIOUS
  <2>1. Read(T, text') = {}
    BY <1>1, BrokenReads
  <2>2. ASSUME NEW t, FromString(t) PROVE val' = val
    BY <2>1, <2>2 DEF FromString
  <2> QED
    BY <1>1, <2>2 DEF Next, vars, Load, ToText, Restore
<1>2. TypeKnown /\ [Next]_vars => [Broken(T, text') => val' = val]_vars
  BY <1>1 DEF TypeKnown
<1> QED
  BY <1>2, TypeStays, PTL DEF Spec, NoHalfDocument

----------------------------------------------------------------------------
(* ReadsAsWritten: a formed text converts, to a value it means.             *)

\* What an ordered conversion returns: one value of each item.
LEMMA InOrderReturns ==
  ASSUME NEW results
  PROVE  /\ \A s \in InOrder(results) :
              /\ DOMAIN s = DOMAIN results /\ s = [k \in DOMAIN results |-> s[k]]
              /\ \A k \in DOMAIN results : s[k] \in results[k]
         /\ (\A k \in DOMAIN results : results[k] # {}) => InOrder(results) # {}
<1>1. ASSUME NEW s \in InOrder(results)
      PROVE  /\ DOMAIN s = DOMAIN results /\ s = [k \in DOMAIN results |-> s[k]]
             /\ \A k \in DOMAIN results : s[k] \in results[k]
  <2>1. {} \notin ToSet(results) /\ s = [k \in DOMAIN results |-> CHOOSE x \in results[k] : TRUE]
    BY <1>1 DEF InOrder
  <2>2. ASSUME NEW k \in DOMAIN results PROVE results[k] # {}
    BY <2>1, <2>2 DEF ToSet
  <2> QED
    BY <2>1, <2>2
<1>2. ASSUME \A k \in DOMAIN results : results[k] # {} PROVE InOrder(results) # {}
  BY <1>2 DEF InOrder, ToSet
<1> QED
  BY <1>1, <1>2

\* A member that is a plain scalar is given as it is.
LEMMA PlainGiven ==
  ASSUME NEW t, NEW key
  PROVE  /\ key \in Keys(t) /\ Field(t, key)[1] = "plain" => Given(t, key) = {Field(t, key)}
         /\ \A x, y \in Given(t, key) : x = y
  BY DEF Given

LEMMA SettingsRead ==
  ASSUME NEW t, FormedSettings(t)
  PROVE  /\ Optional(t, "level") # {} /\ Optional(t, "formatter") # {}
         /\ \A l \in Optional(t, "level") : "level" \in Keys(t) => LevelOf(l) = Field(t, "level")[2]
         /\ \A f \in Optional(t, "formatter") : "formatter" \in Keys(t) => f = Field(t, "formatter")
<1>1. ASSUME "level" \in Keys(t)
      PROVE  /\ Optional(t, "level") = {Field(t, "level")}
             /\ LevelOf(Field(t, "level")) = Field(t, "level")[2]
  <2>1. PICK l \in Levels : Field(t, "level") = <<"plain", l>>
    BY <1>1 DEF FormedSettings
  <2>2. Given(t, "level") = {Field(t, "level")}
    BY <1>1, <2>1, PlainGiven
  <2> QED
    BY <1>1, <2>1, <2>2 DEF Optional, LevelOf
<1>2. ASSUME "formatter" \in Keys(t) PROVE Optional(t, "formatter") = {Field(t, "formatter")}
  BY <1>2, PlainGiven DEF FormedSettings, Optional
<1>3. ASSUME NEW key, key \notin Keys(t) PROVE Optional(t, key) = {None}
  BY <1>3 DEF Optional
<1> QED
  BY <1>1, <1>2, <1>3

LEMMA AppenderRead ==
  ASSUME NEW t, FormedAppender(t)
  PROVE  ReadAppender(t) # {} /\ \A v \in ReadAppender(t) : MeansAppender(t, v)
<1> DEFINE file == <<"plain", "FileLogAppender">>
           types == {file, <<"plain", "StdoutLogAppender">>}
           Files(ty) == IF ty[2] = "FileLogAppender" THEN Given(t, "file") ELSE {None}
           Of(ty) == {[type |-> ty[2], file |-> f, level |-> LevelOf(l), formatter |-> g] :
                        f \in Files(ty), l \in Optional(t, "level"), g \in Optional(t, "formatter")}
           ty == Field(t, "type")
<1>1. /\ "type" \in Keys(t) /\ ty \in types
      /\ ty = file => "file" \in Keys(t) /\ Field(t, "file")[1] = "plain"
      /\ FormedSettings(t)
  BY DEF FormedAppender
<1>2. Given(t, "type") \cap types = {ty}
  <2>1. ty[1] = "plain"
    BY <1>1
  <2> QED
    BY <1>1, <2>1, PlainGiven
<1>3. ReadAppender(t) = Of(ty)
  <2>1. ReadAppender(t) = UNION {Of(x) : x \in Given(t, "type") \cap types}
    BY DEF ReadAppender
  <2> HIDE DEF Of, types, ty
  <2> QED
    BY <1>2, <2>1
<1>4. ty[2] = "FileLogAppender" => Files(ty) = {Field(t, "file")}
  BY <1>1, PlainGiven
<1>5. Files(ty) # {}
  BY <1>4
<1>6. Of(ty) # {}
  <2>1. Optional(t, "level") # {} /\ Optional(t, "formatter") # {}
    BY <1>1, SettingsRead
  <2>2. PICK f \in Files(ty), l \in Optional(t, "level"), g \in Optional(t, "formatter") : TRUE
    <3> HIDE DEF Files, ty
    <3> QED
      BY <1>5, <2>1
  <2>3. [type |-> ty[2], file |-> f, level |-> LevelOf(l), formatter |-> g] \in Of(ty)
    <3> HIDE DEF Files, ty
    <3> QED
      BY <2>2
  <2> HIDE DEF Of
  <2> QED
    BY <2>3
<1>7. ASSUME NEW v \in Of(ty) PROVE MeansAppender(t, v)
  <2>1. PICK f \in Files(ty), l \in Optional(t, "level"), g \in Optional(t, "formatter") :
          v = [type |-> ty[2], file |-> f, level |-> LevelOf(l), formatter |-> g]
    BY <1>7
  <2>2. v.type = ty[2] /\ v.file = f /\ v.level = LevelOf(l) /\ v.formatter = g
    BY <2>1
  <2>3. MeansSettings(t, v)
    BY <1>1, <2>2, SettingsRead DEF MeansSettings
  <2> HIDE DEF Files
  <2> QED
    BY <1>4, <2>2, <2>3 DEF MeansAppender
<1> QED
  BY <1>3, <1>6, <1>7

LEMMA LogNamed ==
  ASSUME NEW t, NEW v \in ReadLog(t)
  PROVE  v.name \in Given(t, "name")
<1>1. PICK n \in Given(t, "name"), l \in Optional(t, "level"), g \in Optional(t, "formatter"),
           a \in InOrder([k \in DOMAIN Logged(t) |-> ReadAppender(Logged(t)[k])]) :
        v = [name |-> n, level |-> LevelOf(l), formatter |-> g, appenders |-> a]
  BY DEF ReadLog
<1> QED
  BY <1>1

LEMMA LogRead ==
  ASSUME NEW t, FormedBase("log", t)
  PROVE  ReadLog(t) # {} /\ \A v \in ReadLog(t) : MeansBase("log", t, v)
<1> DEFINE results == [k \in DOMAIN Logged(t) |-> ReadAppender(Logged(t)[k])]
<1>1. /\ Given(t, "name") = {Field(t, "name")} /\ FormedSettings(t)
      /\ \A k \in DOMAIN Logged(t) : FormedAppender(Logged(t)[k])
  BY PlainGiven DEF FormedBase
<1>2. InOrder(results) # {}
  <2>1. \A k \in DOMAIN results : results[k] # {}
    BY <1>1, AppenderRead
  <2> HIDE DEF results
  <2> QED
    BY <2>1, InOrderReturns
<1>3. ReadLog(t) = {[name |-> n, level |-> LevelOf(l), formatter |-> g, appenders |-> a] :
                      n \in Given(t, "name"), l \in Optional(t, "level"), g \in Optional(t, "formatter"),
                      a \in InOrder(results)}
  BY DEF ReadLog
<1>4. ReadLog(t) # {}
  <2>1. Optional(t, "level") # {} /\ Optional(t, "formatter") # {}
    BY <1>1, SettingsRead
  <2> HIDE DEF results
  <2>2. PICK n \in Given(t, "name"), l \in Optional(t, "level"), g \in Optional(t, "formatter"),
             a \in InOrder(results) : TRUE
    BY <1>1, <1>2, <2>1
  <2>3. [name |-> n, level |-> LevelOf(l), formatter |-> g, appenders |-> a] \in ReadLog(t)
    BY <1>3, <2>2
  <2> QED
    BY <2>3
<1>5. ASSUME NEW v \in ReadLog(t) PROVE MeansBase("log", t, v)
  <2>1. PICK n \in Given(t, "name"), l \in Optional(t, "level"), g \in Optional(t, "formatter"),
             a \in InOrder(results) :
          v = [name |-> n, level |-> LevelOf(l), formatter |-> g, appenders |-> a]
    <3> HIDE DEF results
    <3> QED
      BY <1>3, <1>5
  <2>2. v.name = n /\ v.level = LevelOf(l) /\ v.formatter = g /\ v.appenders = a
    BY <2>1
  <2>3. v.name = Field(t, "name") /\ MeansSettings(t, v)
    BY <1>1, <2>2, SettingsRead DEF MeansSettings
  <2>4. DOMAIN a = DOMAIN Logged(t) /\ \A k \in DOMAIN Logged(t) : a[k] \in ReadAppender(Logged(t)[k])
    BY InOrderReturns
  <2>5. \A k \in DOMAIN Logged(t) : MeansAppender(Logged(t)[k], a[k])
    BY <1>1, <2>4, AppenderRead
  <2> QED
    BY <2>2, <2>3, <2>4, <2>5 DEF MeansBase
<1> QED
  BY <1>4, <1>5

\* Bases: what a formed text converts to is what it means.
LEMMA BaseRead ==
  ASSUME NEW b \in {"int", "string", "appender", "log"}, NEW t, FormedBase(b, t)
  PROVE  ReadBase(b, t) # {} /\ \A v \in ReadBase(b, t) : MeansBase(b, t, v)
<1>1. CASE b = "int"
  BY <1>1 DEF FormedBase, ReadBase, MeansBase
<1>2. CASE b = "string"
  BY <1>2 DEF FormedBase, ReadBase, MeansBase
<1>3. CASE b = "appender"
  BY <1>3, AppenderRead DEF FormedBase, ReadBase, MeansBase
<1>4. CASE b = "log"
  BY <1>4, LogRead DEF ReadBase
<1> QED
  BY <1>1, <1>2, <1>3, <1>4

\* The items of a container, one by one.
LEMMA FormedItem ==
  ASSUME NEW c \in {"vector", "set", "map"}, NEW e, NEW t, FormedItems(c, e, t)
  PROVE  /\ c # "map" => Items(t) = t[2] /\ \A k \in DOMAIN t[2] : t[2][k] \in Inside(c, t)
         /\ c = "map" => t[1] = "map" /\ \A k \in DOMAIN t[2] : t[2][k][2] \in Inside(c, t)
         /\ Len(t[2]) \in Nat /\ DOMAIN t[2] = 1 .. Len(t[2])
<1>1. Len(t[2]) \in Nat /\ DOMAIN t[2] = 1 .. Len(t[2])
  BY DEF FormedItems
<1>2. c # "map" => Items(t) = t[2] /\ \A k \in DOMAIN t[2] : t[2][k] \in Inside(c, t)
  BY DEF FormedItems, Items, Inside, ToSet
<1>3. c = "map" => t[1] = "map" /\ \A k \in DOMAIN t[2] : t[2][k][2] \in Inside(c, t)
  BY DEF FormedItems, Inside
<1> QED
  BY <1>1, <1>2, <1>3

\* A container converts if all of its items do.
LEMMA ItemsRead ==
  ASSUME NEW c \in {"vector", "set", "map"}, NEW e, NEW t, FormedItems(c, e, t), NEW item,
         \A y \in Inside(c, t) : item[y] # {}
  PROVE  ReadItems(c, e, t, item) # {}
<1>1. CASE c # "map"
  <2> DEFINE results == [k \in DOMAIN Items(t) |-> item[Items(t)[k]]]
  <2>1. \A k \in DOMAIN results : results[k] # {}
    BY <1>1, FormedItem
  <2>2. c = "vector" => ReadItems(c, e, t, item) = InOrder(results)
    BY DEF ReadItems
  <2>3. c = "set" => ReadItems(c, e, t, item) = {Inserted(e, s) : s \in InOrder(results)}
    BY DEF ReadItems
  <2> HIDE DEF results
  <2>4. InOrder(results) # {}
    BY <2>1, InOrderReturns
  <2> QED
    BY <1>1, <2>2, <2>3, <2>4
<1>2. CASE c = "map"
  <2> DEFINE results == [k \in DOMAIN t[2] |-> item[t[2][k][2]]]
  <2>1. \A k \in DOMAIN results : results[k] # {}
    BY <1>2, FormedItem
  <2>2. ReadItems(c, e, t, item) = {LastOf([j \in DOMAIN t[2] |-> t[2][j][1]], s) : s \in InOrder(results)}
    BY <1>2, FormedItem DEF ReadItems
  <2> HIDE DEF results
  <2>3. InOrder(results) # {}
    BY <2>1, InOrderReturns
  <2> QED
    BY <2>2, <2>3
<1> QED
  BY <1>1, <1>2

\* insert() of a set takes one of the items that are the same, the first.
LEMMA InsertedHas ==
  ASSUME NEW e, NEW n \in Nat, NEW s, DOMAIN s = 1 .. n,
         e = "log" => \A j, k \in DOMAIN s : s[j].name = s[k].name => j = k
  PROVE  Inserted(e, s) = ToSet(s)
<1>1. ASSUME NEW k \in DOMAIN s PROVE s[k] \in Inserted(e, s)
  <2> DEFINE Equal == {j \in DOMAIN s : s[j] = s[k]}
  <2>1. PICK i \in Equal : \A j \in Equal : i <= j
    <3>1. Equal \subseteq Nat /\ Equal # {}
      BY <1>1
    <3> HIDE DEF Equal
    <3> QED
      BY <3>1, LeastOf
  <2>2. i \in DOMAIN s /\ s[i] = s[k] /\ i \in 1 .. n
    BY <2>1
  <2>3. ASSUME NEW j \in 1 .. i - 1 PROVE ~Same(e, s[j], s[i])
    <3>1. j \in DOMAIN s /\ ~(i <= j) /\ j # i
      BY <2>2, <2>3
    <3>2. s[j] # s[i]
      BY <2>1, <2>2, <3>1
    <3>3. e = "log" => s[j].name # s[i].name
      BY <2>2, <3>1
    <3> QED
      BY <3>2, <3>3 DEF Same
  <2> QED
    BY <2>2, <2>3 DEF Inserted
<1> QED
  BY <1>1 DEF Inserted, ToSet

\* Of the items with one key a map has the last.
LongAs(n, keys, s) == n \in Nat /\ DOMAIN keys = 1 .. n /\ DOMAIN s = 1 .. n

LEMMA LastHas ==
  ASSUME NEW n, NEW keys, NEW s, LongAs(n, keys, s), NEW k \in 1 .. n
  PROVE  \E j \in 1 .. n : /\ keys[j] = keys[k] /\ LastOf(keys, s)[keys[k]] = s[j]
                          /\ (j = k \/ j > k)
<1> USE DEF LongAs
<1> DEFINE Named == {j \in 1 .. n : keys[j] = keys[k]}
           IsLast(i) == keys[i] = keys[k] /\ \A j \in DOMAIN s : j > i => keys[j] # keys[k]
           last == CHOOSE i \in DOMAIN s : IsLast(i)
<1>1. PICK i \in Named : \A j \in Named : j <= i
  <2>1. Named \subseteq 1 .. n /\ Named # {}
    OBVIOUS
  <2> HIDE DEF Named
  <2> QED
    BY <2>1, GreatestOf
<1>2. i \in DOMAIN s /\ IsLast(i)
  <2>1. i \in 1 .. n /\ keys[i] = keys[k]
    BY <1>1
  <2>2. ASSUME NEW j \in 1 .. n, j > i PROVE keys[j] # keys[k]
    <3>1. ~(j <= i)
      BY <2>1, <2>2
    <3> QED
      BY <1>1, <3>1
  <2> QED
    BY <2>1, <2>2
<1>3. last \in 1 .. n /\ IsLast(last)
  <2> HIDE DEF IsLast
  <2> QED
    BY <1>2
<1>4. keys[k] \in ToSet(keys)
  BY DEF ToSet
<1>5. LastOf(keys, s)[keys[k]] = s[last]
  BY <1>4 DEF LastOf
<1>6. last = k \/ last > k
  <2> SUFFICES ASSUME k > last PROVE FALSE
    BY <1>3
  <2> HIDE DEF last
  <2> QED
    BY <1>3
<1> HIDE DEF last
<1> QED
  BY <1>3, <1>5, <1>6

\* A container means what its items mean.
LEMMA ItemsMean ==
  ASSUME NEW c \in {"vector", "set", "map"}, NEW e, NEW t, FormedItems(c, e, t),
         NEW item, NEW v \in ReadItems(c, e, t, item),
         e = "log" => \A y \in Inside(c, t) : item[y] = ReadLog(y),
         NEW means, \A y \in Inside(c, t) : \A w \in item[y] \cap Held(c, v) : <<y, w>> \in means
  PROVE  MeansItems(c, t, v, means)
<1> DEFINE n == Len(t[2])
<1>0. n \in Nat /\ DOMAIN t[2] = 1 .. n
  BY FormedItem
<1> HIDE DEF n
<1>1. CASE c # "map"
  <2> DEFINE results == [k \in DOMAIN Items(t) |-> item[Items(t)[k]]]
  <2>1. Items(t) = t[2] /\ \A k \in DOMAIN t[2] : t[2][k] \in Inside(c, t)
    BY <1>1, FormedItem
  <2>2. PICK s \in InOrder(results) : v = IF c = "set" THEN Inserted(e, s) ELSE s
    BY <1>1 DEF ReadItems
  <2>3. DOMAIN s = 1 .. n /\ \A k \in 1 .. n : s[k] \in item[t[2][k]]
    <3>1. DOMAIN results = 1 .. n /\ \A k \in 1 .. n : results[k] = item[t[2][k]]
      BY <1>0, <2>1
    <3> HIDE DEF results
    <3> QED
      BY <3>1, InOrderReturns
  <2>4. c = "set" /\ e = "log" => \A j, k \in DOMAIN s : s[j].name = s[k].name => j = k
    <3> SUFFICES ASSUME e = "log", NEW j \in 1 .. n, NEW k \in 1 .. n, s[j].name = s[k].name
                 PROVE  j = k
      BY <2>3
    <3>1. ASSUME NEW i \in 1 .. n PROVE s[i].name \in Given(t[2][i], "name")
      <4>1. s[i] \in ReadLog(t[2][i])
        BY <1>0, <2>1, <2>3
      <4> QED
        BY <4>1, LogNamed
    <3>2. Given(t[2][j], "name") = {s[j].name} /\ Given(t[2][k], "name") = {s[k].name}
      BY <3>1, PlainGiven
    <3> QED
      BY <1>0, <1>1, <3>2 DEF FormedItems
  <2>5. CASE c = "set"
    <3>1. v = ToSet(s)
      BY <1>0, <2>2, <2>3, <2>4, <2>5, InsertedHas
    <3>2. \A k \in 1 .. n : s[k] \in v
      BY <2>3, <3>1 DEF ToSet
    <3>3. \A k \in 1 .. n : <<t[2][k], s[k]>> \in means
      BY <1>0, <2>1, <2>3, <2>5, <3>2 DEF Held
    <3>4. \A x \in v : \E k \in 1 .. n : x = s[k]
      BY <2>3, <3>1 DEF ToSet
    <3> QED
      BY <1>0, <2>5, <3>2, <3>3, <3>4 DEF MeansItems
  <2>6. CASE c = "vector"
    <3>1. v = s
      BY <2>2, <2>6
    <3>2. \A k \in 1 .. n : s[k] \in Held(c, v)
      BY <2>3, <2>6, <3>1 DEF Held
    <3>3. \A k \in 1 .. n : <<t[2][k], s[k]>> \in means
      BY <1>0, <2>1, <2>3, <3>2
    <3> QED
      BY <1>0, <2>3, <2>6, <3>1, <3>3 DEF MeansItems
  <2> QED
    BY <1>1, <2>5, <2>6
<1>2. CASE c = "map"
  <2> DEFINE results == [k \in DOMAIN t[2] |-> item[t[2][k][2]]]
             keys == [k \in DOMAIN t[2] |-> t[2][k][1]]
  <2>1. t[1] = "map" /\ \A k \in DOMAIN t[2] : t[2][k][2] \in Inside(c, t)
    BY <1>2, FormedItem
  <2>2. PICK s \in InOrder(results) : v = LastOf(keys, s)
    BY <1>2, <2>1 DEF ReadItems
  <2>3. DOMAIN s = 1 .. n /\ \A k \in 1 .. n : s[k] \in item[t[2][k][2]]
    <3>1. DOMAIN results = 1 .. n /\ \A k \in 1 .. n : results[k] = item[t[2][k][2]]
      BY <1>0
    <3> HIDE DEF results
    <3> QED
      BY <3>1, InOrderReturns
  <2>4. DOMAIN keys = 1 .. n /\ \A k \in 1 .. n : keys[k] = t[2][k][1]
    BY <1>0
  <2>5. ToSet(keys) = Keys(t)
    BY <1>0, <2>1 DEF ToSet, Keys
  <2> HIDE DEF keys
  <2>6. ASSUME NEW k \in 1 .. n
        PROVE  /\ DOMAIN v = Keys(t)
               /\ \/ <<t[2][k][2], v[t[2][k][1]]>> \in means
                  \/ \E j \in 1 .. n : j > k /\ t[2][j][1] = t[2][k][1]
    <3>1. PICK j \in 1 .. n : keys[j] = keys[k] /\ v[keys[k]] = s[j] /\ (j = k \/ j > k)
      <4>1. \E j \in 1 .. n : keys[j] = keys[k] /\ LastOf(keys, s)[keys[k]] = s[j] /\ (j = k \/ j > k)
        <5>1. LongAs(n, keys, s)
          BY <1>0, <2>3, <2>4 DEF LongAs
        <5> QED
          BY <5>1, LastHas
      <4> QED
        BY <2>2, <4>1
    <3>2. DOMAIN v = Keys(t)
      BY <2>2, <2>5 DEF LastOf
    <3>3. CASE j = k
      <4>1. keys[k] \in DOMAIN v
        BY <2>2, <2>3, <2>4, <2>5, <3>2 DEF ToSet
      <4>2. s[k] \in Held(c, v)
        BY <1>2, <3>1, <3>3, <4>1 DEF Held
      <4>3. <<t[2][k][2], s[k]>> \in means
        BY <1>0, <2>1, <2>3, <4>2
      <4> QED
        BY <2>4, <3>1, <3>2, <3>3, <4>3
    <3>4. CASE j > k
      BY <2>4, <3>1, <3>2, <3>4
    <3> QED
      BY <3>1, <3>3, <3>4
  <2>7. DOMAIN v = Keys(t)
    BY <2>2, <2>5 DEF LastOf
  <2> QED
    BY <1>0, <1>2, <2>6, <2>7 DEF MeansItems
<1> QED
  BY <1>1, <1>2

\* A formed text converts at every level, and means what it converts to.
LEMMA FormedRead ==
  ASSUME NEW E \in VarTypes, NEW t, Formed(E, t)
  PROVE  Read(E, t) # {} /\ \A v \in Read(E, t) : Means(E, t, v)
<1> DEFINE m == Len(E)
           part == Parts(E, t)
           read == Reads(E, t)
<1>1. Levelled(E, m) /\ m \in Nat \ {0} /\ DOMAIN E = 1 .. m /\ 1 \in 1 .. m /\ m \in 1 .. m
  BY TypeWords DEF Levelled
<1>a. \A n \in DOMAIN E : \A x \in part[n] :
        IF n = m THEN FormedBase(E[n], x) ELSE FormedItems(E[n], E[n + 1], x)
  BY DEF Formed
<1>b. /\ \A x \in part[m] : FormedBase(E[m], x)
      /\ \A n \in 1 .. m : n # m => \A x \in part[n] : FormedItems(E[n], E[n + 1], x)
  <2> HIDE DEF part, m
  <2> QED
    BY <1>1, <1>a
<1>c. /\ \A x \in part[m] : read[m][x] = ReadBase(E[m], x)
      /\ \A n \in 1 .. m : n # m =>
           \A x \in part[n] : read[n][x] = ReadItems(E[n], E[n + 1], x, read[n + 1])
  <2>1. \A x \in Parts(E, t)[m] : Reads(E, t)[m][x] = ReadBase(E[m], x)
    <3> HIDE DEF m
    <3> QED
      BY <1>1, ReadsDef
  <2>2. \A n \in 1 .. m : n # m =>
          \A x \in Parts(E, t)[n] : Reads(E, t)[n][x] = ReadItems(E[n], E[n + 1], x, Reads(E, t)[n + 1])
    <3> HIDE DEF m
    <3> QED
      BY <1>1, ReadsDef
  <2> QED
    BY <2>1, <2>2
<1>d. E[m] \in {"int", "string", "appender", "log"}
  BY TypeWords
<1>2. /\ \A x \in part[m] : FormedBase(E[m], x) /\ read[m][x] = ReadBase(E[m], x)
      /\ E[m] \in {"int", "string", "appender", "log"}
  <2> HIDE DEF part, read, m
  <2> QED
    BY <1>b, <1>c, <1>d
<1>3. ASSUME NEW n \in 1 .. m, n # m
      PROVE  /\ n + 1 \in 1 .. m
             /\ E[n] \in {"vector", "set", "map"}
             /\ \A x \in part[n] : /\ FormedItems(E[n], E[n + 1], x)
                                  /\ read[n][x] = ReadItems(E[n], E[n + 1], x, read[n + 1])
                                  /\ Inside(E[n], x) \subseteq part[n + 1]
  <2>1. n + 1 \in 1 .. m /\ n + 1 # 1 /\ (n + 1) - 1 = n
    <3> HIDE DEF m
    <3> QED
      BY <1>1, <1>3
  <2>2. \A x \in part[n] : Inside(E[n], x) \subseteq part[n + 1]
    <3>1. part[n + 1] = UNION {Inside(E[(n + 1) - 1], x) : x \in part[(n + 1) - 1]}
      BY <1>1, <2>1, PartsDef
    <3> HIDE DEF part
    <3> QED
      BY <2>1, <3>1
  <2>3. \A x \in part[n] : FormedItems(E[n], E[n + 1], x)
    BY <1>3, <1>b
  <2>4. \A x \in part[n] : read[n][x] = ReadItems(E[n], E[n + 1], x, read[n + 1])
    <3> HIDE DEF m, part, read
    <3> QED
      BY <1>3, <1>c
  <2>5. E[n] \in {"vector", "set", "map"}
    BY <1>3, TypeWords
  <2> QED
    BY <2>1, <2>2, <2>3, <2>4, <2>5
<1> DEFINE Converts == {n \in 1 .. m : \A x \in part[n] : read[n][x] # {}}
<1>4. m \in Converts
  <2>1. ASSUME NEW x \in part[m] PROVE read[m][x] # {}
    BY <1>2, BaseRead
  <2> HIDE DEF m, part, read
  <2> QED
    BY <1>1, <2>1
<1>5. ASSUME NEW n \in 1 .. m, n # m, n + 1 \in Converts PROVE n \in Converts
  <2> SUFFICES ASSUME NEW x \in part[n] PROVE read[n][x] # {}
    BY <1>5
  <2>1. \A y \in Inside(E[n], x) : read[n + 1][y] # {}
    BY <1>3, <1>5
  <2>2. /\ E[n] \in {"vector", "set", "map"} /\ FormedItems(E[n], E[n + 1], x)
        /\ read[n][x] = ReadItems(E[n], E[n + 1], x, read[n + 1])
    BY <1>3, <1>5
  <2> HIDE DEF m, part, read
  <2> QED
    BY <2>1, <2>2, ItemsRead
<1>6. 1 \in Converts
  <2> HIDE DEF Converts, m
  <2> QED
    BY <1>1, <1>4, <1>5, Outwards
<1>7. part[1] = {t}
  BY <1>1, PartsDef
<1>8. Read(E, t) # {}
  BY <1>6, <1>7 DEF Read
<1>9. ASSUME NEW v \in Read(E, t) PROVE Means(E, t, v)
  <2> DEFINE value == Values(E, v)
             meant == Meant(E, t, v)
             Agrees == {n \in 1 .. m : \A x \in part[n] : \A w \in read[n][x] \cap value[n] : <<x, w>> \in meant[n]}
  <2>1. m \in Agrees
    <3> SUFFICES ASSUME NEW x \in part[m], NEW w \in read[m][x] \cap value[m]
                 PROVE  <<x, w>> \in meant[m]
      BY <1>1
    <3>1. MeansBase(E[m], x, w)
      BY <1>2, BaseRead
    <3>2. <<x, w>> \in part[m] \X value[m] /\ <<x, w>>[1] = x /\ <<x, w>>[2] = w
      OBVIOUS
    <3> HIDE DEF part, value, meant
    <3> QED
      BY <1>1, <3>1, <3>2, MeantDef DEF part, value, meant
  <2>2. ASSUME NEW n \in 1 .. m, n # m, n + 1 \in Agrees PROVE n \in Agrees
    <3> SUFFICES ASSUME NEW x \in part[n], NEW w \in read[n][x] \cap value[n]
                 PROVE  <<x, w>> \in meant[n]
      BY <2>2
    <3>1. Held(E[n], w) \subseteq value[n + 1]
      <4>1. n + 1 \in 1 .. m /\ n + 1 # 1 /\ (n + 1) - 1 = n
        BY <1>1, <2>2
      <4> QED
        BY <1>1, <4>1, ValuesDef
    <3>2. \A y \in Inside(E[n], x) : \A u \in read[n + 1][y] \cap Held(E[n], w) : <<y, u>> \in meant[n + 1]
      BY <1>3, <2>2, <3>1
    <3>3. E[n + 1] = "log" => \A y \in Inside(E[n], x) : read[n + 1][y] = ReadLog(y)
      <4> SUFFICES ASSUME E[n + 1] = "log", NEW y \in Inside(E[n], x) PROVE read[n + 1][y] = ReadLog(y)
        OBVIOUS
      <4>1. n + 1 = m
        BY <1>3, <2>2, TypeWords
      <4> QED
        BY <1>2, <1>3, <2>2, <4>1 DEF ReadBase
    <3>4. w \in ReadItems(E[n], E[n + 1], x, read[n + 1])
      BY <1>3, <2>2
    <3>5. MeansItems(E[n], x, w, meant[n + 1])
      BY <1>3, <2>2, <3>2, <3>3, <3>4, ItemsMean
    <3>6. <<x, w>> \in part[n] \X value[n] /\ <<x, w>>[1] = x /\ <<x, w>>[2] = w
      OBVIOUS
    <3> HIDE DEF part, value, meant
    <3> QED
      BY <1>1, <2>2, <3>5, <3>6, MeantDef DEF part, value, meant
  <2>3. 1 \in Agrees
    <3> HIDE DEF Agrees, m
    <3> QED
      BY <1>1, <2>1, <2>2, Outwards
  <2>4. v \in value[1] /\ v \in read[1][t]
    BY <1>1, <1>9, ValuesDef DEF Read
  <2> QED
    BY <1>7, <2>3, <2>4 DEF Means
<1> QED
  BY <1>8, <1>9

\* What fromString was given last and what it returned and stored.
LastRead ==
  /\ TypeKnown
  /\ text = None \/ Read(T, text) = {} \/ (ok /\ val \in Read(T, text))

LEMMA LastReadStays == Spec => []LastRead
<1>1. Init => LastRead
  BY DEF Init, LastRead, TypeKnown
<1>2. ASSUME LastRead, [Next]_vars PROVE LastRead'
  <2>1. ASSUME NEW t, FromString(t) PROVE LastRead'
    BY <1>2, <2>1 DEF FromString, LastRead, TypeKnown
  <2>2. CASE ToText
    BY <1>2, <2>2 DEF ToText, LastRead, TypeKnown
  <2>3. CASE UNCHANGED vars
    BY <1>2, <2>3 DEF vars, LastRead, TypeKnown
  <2> QED
    BY <1>2, <2>1, <2>2, <2>3 DEF Next, Load, Restore
<1> QED
  BY <1>1, <1>2, PTL DEF Spec

\* The empty text is formed for no type.
LEMMA NoneUnformed ==
  ASSUME NEW E \in VarTypes
  PROVE  ~Formed(E, None)
<1> SUFFICES ASSUME Formed(E, None) PROVE FALSE
  OBVIOUS
<1>1. Levelled(E, Len(E)) /\ 1 \in DOMAIN E /\ 1 \in 1 .. Len(E)
  BY TypeWords DEF Levelled
<1>2. IF 1 = Len(E) THEN FormedBase(E[1], None) ELSE FormedItems(E[1], E[1 + 1], None)
  <2>1. \A x \in Parts(E, None)[1] :
          IF 1 = Len(E) THEN FormedBase(E[1], x) ELSE FormedItems(E[1], E[1 + 1], x)
    BY <1>1 DEF Formed
  <2>2. Parts(E, None)[1] = {None}
    BY <1>1, PartsDef
  <2> QED
    BY <2>1, <2>2
<1>3. None[1] = "none" /\ Keys(None) = {}
  BY DEF None, Keys
<1>4. CASE 1 = Len(E)
  <2>1. E[1] \in {"int", "string", "appender", "log"} /\ FormedBase(E[1], None)
    BY <1>2, <1>4, TypeWords
  <2> QED
    BY <1>3, <2>1 DEF FormedBase, FormedAppender
<1>5. CASE 1 # Len(E)
  BY <1>2, <1>3, <1>5 DEF FormedItems
<1> QED
  BY <1>4, <1>5

(* A text in the form its type calls for converts, and the variable has    *)
(* exactly what it says, for containers in containers of any depth and     *)
(* definitions of loggers, whatever was read or printed before             *)
(* (LexicalCast, config.hpp:43-223 and log.cpp:487-554).                   *)
THEOREM TakenAsWritten == Spec => []ReadsAsWritten
<1>1. LastRead => ReadsAsWritten
  <2> SUFFICES ASSUME LastRead, Formed(T, text) PROVE ok /\ Means(T, text, val)
    BY DEF ReadsAsWritten
  <2>1. T \in VarTypes
    BY DEF LastRead, TypeKnown
  <2>2. text # None /\ Read(T, text) # {}
    BY <2>1, NoneUnformed, FormedRead
  <2> QED
    BY <2>1, <2>2, FormedRead DEF LastRead
<1> QED
  BY <1>1, LastReadStays, PTL

----------------------------------------------------------------------------
(* RoundTrip: what a value of a flat type is printed as reads as that value *)
(* and nothing else.                                                        *)

\* A container of integers, or a vector of strings.
Flat(E) == Len(E) = 2 /\ (E[2] = "int" \/ E = <<"vector", "string">>)

\* The texts of items are lists.
Listed(t) == t[1] \in {"seq", "map"} => t[2] \in Seq(ToSet(t[2]))

\* The conversions of a flat type, both ways.
LEMMA FlatReads ==
  ASSUME NEW E \in VarTypes, Len(E) = 2, NEW t
  PROVE  \E item : /\ Read(E, t) = ReadItems(E[1], E[2], t, item)
                   /\ \A y \in Inside(E[1], t) : item[y] = ReadBase(E[2], y)
<1>1. Levelled(E, 2) /\ 1 \in 1 .. 2 /\ 2 \in 1 .. 2 /\ 1 # 2 /\ 2 # 1 /\ 1 + 1 = 2 /\ 2 - 1 = 1
  BY TypeWords
<1>2. Parts(E, t)[1] = {t} /\ Parts(E, t)[2] = Inside(E[1], t)
  <2>1. Parts(E, t)[2] = UNION {Inside(E[2 - 1], x) : x \in Parts(E, t)[2 - 1]}
    BY <1>1, PartsDef
  <2>2. Parts(E, t)[1] = {t}
    BY <1>1, PartsDef
  <2> QED
    BY <1>1, <2>1, <2>2
<1>3. \A y \in Inside(E[1], t) : Reads(E, t)[2][y] = ReadBase(E[2], y)
  BY <1>1, <1>2, ReadsDef
<1>4. Reads(E, t)[1][t] = ReadItems(E[1], E[1 + 1], t, Reads(E, t)[1 + 1])
  BY <1>1, <1>2, ReadsDef
<1> QED
  BY <1>1, <1>3, <1>4 DEF Read

LEMMA FlatWrites ==
  ASSUME NEW E \in VarTypes, Len(E) = 2, NEW v
  PROVE  /\ Values(E, v)[2] = Held(E[1], v)
         /\ \E printed : /\ Write(E, v) = WriteItems(E[1], v, printed)
                         /\ \A x \in Held(E[1], v) : printed[x] = {WriteBase(E[2], x)}
<1>1. Levelled(E, 2) /\ 1 \in 1 .. 2 /\ 2 \in 1 .. 2 /\ 1 # 2 /\ 2 # 1 /\ 1 + 1 = 2 /\ 2 - 1 = 1
  BY TypeWords
<1>2. Values(E, v)[1] = {v} /\ Values(E, v)[2] = Held(E[1], v)
  <2>1. Values(E, v)[2] = UNION {Held(E[2 - 1], x) : x \in Values(E, v)[2 - 1]}
    BY <1>1, ValuesDef
  <2>2. Values(E, v)[1] = {v}
    BY <1>1, ValuesDef
  <2> QED
    BY <1>1, <2>1, <2>2
<1>3. \A x \in Held(E[1], v) : Writes(E, v)[2][x] = {WriteBase(E[2], x)}
  BY <1>1, <1>2, WritesDef
<1>4. Writes(E, v)[1][v] = WriteItems(E[1], v, Writes(E, v)[1 + 1])
  BY <1>1, <1>2, WritesDef
<1> QED
  BY <1>1, <1>2, <1>3, <1>4 DEF Write

\* An ordered conversion of items with one value each.
LEMMA InOrderOnly ==
  ASSUME NEW v, v = [k \in DOMAIN v |-> v[k]], NEW results,
         results = [k \in DOMAIN v |-> {v[k]}]
  PROVE  InOrder(results) = {v}
<1>1. {} \notin ToSet(results)
  BY DEF ToSet
<1>2. InOrder(results) = {[k \in DOMAIN results |-> CHOOSE x \in results[k] : TRUE]}
  BY <1>1 DEF InOrder
<1>3. \A k \in DOMAIN v : (CHOOSE x \in results[k] : TRUE) = v[k]
  BY Zenon
<1> QED
  BY <1>2, <1>3

\* The items of a printed list: the empty one is printed as nothing.
LEMMA NodeItems ==
  ASSUME NEW f
  PROVE  Items(Node("seq", f)) = f
<1>1. CASE f = <<>>
  BY <1>1 DEF Node, None, Items
<1>2. CASE f # <<>>
  BY <1>2 DEF Node, Items
<1> QED
  BY <1>1, <1>2

\* A set in some order: all of it.
LEMMA SetInOrder ==
  ASSUME NEW S, IsFiniteSet(S), NEW q \in SetToSeqs(S)
  PROVE  /\ Cardinality(S) \in Nat /\ q \in [1 .. Cardinality(S) -> S]
         /\ ToSet(q) = S
<1> DEFINE n == Cardinality(S)
<1>1. n \in Nat
  BY FS_CardinalityType
<1>2. q \in [1 .. n -> S] /\ \A i, j \in 1 .. n : i # j => q[i] # q[j]
  BY DEF SetToSeqs
<1> HIDE DEF n
<1>3. q \in Injection(1 .. n, S)
  BY <1>2 DEF Injection, IsInjective
<1>4. Cardinality(1 .. n) = n
  BY <1>1, FS_Interval
<1>5. q \in Surjection(1 .. n, S)
  BY <1>3, <1>4, FS_Injection DEF n
<1>6. \A x \in S : \E k \in 1 .. n : q[k] = x
  BY <1>5 DEF Surjection
<1>7. ToSet(q) = S
  BY <1>2, <1>6 DEF ToSet
<1> QED
  BY <1>1, <1>2, <1>7 DEF n

\* A container of its kind: a list, or finite.
Shaped(c, v) ==
  /\ c = "vector" => v \in Seq(ToSet(v))
  /\ c = "set" => IsFiniteSet(v)
  /\ c = "map" => IsFiniteSet(DOMAIN v) /\ v = [x \in DOMAIN v |-> v[x]]

\* f is the texts of the items of s, which read as what they are printed from.
Texts(b, f, s) ==
  /\ s = [k \in DOMAIN s |-> s[k]]
  /\ f = [k \in DOMAIN s |-> Scalar(WriteBase(b, s[k]))]
  /\ \A k \in DOMAIN s : ReadBase(b, f[k]) = {s[k]}

LEMMA PrintedTexts ==
  ASSUME NEW s, s = [k \in DOMAIN s |-> s[k]], NEW b, NEW printed,
         \A k \in DOMAIN s : /\ printed[s[k]] = {WriteBase(b, s[k])}
                             /\ ReadBase(b, Scalar(WriteBase(b, s[k]))) = {s[k]},
         NEW r \in Printed(s, printed)
  PROVE  Texts(b, [k \in DOMAIN s |-> Scalar(r[k])], s)
<1>1. \A k \in DOMAIN s : r[k] = WriteBase(b, s[k])
  BY DEF Printed
<1>2. [k \in DOMAIN s |-> Scalar(r[k])] = [k \in DOMAIN s |-> Scalar(WriteBase(b, s[k]))]
  BY <1>1
<1> QED
  BY <1>2 DEF Texts

LEMMA ListRoundTrip ==
  ASSUME NEW c \in {"vector", "set"}, NEW b, NEW f, NEW s, Texts(b, f, s),
         NEW item, \A y \in Inside(c, Node("seq", f)) : item[y] = ReadBase(b, y)
  PROVE  InOrder([k \in DOMAIN Items(Node("seq", f)) |-> item[Items(Node("seq", f))[k]]]) = {s}
<1> DEFINE t == Node("seq", f)
<1>1. Items(t) = f /\ DOMAIN f = DOMAIN s
  BY NodeItems DEF Texts
<1>2. \A k \in DOMAIN s : f[k] \in Inside(c, t)
  BY <1>1 DEF Inside, ToSet
<1>3. [k \in DOMAIN Items(t) |-> item[Items(t)[k]]] = [k \in DOMAIN s |-> {s[k]}]
  <2> HIDE DEF t
  <2>1. \A k \in DOMAIN s : item[f[k]] = {s[k]}
    BY <1>2 DEF Texts, t
  <2> QED
    BY <1>1, <2>1
<1>4. s = [k \in DOMAIN s |-> s[k]]
  BY DEF Texts
<1> HIDE DEF t
<1>5. InOrder([k \in DOMAIN Items(t) |-> item[Items(t)[k]]]) = {s}
  BY <1>3, <1>4, InOrderOnly
<1> QED
  BY <1>5 DEF t

LEMMA MapRoundTrip ==
  ASSUME NEW b, NEW v, Shaped("map", v), NEW q \in SetToSeqs(DOMAIN v),
         NEW f, Texts(b, f, [k \in DOMAIN q |-> v[q[k]]]),
         NEW item, \A y \in Inside("map", Node("map", [k \in DOMAIN q |-> <<q[k], f[k]>>])) :
                     item[y] = ReadBase(b, y)
  PROVE  ReadItems("map", b, Node("map", [k \in DOMAIN q |-> <<q[k], f[k]>>]), item) = {v}
<1> DEFINE n == Cardinality(DOMAIN v)
           s == [k \in DOMAIN q |-> v[q[k]]]
           pairs == [k \in DOMAIN q |-> <<q[k], f[k]>>]
           t == Node("map", pairs)
<1>1. n \in Nat /\ q \in [1 .. n -> DOMAIN v] /\ ToSet(q) = DOMAIN v /\ v = [x \in DOMAIN v |-> v[x]]
  BY SetInOrder DEF Shaped
<1> HIDE DEF n
<1>2. DOMAIN q = 1 .. n /\ DOMAIN s = 1 .. n /\ DOMAIN pairs = 1 .. n
  BY <1>1
<1>3. \A k \in 1 .. n : pairs[k][1] = q[k] /\ pairs[k][2] = f[k] /\ s[k] = v[q[k]]
  BY <1>2
<1>4. \A k \in 1 .. n : ReadBase(b, f[k]) = {s[k]}
  BY <1>2 DEF Texts
<1>5. s = [k \in DOMAIN s |-> s[k]]
  OBVIOUS
<1>6. CASE pairs = <<>>
  <2>1. DOMAIN q = {}
    BY <1>6
  <2>2. DOMAIN v = {}
    BY <1>1, <2>1 DEF ToSet
  <2>3. v = <<>>
    BY <1>1, <2>2
  <2>4. t = None
    BY <1>6 DEF Node
  <2>5. t[1] # "map" /\ Items(t) = <<>>
    BY <2>4 DEF None, Items
  <2>6. ReadItems("map", b, t, item) = {<<>>}
    <3> HIDE DEF t
    <3> QED
      BY <2>5 DEF ReadItems
  <2> QED
    BY <2>3, <2>6
<1>7. CASE pairs # <<>>
  <2>1. t[1] = "map" /\ t[2] = pairs
    BY <1>7 DEF Node
  <2>2. \A y \in Inside("map", t) : item[y] = ReadBase(b, y)
    OBVIOUS
  <2> HIDE DEF pairs, s, t
  <2> DEFINE results == [k \in DOMAIN t[2] |-> item[t[2][k][2]]]
             keys == [k \in DOMAIN t[2] |-> t[2][k][1]]
  <2>3. \A k \in 1 .. n : f[k] \in Inside("map", t)
    BY <1>2, <1>3, <2>1 DEF Inside
  <2>4. \A k \in 1 .. n : item[f[k]] = {s[k]}
    BY <1>4, <2>2, <2>3
  <2>5. results = [k \in DOMAIN s |-> {s[k]}]
    BY <1>2, <1>3, <2>1, <2>4
  <2>6. keys = q
    BY <1>1, <1>2, <1>3, <2>1
  <2>7. InOrder(results) = {s}
    BY <1>5, <2>5, InOrderOnly
  <2>8. ReadItems("map", b, t, item) = {LastOf(keys, z) : z \in InOrder(results)}
    BY <2>1 DEF ReadItems
  <2> HIDE DEF results, keys
  <2>9. LastOf(q, s) = v
    <3>1. LastOf(q, s) = [x \in DOMAIN v |-> LastOf(q, s)[x]]
      BY <1>1 DEF LastOf
    <3>2. ASSUME NEW x \in DOMAIN v PROVE LastOf(q, s)[x] = v[x]
      <4>1. PICK k \in 1 .. n : q[k] = x
        BY <1>1, <1>2 DEF ToSet
      <4>2. LongAs(n, q, s)
        BY <1>1, <1>2 DEF LongAs
      <4>3. PICK j \in 1 .. n : q[j] = q[k] /\ LastOf(q, s)[q[k]] = s[j]
        BY <4>2, LastHas
      <4> QED
        BY <1>3, <4>1, <4>3
    <3> QED
      BY <1>1, <3>1, <3>2
  <2>10. ReadItems("map", b, t, item) = {v}
    BY <2>6, <2>7, <2>8, <2>9
  <2> QED
    BY <2>10 DEF t, pairs
<1> QED
  BY <1>6, <1>7

\* A container of items that read as what they are printed from.
LEMMA ItemsRoundTrip ==
  ASSUME NEW c \in {"vector", "set", "map"}, NEW b, b # "log", NEW v, Shaped(c, v),
         NEW printed,
         \A x \in Held(c, v) : /\ printed[x] = {WriteBase(b, x)}
                               /\ ReadBase(b, Scalar(WriteBase(b, x))) = {x},
         NEW t \in WriteItems(c, v, printed),
         NEW item, \A y \in Inside(c, t) : item[y] = ReadBase(b, y)
  PROVE  ReadItems(c, b, t, item) = {v}
<1> DEFINE Back(s) == \A k \in DOMAIN s : /\ printed[s[k]] = {WriteBase(b, s[k])}
                                          /\ ReadBase(b, Scalar(WriteBase(b, s[k]))) = {s[k]}
           Row(s, r) == [k \in DOMAIN s |-> Scalar(r[k])]
           read == InOrder([k \in DOMAIN Items(t) |-> item[Items(t)[k]]])
<1>1. ASSUME NEW s, s = [k \in DOMAIN s |-> s[k]], NEW r \in Printed(s, printed),
             \A k \in DOMAIN s : s[k] \in Held(c, v)
      PROVE  Texts(b, Row(s, r), s)
  BY <1>1, PrintedTexts
<1>2. CASE c = "vector"
  <2>1. PICK r \in Printed(v, printed) : t = Node("seq", Row(v, r))
    BY <1>2 DEF WriteItems
  <2>2. v = [k \in DOMAIN v |-> v[k]] /\ \A k \in DOMAIN v : v[k] \in Held(c, v)
    BY <1>2 DEF Shaped, Held
  <2>3. Texts(b, Row(v, r), v)
    BY <1>1, <2>2
  <2> DEFINE row == Row(v, r)
  <2> HIDE DEF row
  <2>4. read = {v}
    BY <1>2, <2>1, <2>3, ListRoundTrip DEF row
  <2> QED
    BY <1>2, <2>4 DEF ReadItems
<1>3. CASE c = "set"
  <2>1. PICK q \in SetToSeqs(v) : \E r \in Printed(q, printed) : t = Node("seq", Row(q, r))
    BY <1>3 DEF WriteItems
  <2>2. PICK r \in Printed(q, printed) : t = Node("seq", Row(q, r))
    BY <2>1
  <2>3. Cardinality(v) \in Nat /\ q \in [1 .. Cardinality(v) -> v] /\ ToSet(q) = v
    BY <1>3, SetInOrder DEF Shaped
  <2>4. DOMAIN q = 1 .. Cardinality(v) /\ q = [k \in DOMAIN q |-> q[k]]
    BY <2>3
  <2>5. Texts(b, Row(q, r), q)
    BY <1>1, <1>3, <2>3, <2>4 DEF Held
  <2>6. read = {q}
    BY <1>3, <2>2, <2>5, ListRoundTrip
  <2>7. Inserted(b, q) = v
    BY <2>3, <2>4, InsertedHas
  <2>8. ReadItems(c, b, t, item) = {Inserted(b, z) : z \in read}
    BY <1>3 DEF ReadItems
  <2> HIDE DEF read
  <2> QED
    BY <2>6, <2>7, <2>8
<1>4. CASE c = "map"
  <2> DEFINE Of(q) == [k \in DOMAIN q |-> v[q[k]]]
             Pairs(q, r) == [k \in DOMAIN q |-> <<q[k], Scalar(r[k])>>]
  <2>1. PICK q \in SetToSeqs(DOMAIN v) : \E r \in Printed(Of(q), printed) : t = Node("map", Pairs(q, r))
    <3>1. t \in UNION {{Node("map", Pairs(q, r)) : r \in Printed(Of(q), printed)} : q \in SetToSeqs(DOMAIN v)}
      BY <1>4 DEF WriteItems
    <3> HIDE DEF Of, Pairs
    <3> QED
      BY <3>1
  <2>2. PICK r \in Printed(Of(q), printed) : t = Node("map", Pairs(q, r))
    BY <2>1
  <2>3. \A k \in DOMAIN Of(q) : Of(q)[k] \in Held(c, v)
    <3>1. \A k \in DOMAIN q : q[k] \in DOMAIN v
      BY DEF SetToSeqs
    <3> QED
      BY <1>4, <3>1 DEF Held
  <2>4. Texts(b, Row(Of(q), r), Of(q))
    <3>1. Of(q) = [k \in DOMAIN Of(q) |-> Of(q)[k]]
      OBVIOUS
    <3> HIDE DEF Of, Row
    <3> QED
      BY <1>1, <2>3, <3>1
  <2> DEFINE f == Row(Of(q), r)
  <2>5. Pairs(q, r) = [k \in DOMAIN q |-> <<q[k], f[k]>>]
    OBVIOUS
  <2> HIDE DEF f
  <2>6. /\ Texts(b, f, [k \in DOMAIN q |-> v[q[k]]]) /\ Shaped("map", v)
        /\ t = Node("map", [k \in DOMAIN q |-> <<q[k], f[k]>>])
        /\ \A y \in Inside("map", t) : item[y] = ReadBase(b, y)
    BY <1>4, <2>2, <2>4, <2>5 DEF f
  <2>7. ReadItems("map", b, t, item) = {v}
    BY <2>6, MapRoundTrip
  <2> QED
    BY <1>4, <2>7
<1> QED
  BY <1>2, <1>3, <1>4

\* What a container converts to is one of its kind, and of items that convert.
LEMMA ItemsShaped ==
  ASSUME NEW c \in {"vector", "set", "map"}, NEW e, NEW t, Listed(t), NEW item,
         NEW v \in ReadItems(c, e, t, item)
  PROVE  Shaped(c, v) /\ \A x \in Held(c, v) : \E y \in Inside(c, t) : x \in item[y]
<1>1. ASSUME NEW n \in Nat, NEW s, DOMAIN s = 1 .. n PROVE IsFiniteSet(ToSet(s))
  <2> DEFINE f == [k \in 1 .. n |-> s[k]]
  <2>2. f \in Surjection(1 .. n, ToSet(s))
    BY <1>1 DEF Surjection, ToSet
  <2>3. IsFiniteSet(1 .. n)
    BY FS_Interval
  <2> QED
    BY <2>2, <2>3, FS_Surjection
<1>2. CASE c # "map"
  <2> DEFINE results == [k \in DOMAIN Items(t) |-> item[Items(t)[k]]]
  <2>1. PICK n \in Nat : DOMAIN Items(t) = 1 .. n
    <3>1. CASE t[1] \in {"seq", "map"}
      <4>1. t[2] \in Seq(ToSet(t[2]))
        BY <3>1 DEF Listed
      <4>2. DOMAIN t[2] = 1 .. Len(t[2]) /\ Len(t[2]) \in Nat
        BY <4>1
      <4>3. DOMAIN Items(t) = DOMAIN t[2]
        BY <3>1 DEF Items
      <4> QED
        BY <4>2, <4>3
    <3>2. CASE t[1] \notin {"seq", "map"}
      <4>1. Items(t) = <<>>
        BY <3>2 DEF Items
      <4>2. DOMAIN Items(t) = 1 .. 0
        BY <4>1
      <4> QED
        BY <4>2
    <3> QED
      BY <3>1, <3>2
  <2>2. \A k \in 1 .. n : Items(t)[k] \in Inside(c, t)
    BY <1>2, <2>1 DEF Inside, ToSet
  <2>3. PICK s \in InOrder(results) : v = IF c = "set" THEN Inserted(e, s) ELSE s
    BY <1>2 DEF ReadItems
  <2>4. /\ s = [k \in 1 .. n |-> s[k]] /\ DOMAIN s = 1 .. n
        /\ \A k \in 1 .. n : s[k] \in item[Items(t)[k]]
    <3>1. DOMAIN results = 1 .. n /\ \A k \in 1 .. n : results[k] = item[Items(t)[k]]
      BY <2>1
    <3> HIDE DEF results
    <3> QED
      BY <3>1, InOrderReturns
  <2>5. Inserted(e, s) \subseteq ToSet(s)
    BY DEF Inserted, ToSet
  <2>6. \A x \in ToSet(s) : \E y \in Inside(c, t) : x \in item[y]
    BY <2>2, <2>4 DEF ToSet
  <2>7. c = "set" => IsFiniteSet(v)
    BY <1>1, <2>3, <2>4, <2>5, FS_Subset
  <2>8. c = "vector" => v \in Seq(ToSet(v))
    <3>1. s \in [1 .. n -> ToSet(s)]
      BY <2>4 DEF ToSet
    <3>2. s \in Seq(ToSet(s))
      BY <3>1
    <3> QED
      BY <2>3, <3>2
  <2>9. Held(c, v) \subseteq ToSet(s)
    BY <1>2, <2>3, <2>5 DEF Held, ToSet
  <2> QED
    BY <1>2, <2>6, <2>7, <2>8, <2>9 DEF Shaped
<1>3. CASE c = "map" /\ t[1] # "map"
  <2>1. v = <<>>
    BY <1>3 DEF ReadItems
  <2>2. DOMAIN v = {}
    BY <2>1
  <2>3. v = [x \in DOMAIN v |-> v[x]]
    BY <2>1, <2>2
  <2>4. Held(c, v) = {}
    BY <1>3, <2>2 DEF Held
  <2> QED
    BY <1>3, <2>2, <2>3, <2>4, FS_EmptySet DEF Shaped
<1>4. CASE c = "map" /\ t[1] = "map"
  <2> DEFINE results == [k \in DOMAIN t[2] |-> item[t[2][k][2]]]
             keys == [k \in DOMAIN t[2] |-> t[2][k][1]]
             n == Len(t[2])
  <2>1. n \in Nat /\ DOMAIN t[2] = 1 .. n
    <3>1. t[2] \in Seq(ToSet(t[2]))
      BY <1>4 DEF Listed
    <3> QED
      BY <3>1
  <2> HIDE DEF n
  <2>2. \A k \in 1 .. n : t[2][k][2] \in Inside(c, t)
    BY <1>4, <2>1 DEF Inside
  <2>3. PICK s \in InOrder(results) : v = LastOf(keys, s)
    BY <1>4 DEF ReadItems
  <2>4. DOMAIN s = 1 .. n /\ \A k \in 1 .. n : s[k] \in item[t[2][k][2]]
    <3>1. DOMAIN results = 1 .. n /\ \A k \in 1 .. n : results[k] = item[t[2][k][2]]
      BY <2>1
    <3> HIDE DEF results
    <3> QED
      BY <3>1, InOrderReturns
  <2>5. LongAs(n, keys, s)
    BY <2>1, <2>4 DEF LongAs
  <2>6. DOMAIN keys = 1 .. n
    BY <2>1
  <2> HIDE DEF keys
  <2>7. DOMAIN v = ToSet(keys) /\ v = [x \in DOMAIN v |-> v[x]]
    BY <2>3 DEF LastOf
  <2>8. IsFiniteSet(DOMAIN v)
    BY <1>1, <2>1, <2>6, <2>7
  <2>9. ASSUME NEW x \in Held(c, v) PROVE \E y \in Inside(c, t) : x \in item[y]
    <3>1. PICK z \in DOMAIN v : x = v[z]
      BY <1>4, <2>9 DEF Held
    <3>2. PICK k \in 1 .. n : keys[k] = z
      BY <2>6, <2>7, <3>1 DEF ToSet
    <3>3. PICK j \in 1 .. n : LastOf(keys, s)[keys[k]] = s[j]
      BY <2>5, LastHas
    <3>4. x = s[j]
      BY <2>3, <3>1, <3>2, <3>3
    <3> QED
      BY <2>2, <2>4, <3>4
  <2> QED
    BY <1>4, <2>7, <2>8, <2>9 DEF Shaped
<1> QED
  BY <1>2, <1>3, <1>4

\* What a container is printed as is a list.
LEMMA WrittenListed ==
  ASSUME NEW c \in {"vector", "set", "map"}, NEW v, Shaped(c, v), NEW printed,
         NEW t \in WriteItems(c, v, printed)
  PROVE  Listed(t)
<1>1. ASSUME NEW kind, NEW n \in Nat, NEW f, f = [k \in 1 .. n |-> f[k]], t = Node(kind, f)
      PROVE  Listed(t)
  <2>1. CASE f = <<>>
    BY <1>1, <2>1 DEF Node, None, Listed
  <2>2. CASE f # <<>>
    <3>1. t[2] = f
      BY <1>1, <2>2 DEF Node
    <3>2. f \in [1 .. n -> ToSet(f)]
      BY <1>1 DEF ToSet
    <3>3. f \in Seq(ToSet(f))
      BY <3>2
    <3> QED
      BY <3>1, <3>3 DEF Listed
  <2> QED
    BY <2>1, <2>2
<1>2. ASSUME NEW n \in Nat, NEW s, DOMAIN s = 1 .. n, NEW r, t = Node("seq", [k \in DOMAIN s |-> Scalar(r[k])])
      PROVE  Listed(t)
  <2> DEFINE f == [k \in DOMAIN s |-> Scalar(r[k])]
  <2>1. f = [k \in 1 .. n |-> f[k]]
    BY <1>2
  <2> HIDE DEF f
  <2> QED
    BY <1>1, <1>2, <2>1 DEF f
<1>3. CASE c = "vector"
  <2>1. PICK r \in Printed(v, printed) : t = Node("seq", [k \in DOMAIN v |-> Scalar(r[k])])
    BY <1>3 DEF WriteItems
  <2>2. v \in Seq(ToSet(v))
    BY <1>3 DEF Shaped
  <2>3. DOMAIN v = 1 .. Len(v) /\ Len(v) \in Nat
    BY <2>2
  <2> QED
    BY <1>2, <2>1, <2>3
<1>4. CASE c = "set"
  <2>1. PICK q \in SetToSeqs(v) : \E r \in Printed(q, printed) : t = Node("seq", [k \in DOMAIN q |-> Scalar(r[k])])
    BY <1>4 DEF WriteItems
  <2>2. DOMAIN q = 1 .. Cardinality(v) /\ Cardinality(v) \in Nat
    BY <1>4, SetInOrder DEF Shaped
  <2> QED
    BY <1>2, <2>1, <2>2
<1>5. CASE c = "map"
  <2> DEFINE Of(q) == [k \in DOMAIN q |-> v[q[k]]]
             Pairs(q, r) == [k \in DOMAIN q |-> <<q[k], Scalar(r[k])>>]
  <2>1. PICK q \in SetToSeqs(DOMAIN v) : \E r \in Printed(Of(q), printed) : t = Node("map", Pairs(q, r))
    <3>1. t \in UNION {{Node("map", Pairs(q, r)) : r \in Printed(Of(q), printed)} : q \in SetToSeqs(DOMAIN v)}
      BY <1>5 DEF WriteItems
    <3> HIDE DEF Of, Pairs
    <3> QED
      BY <3>1
  <2>2. PICK r \in Printed(Of(q), printed) : t = Node("map", Pairs(q, r))
    BY <2>1
  <2>3. DOMAIN q = 1 .. Cardinality(DOMAIN v) /\ Cardinality(DOMAIN v) \in Nat
    BY <1>5, SetInOrder DEF Shaped
  <2> DEFINE f == Pairs(q, r)
             n == Cardinality(DOMAIN v)
  <2>4. f = [k \in 1 .. n |-> f[k]]
    BY <2>3
  <2> HIDE DEF f
  <2> QED
    BY <1>1, <2>2, <2>3, <2>4 DEF f
<1> QED
  BY <1>3, <1>4, <1>5

\* The types toString writes down for good.
Kept(E) == E \in {<<"int">>, <<"string">>} \/ Flat(E)

\* A type without containers.
LEMMA BareType ==
  ASSUME NEW E \in VarTypes, E \in {<<"int">>, <<"string">>}, NEW v, NEW t
  PROVE  /\ Len(E) = 1 /\ E[1] \in {"int", "string"}
         /\ Values(E, v)[1] = {v} /\ Write(E, v) = {WriteBase(E[1], v)} /\ Read(E, t) = ReadBase(E[1], t)
<1>1. Len(E) = 1 /\ E[1] \in {"int", "string"}
  OBVIOUS
<1>2. Levelled(E, 1) /\ 1 \in 1 .. 1
  BY <1>1, TypeWords
<1>3. Values(E, v)[1] = {v}
  BY <1>2, ValuesDef
<1>4. Writes(E, v)[1][v] = {WriteBase(E[1], v)}
  BY <1>2, <1>3, WritesDef
<1>5. Parts(E, t)[1] = {t}
  BY <1>2, PartsDef
<1>6. Reads(E, t)[1][t] = ReadBase(E[1], t)
  BY <1>2, <1>5, ReadsDef
<1> QED
  BY <1>1, <1>3, <1>4, <1>6 DEF Write, Read

LEMMA FlatType ==
  ASSUME NEW E \in VarTypes, Flat(E), NEW v
  PROVE  /\ Len(E) = 2 /\ E[1] \in {"vector", "set", "map"} /\ E[2] \in {"int", "string"}
         /\ Fits(E, v) <=> Shaped(E[1], v) /\ (E[2] = "int" => Held(E[1], v) \subseteq Ints)
<1>1. Len(E) = 2 /\ E[2] \in {"int", "string"}
  BY DEF Flat
<1>2. E[1] \in {"vector", "set", "map"}
  <2>1. 1 \in 1 .. 2 /\ 1 # 2
    OBVIOUS
  <2> QED
    BY <1>1, <2>1, TypeWords
<1>3. Values(E, v)[Len(E)] = Held(E[1], v)
  BY <1>1, FlatWrites
<1>4. Fits(E, v) <=> Shaped(E[1], v) /\ (E[Len(E)] = "int" => Values(E, v)[Len(E)] \subseteq Ints)
  BY DEF Fits, Shaped
<1> QED
  BY <1>1, <1>2, <1>3, <1>4

\* What a text of a kept type converts to is a value of the type.
LEMMA KeptFits ==
  ASSUME NEW E \in VarTypes, Kept(E), NEW t, Flat(E) => Listed(t), NEW v \in Read(E, t)
  PROVE  Fits(E, v)
<1>1. CASE E \in {<<"int">>, <<"string">>}
  <2>1. Len(E) = 1 /\ E[1] \in {"int", "string"} /\ Values(E, v)[1] = {v} /\ v \in ReadBase(E[1], t)
    BY <1>1, BareType
  <2>2. E[1] = "int" => v \in Ints
    BY <2>1 DEF ReadBase
  <2> QED
    BY <2>1, <2>2 DEF Fits
<1>2. CASE Flat(E)
  <2>1. Len(E) = 2 /\ E[1] \in {"vector", "set", "map"}
    BY <1>2, FlatType
  <2>2. PICK item : /\ Read(E, t) = ReadItems(E[1], E[2], t, item)
                    /\ \A y \in Inside(E[1], t) : item[y] = ReadBase(E[2], y)
    BY <2>1, FlatReads
  <2>3. Shaped(E[1], v) /\ \A x \in Held(E[1], v) : \E y \in Inside(E[1], t) : x \in item[y]
    BY <1>2, <2>1, <2>2, ItemsShaped
  <2>4. \A y : ReadBase("int", y) \subseteq Ints
    BY DEF ReadBase
  <2>5. E[2] = "int" => Held(E[1], v) \subseteq Ints
    BY <2>2, <2>3, <2>4
  <2> QED
    BY <1>2, <2>3, <2>5, FlatType
<1> QED
  BY <1>1, <1>2 DEF Kept

\* What such a value is printed as is a list.
LEMMA KeptListed ==
  ASSUME NEW E \in VarTypes, Flat(E), NEW v, Fits(E, v), NEW t \in Write(E, v)
  PROVE  Listed(t)
<1>1. Len(E) = 2 /\ E[1] \in {"vector", "set", "map"} /\ Shaped(E[1], v)
  BY FlatType
<1>2. PICK printed : Write(E, v) = WriteItems(E[1], v, printed)
  BY <1>1, FlatWrites
<1> QED
  BY <1>1, <1>2, WrittenListed

\* And it reads as that value.
LEMMA KeptReturns ==
  ASSUME NEW E \in VarTypes, NEW v, Keeps(E, v), Fits(E, v), NEW t \in Write(E, v)
  PROVE  Read(E, t) = {v}
<1>1. CASE E \in {<<"int">>, <<"string">>}
  <2>1. /\ Len(E) = 1 /\ E[1] \in {"int", "string"} /\ Values(E, v)[1] = {v}
        /\ t = WriteBase(E[1], v) /\ Read(E, t) = ReadBase(E[1], t)
    BY <1>1, BareType
  <2>2. E[1] = "int" => v \in Ints
    BY <2>1 DEF Fits
  <2> QED
    BY <2>1, <2>2 DEF WriteBase, ReadBase
<1>2. CASE Flat(E)
  <2>1. /\ Len(E) = 2 /\ E[1] \in {"vector", "set", "map"} /\ E[2] \in {"int", "string"}
        /\ Shaped(E[1], v) /\ (E[2] = "int" => Held(E[1], v) \subseteq Ints)
    BY <1>2, FlatType
  <2>2. ASSUME NEW x \in Held(E[1], v) PROVE ReadBase(E[2], Scalar(WriteBase(E[2], x))) = {x}
    <3>1. CASE E[2] = "int"
      <4>1. WriteBase(E[2], x) = <<"plain", x>> /\ x \in Ints
        BY <2>1, <2>2, <3>1 DEF WriteBase
      <4>2. Scalar(<<"plain", x>>) = <<"plain", x>>
        BY DEF Scalar
      <4> QED
        BY <3>1, <4>1, <4>2 DEF ReadBase
    <3>2. CASE E[2] # "int"
      <4>1. E = <<"vector", "string">> /\ E[1] = "vector" /\ E[2] = "string"
        BY <1>2, <3>2 DEF Flat
      <4>2. \A k \in DOMAIN v : v[k][1] = "plain"
        BY <2>1, <3>2 DEF Keeps
      <4>3. x[1] = "plain"
        BY <2>2, <4>1, <4>2 DEF Held
      <4>4. Scalar(WriteBase(E[2], x)) = x
        BY <4>1, <4>3 DEF Scalar, WriteBase
      <4> QED
        BY <4>1, <4>4 DEF ReadBase
    <3> QED
      BY <3>1, <3>2
  <2>3. PICK printed : /\ Write(E, v) = WriteItems(E[1], v, printed)
                       /\ \A x \in Held(E[1], v) : printed[x] = {WriteBase(E[2], x)}
    BY <2>1, FlatWrites
  <2>4. PICK item : /\ Read(E, t) = ReadItems(E[1], E[2], t, item)
                    /\ \A y \in Inside(E[1], t) : item[y] = ReadBase(E[2], y)
    BY <2>1, FlatReads
  <2>5. E[2] # "log"
    BY <2>1
  <2> DEFINE c == E[1]
             b == E[2]
  <2> HIDE DEF c, b
  <2>6. /\ c \in {"vector", "set", "map"} /\ b # "log" /\ Shaped(c, v)
        /\ \A x \in Held(c, v) : /\ printed[x] = {WriteBase(b, x)}
                                 /\ ReadBase(b, Scalar(WriteBase(b, x))) = {x}
        /\ t \in WriteItems(c, v, printed)
        /\ \A y \in Inside(c, t) : item[y] = ReadBase(b, y)
    BY <2>1, <2>2, <2>3, <2>4, <2>5 DEF c, b
  <2>7. ReadItems(c, b, t, item) = {v}
    BY <2>6, ItemsRoundTrip
  <2> QED
    BY <2>4, <2>7 DEF c, b
<1>3. E \in {<<"int">>, <<"string">>} \/ Flat(E)
  BY DEF Keeps, Flat
<1> QED
  BY <1>1, <1>2, <1>3

\* The value, and the one printed last, are of the type; what was printed is
\* a text of that one; and fromString failed only on what does not convert.
Restores ==
  /\ TypeKnown
  /\ Kept(T) => Fits(T, val) /\ Fits(T, was)
  /\ saved \in Write(T, was)
  /\ ok \/ Read(T, text) = {}
  /\ RoundTrip

LEMMA KeepsKept ==
  ASSUME NEW E, NEW v, Keeps(E, v)
  PROVE  Kept(E)
  BY DEF Keeps, Kept, Flat

LEMMA RestoresInit == Init => Restores
<1> SUFFICES ASSUME Init PROVE Restores
  OBVIOUS
<1>1. T \in VarTypes /\ val = Default[T] /\ was = val /\ ok /\ saved \in Write(T, val)
  BY DEF Init
<1>2. Fits(T, val)
  BY <1>1, DefaultAssumption
<1> QED
  BY <1>1, <1>2 DEF Restores, TypeKnown, RoundTrip

LEMMA RestoresRead ==
  ASSUME Restores, NEW t, Flat(T) => Listed(t), FromString(t)
  PROVE  Restores'
<1>1. /\ T \in VarTypes /\ T' = T /\ saved' = saved /\ was' = was /\ text' = t
      /\ ok' = (Read(T, t) # {})
      /\ IF ok' THEN val' \in Read(T, t) ELSE val' = val
  BY DEF FromString, Restores, TypeKnown
<1>2. Kept(T) => Fits(T, val')
  <2>1. CASE Read(T, t) # {}
    BY <1>1, <2>1, KeptFits
  <2>2. CASE Read(T, t) = {}
    BY <1>1, <2>2 DEF Restores
  <2> QED
    BY <2>1, <2>2
<1>3. ASSUME t = saved, Keeps(T, was) PROVE ok' /\ val' = was
  <2>1. Fits(T, was)
    BY <1>3, KeepsKept DEF Restores
  <2>2. Read(T, t) = {was}
    BY <1>1, <1>3, <2>1, KeptReturns DEF Restores
  <2> QED
    BY <1>1, <2>2
<1>4. RoundTrip'
  BY <1>1, <1>3 DEF RoundTrip
<1>5. ok' \/ Read(T', text') = {}
  BY <1>1
<1>6. TypeKnown' /\ saved' \in Write(T', was') /\ (Kept(T') => Fits(T', val') /\ Fits(T', was'))
  BY <1>1, <1>2 DEF Restores, TypeKnown
<1> QED
  BY <1>4, <1>5, <1>6 DEF Restores

LEMMA RestoresPrint ==
  ASSUME Restores, ToText
  PROVE  Restores'
<1>1. /\ T \in VarTypes /\ T' = T /\ val' = val /\ text' = text /\ ok' = ok
      /\ was' = val /\ saved' \in Write(T, val)
  BY DEF ToText, Restores, TypeKnown
<1>2. ASSUME text = saved', Keeps(T, val) PROVE ok
  <2>1. Fits(T, val)
    BY <1>2, KeepsKept DEF Restores
  <2>2. Read(T, text) = {val}
    BY <1>1, <1>2, <2>1, KeptReturns
  <2> QED
    BY <2>2 DEF Restores
<1>3. RoundTrip'
  BY <1>1, <1>2 DEF RoundTrip
<1>4. /\ TypeKnown' /\ saved' \in Write(T', was') /\ (Kept(T') => Fits(T', val') /\ Fits(T', was'))
      /\ ok' \/ Read(T', text') = {}
  BY <1>1 DEF Restores, TypeKnown
<1> QED
  BY <1>3, <1>4 DEF Restores

(* What toString has printed, fromString reads back as the value it was    *)
(* printed from, in whatever order an unordered container was printed and  *)
(* whatever was read in between (config.hpp:66-223 and 243-267): for       *)
(* scalars, containers of integers and vectors of plain strings.           *)
THEOREM PrintedComesBack == Spec => []RoundTrip
<1>1. ASSUME Restores, [Next]_vars PROVE Restores'
  <2>1. CASE Load
    <3>1. PICK t \in Docs[T] : FromString(t)
      BY <2>1 DEF Load
    <3>2. T \in VarTypes
      BY <1>1 DEF Restores, TypeKnown
    <3>3. Listed(t)
      BY <3>2, DocsAssumption DEF Listed
    <3> QED
      BY <1>1, <3>1, <3>3, RestoresRead
  <2>2. CASE ToText
    BY <1>1, <2>2, RestoresPrint
  <2>3. CASE Restore
    <3>1. Flat(T) => Listed(saved)
      BY <1>1, KeptListed DEF Restores, TypeKnown, Kept
    <3>2. FromString(saved)
      BY <2>3 DEF Restore
    <3> QED
      BY <1>1, <3>1, <3>2, RestoresRead
  <2>4. CASE UNCHANGED vars
    BY <1>1, <2>4 DEF vars, Restores, TypeKnown, RoundTrip
  <2> QED
    BY <1>1, <2>1, <2>2, <2>3, <2>4 DEF Next
<1>2. Restores => RoundTrip
  BY DEF Restores
<1> QED
  BY RestoresInit, <1>1, <1>2, PTL DEF Spec

=============================================================================
