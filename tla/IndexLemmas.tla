---------------------------- MODULE IndexLemmas ----------------------------
(***************************************************************************)
(* Numbers and lists.  Smallest and largest members of sets of indices,    *)
(* for the definitions that look up the first or the last entry of a list; *)
(* induction over numbers and over lists, whose properties are given as    *)
(* sets; that functions can be defined by recursion; and what the          *)
(* recursively defined operators on lists do with one more item.           *)
(***************************************************************************)
EXTENDS Selections, SequencesExt, SequenceTheorems, WellFoundedInduction, TLAPS

(* A nonempty set of numbers has a smallest member. *)
LEMMA SmallestIndex ==
  ASSUME NEW S, S \subseteq Nat, S # {}
  PROVE  \E i \in S : \A j \in S : i <= j
<1> DEFINE R == OpToRel(<, Nat)
<1>1. PICK i \in S : \A j \in S : ~ (<<j, i>> \in R)
  <2> HIDE DEF R
  <2> QED  BY NatLessThanWellFounded, WFMin DEF R
<1>2. \A j \in S : ~ (j < i)
  BY <1>1 DEF OpToRel
<1> QED  BY <1>2

(* A nonempty set of numbers up to n has a largest member: n less the      *)
(* smallest distance to n.                                                  *)
LEMMA LargestIndex ==
  ASSUME NEW n \in Nat, NEW S, S \subseteq 1..n, S # {}
  PROVE  \E i \in S : \A j \in S : j <= i
<1> DEFINE D == {n - j : j \in S}
<1>1. D \subseteq Nat
  OBVIOUS
<1>2. D # {}
  <2> PICK j \in S : TRUE
    OBVIOUS
  <2>1. n - j \in D
    OBVIOUS
  <2> QED  BY <2>1
<1>3. PICK d \in D : \A e \in D : d <= e
  BY <1>1, <1>2, SmallestIndex
<1>4. PICK i \in S : d = n - i
  BY <1>3
<1>5. \A j \in S : n - i <= n - j
  <2> TAKE j \in S
  <2>1. n - j \in D
    OBVIOUS
  <2> QED  BY <2>1, <1>3, <1>4
<1> QED  BY <1>4, <1>5
-----------------------------------------------------------------------------
(* Induction, over a set of numbers. *)
LEMMA NumbersByInduction ==
  ASSUME NEW S, 0 \in S, \A n \in Nat : n \in S => n + 1 \in S
  PROVE  Nat \subseteq S
<1> SUFFICES ASSUME Nat \ S # {} PROVE FALSE
  OBVIOUS
<1>1. PICK n \in Nat \ S : \A m \in Nat \ S : n <= m
  BY SmallestIndex
<1>2. n # 0 /\ n - 1 \in Nat
  BY <1>1
<1>3. n - 1 \in S
  BY <1>1, <1>2
<1> QED  BY <1>1, <1>2, <1>3

IsRun(f, n, X, base, step) ==
  /\ f \in [0 .. n -> X]
  /\ f[0] = base
  /\ \A i \in Nat : i < n => f[i + 1] = step[i][f[i]]

Steps(X) == [Nat -> [X -> X]]

IsRecursion(f, X, base, step) ==
  /\ f \in [Nat -> X]
  /\ f[0] = base
  /\ \A n \in Nat : f[n + 1] = step[n][f[n]]

(* A function can be defined by recursion over the numbers. *)
LEMMA RecursionExists ==
  ASSUME NEW X, NEW base \in X, NEW step \in Steps(X)
  PROVE  \E f : IsRecursion(f, X, base, step)
<1> USE DEF Steps
<1> DEFINE Good == {n \in Nat : \E f : IsRun(f, n, X, base, step)}
<1>1. 0 \in Good
  <2> DEFINE f == [i \in 0 .. 0 |-> base]
  <2>1. IsRun(f, 0, X, base, step)
    BY DEF IsRun
  <2> HIDE DEF f
  <2> QED  BY <2>1
<1>2. ASSUME NEW n \in Nat, n \in Good PROVE n + 1 \in Good
  <2>1. PICK g : IsRun(g, n, X, base, step)
    BY <1>2
  <2> DEFINE f == [i \in 0 .. (n + 1) |-> IF i = n + 1 THEN step[n][g[n]] ELSE g[i]]
  <2>2. f \in [0 .. (n + 1) -> X] /\ f[0] = base
    BY <2>1 DEF IsRun
  <2>3. ASSUME NEW i \in Nat, i < n + 1 PROVE f[i + 1] = step[i][f[i]]
    <3>1. f[i] = g[i]
      BY <2>3
    <3>2. CASE i = n
      BY <3>1, <3>2
    <3>3. CASE i < n
      BY <2>1, <3>1, <3>3 DEF IsRun
    <3> QED  BY <2>3, <3>2, <3>3
  <2> HIDE DEF f
  <2>4. IsRun(f, n + 1, X, base, step)
    BY <2>2, <2>3 DEF IsRun
  <2> QED  BY <2>4
<1>3. Nat \subseteq Good
  <2> HIDE DEF Good
  <2> QED  BY <1>1, <1>2, NumbersByInduction
<1>4. ASSUME NEW m \in Nat, NEW n \in Nat, NEW f, NEW g,
             IsRun(f, m, X, base, step), IsRun(g, n, X, base, step)
      PROVE  \A i \in Nat : i <= m /\ i <= n => f[i] = g[i]
  <2> DEFINE Same == {i \in Nat : i <= m /\ i <= n => f[i] = g[i]}
  <2>1. 0 \in Same
    BY <1>4 DEF IsRun
  <2>2. ASSUME NEW i \in Nat, i \in Same PROVE i + 1 \in Same
    BY <1>4, <2>2 DEF IsRun
  <2>3. Nat \subseteq Same
    <3> HIDE DEF Same
    <3> QED  BY <2>1, <2>2, NumbersByInduction
  <2> QED  BY <2>3
<1> DEFINE run(n) == CHOOSE f : IsRun(f, n, X, base, step)
           F == [n \in Nat |-> run(n)[n]]
<1>5. \A n \in Nat : IsRun(run(n), n, X, base, step)
  BY <1>3
<1> HIDE DEF run
<1>6. F \in [Nat -> X] /\ F[0] = base
  BY <1>5 DEF IsRun
<1>7. ASSUME NEW n \in Nat PROVE F[n + 1] = step[n][F[n]]
  <2>1. run(n + 1)[n + 1] = step[n][run(n + 1)[n]]
    BY <1>5 DEF IsRun
  <2>2. run(n + 1)[n] = run(n)[n]
    BY <1>4, <1>5
  <2> QED  BY <2>1, <2>2
<1> HIDE DEF F
<1> QED  BY <1>6, <1>7 DEF IsRecursion

Selecting(f, s, places) ==
  f = [n \in 0 .. Len(s) |-> IF n = 0 THEN << >>
                             ELSE IF n \in places THEN Append(f[n - 1], s[n])
                             ELSE f[n - 1]]

LEMMA SelectionExists ==
  ASSUME NEW S, NEW s \in Seq(S), NEW places
  PROVE  \E f : Selecting(f, s, places) /\ AtPlaces(s, places) = f[Len(s)]
<1> DEFINE next(n, x) == IF n + 1 \in places /\ n + 1 \in 1 .. Len(s) THEN Append(x, s[n + 1]) ELSE x
           step == [n \in Nat |-> [x \in Seq(S) |-> next(n, x)]]
<1>1. Len(s) \in Nat /\ \A n \in 1 .. Len(s) : s[n] \in S
  BY LenProperties, ElementOfSeq
<1>2. \A n \in Nat, x \in Seq(S) : next(n, x) \in Seq(S)
  BY <1>1, AppendProperties
<1>3. step \in [Nat -> [Seq(S) -> Seq(S)]]
  <2> HIDE DEF next
  <2> QED  BY <1>2
<1>4. << >> \in Seq(S)
  BY EmptySeq
<1>5. PICK g : IsRecursion(g, Seq(S), << >>, step)
  <2>1. step \in Steps(Seq(S))
    BY <1>3 DEF Steps
  <2> HIDE DEF step
  <2> QED  BY <2>1, <1>4, RecursionExists
<1>9. /\ g \in [Nat -> Seq(S)] /\ g[0] = << >>
      /\ \A n \in Nat : g[n + 1] = step[n][g[n]]
  BY <1>5 DEF IsRecursion
<1> DEFINE f == [n \in 0 .. Len(s) |-> g[n]]
<1>6. ASSUME NEW n \in 1 .. Len(s)
      PROVE  g[n] = IF n \in places THEN Append(g[n - 1], s[n]) ELSE g[n - 1]
  <2>1. n - 1 \in Nat /\ (n - 1) + 1 = n
    BY <1>1
  <2> QED  BY <1>9, <2>1
<1>7. ASSUME NEW n \in 0 .. Len(s)
      PROVE  g[n] = IF n = 0 THEN << >>
                    ELSE IF n \in places THEN Append(f[n - 1], s[n])
                    ELSE f[n - 1]
  <2>1. CASE n = 0
    BY <1>9, <2>1
  <2>2. CASE n # 0
    <3>1. n \in 1 .. Len(s) /\ n - 1 \in 0 .. Len(s)
      BY <1>1, <2>2
    <3>2. f[n - 1] = g[n - 1]
      BY <3>1
    <3> QED  BY <1>6, <2>2, <3>1, <3>2
  <2> QED  BY <2>1, <2>2
<1>8. Selecting(f, s, places)
  BY <1>7 DEF Selecting
<1> HIDE DEF f
<1> QED  BY <1>8 DEF AtPlaces, Selecting

LEMMA SelectionSteps ==
  ASSUME NEW S, NEW s \in Seq(S), NEW places, NEW f, Selecting(f, s, places)
  PROVE  /\ f[0] = << >>
         /\ \A n \in 1 .. Len(s) :
              f[n] = IF n \in places THEN Append(f[n - 1], s[n]) ELSE f[n - 1]
         /\ \A n \in 0 .. Len(s) : f[n] \in Seq(S)
<1>1. Len(s) \in Nat /\ \A n \in 1 .. Len(s) : s[n] \in S
  BY LenProperties, ElementOfSeq
<1>2. f[0] = << >>
  BY <1>1 DEF Selecting
<1>3. \A n \in 1 .. Len(s) :
        f[n] = IF n \in places THEN Append(f[n - 1], s[n]) ELSE f[n - 1]
  <2> TAKE n \in 1 .. Len(s)
  <2>1. n \in 0 .. Len(s) /\ n # 0
    BY <1>1
  <2> QED  BY <2>1 DEF Selecting
<1> DEFINE Typed == {n \in Nat : n <= Len(s) => f[n] \in Seq(S)}
<1>4. 0 \in Typed
  BY <1>2, EmptySeq
<1>5. ASSUME NEW n \in Nat, n \in Typed PROVE n + 1 \in Typed
  <2> SUFFICES ASSUME n + 1 <= Len(s) PROVE f[n + 1] \in Seq(S)
    OBVIOUS
  <2>1. f[n] \in Seq(S) /\ n + 1 \in 1 .. Len(s) /\ (n + 1) - 1 = n
    BY <1>1, <1>5
  <2>2. s[n + 1] \in S
    BY <1>1, <2>1
  <2>3. f[n + 1] = IF n + 1 \in places THEN Append(f[n], s[n + 1]) ELSE f[n]
    BY <1>3, <2>1
  <2> QED  BY <2>1, <2>2, <2>3, AppendProperties
<1>6. Nat \subseteq Typed
  <2> HIDE DEF Typed
  <2> QED  BY <1>4, <1>5, NumbersByInduction
<1> QED  BY <1>1, <1>2, <1>3, <1>6

LEMMA SelectionType ==
  ASSUME NEW S, NEW s \in Seq(S), NEW places
  PROVE  AtPlaces(s, places) \in Seq(S)
<1>1. PICK f : Selecting(f, s, places) /\ AtPlaces(s, places) = f[Len(s)]
  BY SelectionExists
<1>2. Len(s) \in 0 .. Len(s)
  BY LenProperties
<1> QED  BY <1>1, <1>2, SelectionSteps

LEMMA SelectionOfNone ==
  ASSUME NEW places
  PROVE  AtPlaces(<< >>, places) = << >>
<1>1. << >> \in Seq({}) /\ Len(<< >>) = 0
  BY EmptySeq
<1>2. PICK f : Selecting(f, << >>, places) /\ AtPlaces(<< >>, places) = f[0]
  BY <1>1, SelectionExists
<1>3. PICK s \in Seq({}) : s = << >>
  <2> WITNESS << >> \in Seq({})
  <2> QED  BY <1>1
<1>4. Selecting(f, s, places)
  BY <1>2, <1>3
<1>5. f[0] = << >>
  BY <1>4, SelectionSteps
<1> QED  BY <1>2, <1>5

LEMMA SelectionOfOneMore ==
  ASSUME NEW S, NEW s \in Seq(S), NEW e \in S, NEW old, NEW new,
         \A n \in 1 .. Len(s) : n \in new <=> n \in old
  PROVE  AtPlaces(Append(s, e), new) =
           IF Len(s) + 1 \in new THEN Append(AtPlaces(s, old), e)
           ELSE AtPlaces(s, old)
<1> DEFINE t == Append(s, e)
<1>1. /\ t \in Seq(S) /\ Len(s) \in Nat
      /\ Len(t) = Len(s) + 1
      /\ \A n \in 1 .. Len(s) : t[n] = s[n]
      /\ t[Len(s) + 1] = e
  BY AppendProperties, LenProperties
<1> HIDE DEF t
<1>2. PICK f : Selecting(f, s, old) /\ AtPlaces(s, old) = f[Len(s)]
  BY SelectionExists
<1>3. PICK g : Selecting(g, t, new) /\ AtPlaces(t, new) = g[Len(t)]
  BY <1>1, SelectionExists
<1>4. /\ f[0] = << >>
      /\ \A n \in 1 .. Len(s) :
           f[n] = IF n \in old THEN Append(f[n - 1], s[n]) ELSE f[n - 1]
  BY <1>2, SelectionSteps
<1>5. /\ g[0] = << >>
      /\ \A n \in 1 .. Len(t) :
           g[n] = IF n \in new THEN Append(g[n - 1], t[n]) ELSE g[n - 1]
  BY <1>1, <1>3, SelectionSteps
<1> DEFINE Same == {n \in Nat : n <= Len(s) => f[n] = g[n]}
<1>6. 0 \in Same
  BY <1>4, <1>5
<1>7. ASSUME NEW n \in Nat, n \in Same PROVE n + 1 \in Same
  <2> SUFFICES ASSUME n + 1 <= Len(s) PROVE f[n + 1] = g[n + 1]
    OBVIOUS
  <2>1. /\ n + 1 \in 1 .. Len(s) /\ n + 1 \in 1 .. Len(t)
        /\ (n + 1) - 1 = n /\ f[n] = g[n]
    BY <1>1, <1>7
  <2>2. f[n + 1] = IF n + 1 \in old THEN Append(f[n], s[n + 1]) ELSE f[n]
    BY <1>4, <2>1
  <2>3. g[n + 1] = IF n + 1 \in new THEN Append(g[n], t[n + 1]) ELSE g[n]
    BY <1>5, <2>1
  <2> QED  BY <1>1, <2>1, <2>2, <2>3
<1>8. Nat \subseteq Same
  <2> HIDE DEF Same
  <2> QED  BY <1>6, <1>7, NumbersByInduction
<1>9. f[Len(s)] = g[Len(s)]
  BY <1>1, <1>8
<1>10. Len(s) + 1 \in 1 .. Len(t) /\ (Len(s) + 1) - 1 = Len(s)
  BY <1>1
<1>11. g[Len(s) + 1] = IF Len(s) + 1 \in new THEN Append(g[Len(s)], t[Len(s) + 1]) ELSE g[Len(s)]
  BY <1>5, <1>10
<1> QED  BY <1>1, <1>2, <1>3, <1>9, <1>11 DEF t
-----------------------------------------------------------------------------
(* Every list is built from the empty one by appending.                     *)
LEMMA ListsByInduction ==
  ASSUME NEW S, NEW P, << >> \in P,
         \A s \in Seq(S) : \A e \in S : s \in P => Append(s, e) \in P
  PROVE  Seq(S) \subseteq P
<1> DEFINE Good == {n \in Nat : \A s \in Seq(S) : Len(s) = n => s \in P}
<1>1. 0 \in Good
  BY EmptySeq
<1>2. ASSUME NEW n \in Nat, n \in Good PROVE n + 1 \in Good
  <2> SUFFICES ASSUME NEW s \in Seq(S), Len(s) = n + 1 PROVE s \in P
    OBVIOUS
  <2>1. s # << >>
    BY EmptySeq
  <2>2. PICK t \in Seq(S), e \in S : s = Append(t, e)
    BY <2>1, SequenceEmptyOrAppend
  <2>3. Len(t) = n
    BY <2>2, AppendProperties, LenProperties
  <2> QED  BY <1>2, <2>2, <2>3
<1>3. Nat \subseteq Good
  <2> HIDE DEF Good
  <2> QED  BY <1>1, <1>2, NumbersByInduction
<1> QED  BY <1>3, LenProperties

-----------------------------------------------------------------------------
Flattening(f, ss) ==
  f = [i \in 1 .. Len(ss) |-> IF i = 1 THEN ss[i] ELSE f[i - 1] \o ss[i]]

LEMMA FlatteningExists ==
  ASSUME NEW S, NEW ss \in Seq(Seq(S)), ss # << >>
  PROVE  \E f : Flattening(f, ss) /\ FlattenSeq(ss) = f[Len(ss)]
<1> DEFINE next(n, x) == IF n + 2 \in 1 .. Len(ss) THEN x \o ss[n + 2] ELSE x
           step == [n \in Nat |-> [x \in Seq(S) |-> next(n, x)]]
<1>1. Len(ss) \in Nat \ {0} /\ \A n \in 1 .. Len(ss) : ss[n] \in Seq(S)
  BY EmptySeq, LenProperties, ElementOfSeq
<1>2. \A n \in Nat, x \in Seq(S) : next(n, x) \in Seq(S)
  BY <1>1, ConcatProperties
<1>3. step \in Steps(Seq(S))
  <2> HIDE DEF next
  <2> QED  BY <1>2 DEF Steps
<1>4. ss[1] \in Seq(S)
  BY <1>1
<1>5. PICK g : IsRecursion(g, Seq(S), ss[1], step)
  <2> HIDE DEF step
  <2> QED  BY <1>3, <1>4, RecursionExists
<1>6. /\ g \in [Nat -> Seq(S)] /\ g[0] = ss[1]
      /\ \A n \in Nat : g[n + 1] = step[n][g[n]]
  BY <1>5 DEF IsRecursion
<1> DEFINE f == [i \in 1 .. Len(ss) |-> g[i - 1]]
<1>7. ASSUME NEW i \in 1 .. Len(ss), i # 1
      PROVE  g[i - 1] = g[i - 2] \o ss[i]
  <2>1. i - 2 \in Nat /\ (i - 2) + 1 = i - 1 /\ (i - 2) + 2 = i
    BY <1>1, <1>7
  <2> QED  BY <1>6, <2>1
<1>8. ASSUME NEW i \in 1 .. Len(ss)
      PROVE  g[i - 1] = IF i = 1 THEN ss[i] ELSE f[i - 1] \o ss[i]
  <2>1. CASE i = 1
    BY <1>6, <2>1
  <2>2. CASE i # 1
    <3>1. i - 1 \in 1 .. Len(ss) /\ (i - 1) - 1 = i - 2
      BY <1>1, <2>2
    <3>2. f[i - 1] = g[i - 2]
      BY <3>1
    <3> QED  BY <1>7, <2>2, <3>2
  <2> QED  BY <2>1, <2>2
<1>9. Flattening(f, ss)
  BY <1>8 DEF Flattening
<1>10. Len(ss) # 0
  BY <1>1
<1> HIDE DEF f
<1> QED  BY <1>9, <1>10 DEF FlattenSeq, Flattening

LEMMA FlatteningSteps ==
  ASSUME NEW S, NEW ss \in Seq(Seq(S)), ss # << >>, NEW f, Flattening(f, ss)
  PROVE  /\ f[1] = ss[1]
         /\ \A i \in 1 .. Len(ss) : i # 1 => f[i] = f[i - 1] \o ss[i]
         /\ \A i \in 1 .. Len(ss) : f[i] \in Seq(S)
<1>1. Len(ss) \in Nat \ {0} /\ \A n \in 1 .. Len(ss) : ss[n] \in Seq(S)
  BY EmptySeq, LenProperties, ElementOfSeq
<1>2. 1 \in 1 .. Len(ss)
  BY <1>1
<1>3. f[1] = ss[1]
  BY <1>2 DEF Flattening
<1>4. \A i \in 1 .. Len(ss) : i # 1 => f[i] = f[i - 1] \o ss[i]
  BY DEF Flattening
<1> DEFINE Typed == {n \in Nat : n + 1 <= Len(ss) => f[n + 1] \in Seq(S)}
<1>5. 0 \in Typed
  BY <1>1, <1>2, <1>3
<1>6. ASSUME NEW n \in Nat, n \in Typed PROVE n + 1 \in Typed
  <2> SUFFICES ASSUME (n + 1) + 1 <= Len(ss) PROVE f[(n + 1) + 1] \in Seq(S)
    OBVIOUS
  <2>1. /\ (n + 1) + 1 \in 1 .. Len(ss) /\ (n + 1) + 1 # 1
        /\ ((n + 1) + 1) - 1 = n + 1 /\ f[n + 1] \in Seq(S)
    BY <1>1, <1>6
  <2>2. f[(n + 1) + 1] = f[n + 1] \o ss[(n + 1) + 1]
    BY <1>4, <2>1
  <2> QED  BY <1>1, <2>1, <2>2, ConcatProperties
<1>7. Nat \subseteq Typed
  <2> HIDE DEF Typed
  <2> QED  BY <1>5, <1>6, NumbersByInduction
<1>8. \A i \in 1 .. Len(ss) : f[i] \in Seq(S)
  <2> TAKE i \in 1 .. Len(ss)
  <2>1. i - 1 \in Nat /\ (i - 1) + 1 = i /\ i <= Len(ss)
    BY <1>1
  <2> QED  BY <1>7, <2>1
<1> QED  BY <1>3, <1>4, <1>8

LEMMA FlatType ==
  ASSUME NEW S, NEW ss \in Seq(Seq(S))
  PROVE  FlattenSeq(ss) \in Seq(S)
<1>1. CASE ss = << >>
  <2>1. Len(ss) = 0
    BY <1>1, EmptySeq
  <2> QED  BY <1>1, <2>1, EmptySeq DEF FlattenSeq
<1>2. CASE ss # << >>
  <2>1. PICK f : Flattening(f, ss) /\ FlattenSeq(ss) = f[Len(ss)]
    BY <1>2, FlatteningExists
  <2>2. Len(ss) \in 1 .. Len(ss)
    BY <1>2, EmptySeq, LenProperties
  <2>3. \A i \in 1 .. Len(ss) : f[i] \in Seq(S)
    BY <1>2, <2>1, FlatteningSteps
  <2> QED  BY ONLY <2>1, <2>2, <2>3
<1> QED  BY <1>1, <1>2

LEMMA FlatOfNone == FlattenSeq(<< >>) = << >>
<1>1. Len(<< >>) = 0
  BY EmptySeq
<1> QED  BY <1>1 DEF FlattenSeq

LEMMA FlatOfOneMore ==
  ASSUME NEW S, NEW ss \in Seq(Seq(S)), NEW t \in Seq(S)
  PROVE  FlattenSeq(Append(ss, t)) = FlattenSeq(ss) \o t
<1>0. PICK tt : tt = Append(ss, t)
  OBVIOUS
<1>1. /\ tt \in Seq(Seq(S)) /\ tt # << >> /\ Len(ss) \in Nat
      /\ Len(tt) = Len(ss) + 1
      /\ \A n \in 1 .. Len(ss) : tt[n] = ss[n]
      /\ tt[Len(ss) + 1] = t
  BY <1>0, AppendProperties, LenProperties
<1>2. PICK g : Flattening(g, tt) /\ FlattenSeq(tt) = g[Len(tt)]
  BY <1>1, FlatteningExists
<1>3. /\ g[1] = tt[1]
      /\ \A i \in 1 .. Len(tt) : i # 1 => g[i] = g[i - 1] \o tt[i]
      /\ \A i \in 1 .. Len(tt) : g[i] \in Seq(S)
  BY <1>1, <1>2, FlatteningSteps
<1>4. CASE ss = << >>
  <2>1. Len(ss) = 0
    BY <1>4, EmptySeq
  <2>2. FlattenSeq(tt) = t
    BY <1>1, <1>2, <1>3, <2>1
  <2> QED  BY <1>0, <1>4, <2>2, FlatOfNone, ConcatEmptySeq
<1>5. CASE ss # << >>
  <2>1. PICK f : Flattening(f, ss) /\ FlattenSeq(ss) = f[Len(ss)]
    BY <1>5, FlatteningExists
  <2>2. /\ f[1] = ss[1]
        /\ \A i \in 1 .. Len(ss) : i # 1 => f[i] = f[i - 1] \o ss[i]
        /\ \A i \in 1 .. Len(ss) : f[i] \in Seq(S)
    BY <1>5, <2>1, FlatteningSteps
  <2>3. Len(ss) \in Nat \ {0}
    BY <1>5, EmptySeq, LenProperties
  <2> DEFINE Same == {n \in Nat : n + 1 <= Len(ss) => f[n + 1] = g[n + 1]}
  <2>4. 0 \in Same
    BY <1>1, <1>3, <2>2, <2>3
  <2>5. ASSUME NEW n \in Nat, n \in Same PROVE n + 1 \in Same
    <3> SUFFICES ASSUME (n + 1) + 1 <= Len(ss) PROVE f[(n + 1) + 1] = g[(n + 1) + 1]
      OBVIOUS
    <3>1. /\ (n + 1) + 1 \in 1 .. Len(ss) /\ (n + 1) + 1 \in 1 .. Len(tt)
          /\ (n + 1) + 1 # 1 /\ ((n + 1) + 1) - 1 = n + 1 /\ f[n + 1] = g[n + 1]
      BY <1>1, <2>3, <2>5
    <3>2. f[(n + 1) + 1] = f[n + 1] \o ss[(n + 1) + 1]
      BY <2>2, <3>1
    <3>3. g[(n + 1) + 1] = g[n + 1] \o tt[(n + 1) + 1]
      BY <1>3, <3>1
    <3> QED  BY <1>1, <3>1, <3>2, <3>3
  <2>6. Nat \subseteq Same
    <3> HIDE DEF Same
    <3> QED  BY <2>4, <2>5, NumbersByInduction
  <2>7. f[Len(ss)] = g[Len(ss)]
    <3>1. Len(ss) - 1 \in Nat /\ (Len(ss) - 1) + 1 = Len(ss)
      BY <2>3
    <3>2. Len(ss) - 1 \in Same
      BY <2>6, <3>1
    <3> QED  BY <3>1, <3>2
  <2>8. Len(ss) + 1 \in 1 .. Len(tt) /\ Len(ss) + 1 # 1 /\ (Len(ss) + 1) - 1 = Len(ss)
    BY <1>1, <2>3
  <2>9. g[Len(tt)] = g[Len(ss)] \o t
    BY <1>1, <1>3, <2>8
  <2> QED  BY <1>0, <1>2, <2>1, <2>7, <2>9
<1> QED  BY <1>4, <1>5
-----------------------------------------------------------------------------
(* Concatenating one more item is appending it to the concatenation.         *)
LEMMA ConcatOneMore ==
  ASSUME NEW S, NEW s \in Seq(S), NEW t \in Seq(S), NEW e \in S
  PROVE  s \o Append(t, e) = Append(s \o t, e)
<1>1. <<e>> \in Seq(S)
  OBVIOUS
<1>2. Append(t, e) = t \o <<e>>
  BY AppendIsConcat
<1>3. s \o t \in Seq(S)
  BY ConcatProperties
<1>4. Append(s \o t, e) = (s \o t) \o <<e>>
  BY <1>3, AppendIsConcat
<1>5. (s \o t) \o <<e>> = s \o (t \o <<e>>)
  BY <1>1, ConcatAssociative
<1> QED  BY <1>2, <1>4, <1>5

(* The items of a list that are of a set, in their order.                    *)
Among(s, Q) == AtPlaces(s, {k \in DOMAIN s : s[k] \in Q})

LEMMA AmongType ==
  ASSUME NEW S, NEW s \in Seq(S), NEW Q
  PROVE  Among(s, Q) \in Seq(S)
BY SelectionType DEF Among

LEMMA AmongNone ==
  ASSUME NEW Q
  PROVE  Among(<< >>, Q) = << >>
BY SelectionOfNone DEF Among

LEMMA AmongOneMore ==
  ASSUME NEW S, NEW s \in Seq(S), NEW e \in S, NEW Q
  PROVE  Among(Append(s, e), Q) = IF e \in Q THEN Append(Among(s, Q), e) ELSE Among(s, Q)
<1> PICK t : t = Append(s, e)
  OBVIOUS
<1> DEFINE old == {k \in DOMAIN s : s[k] \in Q}
           new == {k \in DOMAIN t : t[k] \in Q}
<1>1. /\ DOMAIN s = 1 .. Len(s) /\ DOMAIN t = 1 .. Len(s) + 1 /\ Len(s) \in Nat
      /\ \A k \in 1 .. Len(s) : t[k] = s[k]
      /\ t[Len(s) + 1] = e
  BY AppendProperties, LenProperties
<1>2. /\ \A k \in 1 .. Len(s) : k \in new <=> k \in old
      /\ Len(s) + 1 \in new <=> e \in Q
  BY <1>1
<1>3. Among(s, Q) = AtPlaces(s, old) /\ Among(t, Q) = AtPlaces(Append(s, e), new)
  BY DEF Among
<1> HIDE DEF old, new
<1>4. AtPlaces(Append(s, e), new) =
        IF Len(s) + 1 \in new THEN Append(AtPlaces(s, old), e) ELSE AtPlaces(s, old)
  BY <1>2, SelectionOfOneMore
<1> QED  BY <1>2, <1>3, <1>4

LEMMA AmongAll ==
  ASSUME NEW Q, NEW s \in Seq(Q)
  PROVE  Among(s, Q) = s
<1> DEFINE Good == {t \in Seq(Q) : Among(t, Q) = t}
<1>1. << >> \in Good
  BY AmongNone, EmptySeq
<1>2. ASSUME NEW t \in Seq(Q), NEW e \in Q, t \in Good PROVE Append(t, e) \in Good
  BY <1>2, AmongOneMore, AppendProperties
<1>3. Seq(Q) \subseteq Good
  <2> HIDE DEF Good
  <2> QED  BY <1>1, <1>2, ListsByInduction
<1> QED  BY <1>3

LEMMA AmongOthers ==
  ASSUME NEW S, NEW s \in Seq(S), NEW Q, S \cap Q = {}
  PROVE  Among(s, Q) = << >>
<1> DEFINE Good == {t \in Seq(S) : Among(t, Q) = << >>}
<1>1. << >> \in Good
  BY AmongNone, EmptySeq
<1>2. ASSUME NEW t \in Seq(S), NEW e \in S, t \in Good PROVE Append(t, e) \in Good
  BY <1>2, AmongOneMore, AppendProperties
<1>3. Seq(S) \subseteq Good
  <2> HIDE DEF Good
  <2> QED  BY <1>1, <1>2, ListsByInduction
<1> QED  BY <1>3

LEMMA AmongConcat ==
  ASSUME NEW S, NEW s \in Seq(S), NEW t \in Seq(S), NEW Q
  PROVE  Among(s \o t, Q) = Among(s, Q) \o Among(t, Q)
<1> DEFINE Good == {u \in Seq(S) : Among(s \o u, Q) = Among(s, Q) \o Among(u, Q)}
<1>1. << >> \in Good
  <2>1. s \o << >> = s /\ Among(s, Q) \in Seq(S)
    BY AmongType, ConcatEmptySeq
  <2>2. Among(s, Q) \o << >> = Among(s, Q)
    BY <2>1, ConcatEmptySeq
  <2> QED  BY <2>1, <2>2, AmongNone, EmptySeq
<1>2. ASSUME NEW u \in Seq(S), NEW e \in S, u \in Good PROVE Append(u, e) \in Good
  <2>1. s \o Append(u, e) = Append(s \o u, e) /\ s \o u \in Seq(S)
    BY ConcatOneMore, ConcatProperties
  <2>2. Among(Append(s \o u, e), Q) = IF e \in Q THEN Append(Among(s \o u, Q), e) ELSE Among(s \o u, Q)
    BY <2>1, AmongOneMore
  <2>3. Among(Append(u, e), Q) = IF e \in Q THEN Append(Among(u, Q), e) ELSE Among(u, Q)
    BY AmongOneMore
  <2>4. Among(s, Q) \o Append(Among(u, Q), e) = Append(Among(s, Q) \o Among(u, Q), e)
    BY AmongType, ConcatOneMore
  <2> QED  BY <1>2, <2>1, <2>2, <2>3, <2>4, AppendProperties
<1>3. Seq(S) \subseteq Good
  <2> HIDE DEF Good
  <2> QED  BY <1>1, <1>2, ListsByInduction
<1> QED  BY <1>3

(* Where only one of the parts of a list has items of a set, they are those  *)
(* of the list.                                                               *)
LEMMA AmongPart ==
  ASSUME NEW S, NEW parts \in Seq(Seq(S)), NEW Q, NEW i,
         \A j \in DOMAIN parts : j # i => Among(parts[j], Q) = << >>
  PROVE  Among(FlattenSeq(parts), Q) =
           IF i \in DOMAIN parts THEN Among(parts[i], Q) ELSE << >>
<1> PICK T : T = Seq(S)
  OBVIOUS
<1> DEFINE Good == {p \in Seq(T) :
                      (\A j \in DOMAIN p : j # i => Among(p[j], Q) = << >>) =>
                        Among(FlattenSeq(p), Q) =
                          IF i \in DOMAIN p THEN Among(p[i], Q) ELSE << >>}
<1>1. << >> \in Good
  <2>1. Among(FlattenSeq(<< >>), Q) = << >>
    BY FlatOfNone, AmongNone
  <2>2. DOMAIN << >> = {}
    OBVIOUS
  <2> QED  BY <2>1, <2>2, EmptySeq
<1>2. ASSUME NEW p \in Seq(T), NEW t \in T, p \in Good PROVE Append(p, t) \in Good
  <2> PICK q : q = Append(p, t)
    OBVIOUS
  <2>1. /\ q \in Seq(T) /\ DOMAIN p = 1 .. Len(p) /\ DOMAIN q = 1 .. Len(p) + 1 /\ Len(p) \in Nat
        /\ \A k \in 1 .. Len(p) : q[k] = p[k]
        /\ q[Len(p) + 1] = t
    BY AppendProperties, LenProperties
  <2> SUFFICES ASSUME \A j \in DOMAIN q : j # i => Among(q[j], Q) = << >>
               PROVE  Among(FlattenSeq(q), Q) = IF i \in DOMAIN q THEN Among(q[i], Q) ELSE << >>
    BY <2>1
  <2>2. \A j \in DOMAIN p : j # i => Among(p[j], Q) = << >>
    BY <2>1
  <2>3. Among(FlattenSeq(p), Q) = IF i \in DOMAIN p THEN Among(p[i], Q) ELSE << >>
    BY <1>2, <2>2
  <2>4. FlattenSeq(q) = FlattenSeq(p) \o t /\ FlattenSeq(p) \in Seq(S)
    BY FlatOfOneMore, FlatType
  <2>5. Among(FlattenSeq(q), Q) = Among(FlattenSeq(p), Q) \o Among(t, Q)
    BY <2>4, AmongConcat
  <2>6. /\ Among(FlattenSeq(p), Q) \in Seq(S) /\ Among(t, Q) \in Seq(S)
        /\ \A u \in Seq(S) : u \o << >> = u /\ << >> \o u = u
    BY <2>4, AmongType, ConcatEmptySeq
  <2>7. CASE i = Len(p) + 1
    <3>1. i \notin DOMAIN p /\ i \in DOMAIN q /\ q[i] = t
      BY <2>1, <2>7
    <3>2. Among(FlattenSeq(p), Q) = << >>
      BY <2>3, <3>1
    <3> QED  BY <2>5, <2>6, <3>1, <3>2
  <2>8. CASE i # Len(p) + 1
    <3>0. Len(p) + 1 \in DOMAIN q /\ Len(p) + 1 # i /\ q[Len(p) + 1] = t
      BY ONLY <2>1, <2>8
    <3>1. Among(t, Q) = << >>
      <4> HIDE DEF Good
      <4> QED  BY <3>0
    <3>2. i \in DOMAIN q <=> i \in DOMAIN p
      BY <2>1, <2>8
    <3>3. Among(FlattenSeq(q), Q) = Among(FlattenSeq(p), Q)
      BY <2>5, <2>6, <3>1
    <3> QED  BY <2>1, <2>3, <3>2, <3>3
  <2> QED  BY <2>7, <2>8
<1>3. Seq(T) \subseteq Good
  <2> HIDE DEF Good
  <2> QED  BY <1>1, <1>2, ListsByInduction
<1> QED  BY <1>3

(* The lists of one item each of a list make the list.                       *)
Singles(s) == [k \in DOMAIN s |-> <<s[k]>>]

LEMMA FlatOfSingles ==
  ASSUME NEW S, NEW s \in Seq(S)
  PROVE  Singles(s) \in Seq(Seq(S)) /\ FlattenSeq(Singles(s)) = s
<1> PICK T : T = Seq(S)
  OBVIOUS
<1> DEFINE Good == {t \in Seq(S) : Singles(t) \in Seq(T) /\ FlattenSeq(Singles(t)) = t}
<1>1. << >> \in Good
  <2>1. Singles(<< >>) = << >>
    BY DEF Singles
  <2> QED  BY <2>1, FlatOfNone, EmptySeq
<1>2. ASSUME NEW t \in Seq(S), NEW e \in S, t \in Good PROVE Append(t, e) \in Good
  <2>1. <<e>> \in T
    OBVIOUS
  <2>2. Singles(Append(t, e)) = Append(Singles(t), <<e>>)
    <3> PICK u, v, x : u = Append(t, e) /\ v = Singles(t) /\ x = Singles(Append(t, e))
      OBVIOUS
    <3>1. /\ DOMAIN t = 1 .. Len(t) /\ DOMAIN u = 1 .. Len(t) + 1 /\ Len(t) \in Nat
          /\ \A k \in 1 .. Len(t) : u[k] = t[k]
          /\ u[Len(t) + 1] = e
      BY AppendProperties, LenProperties
    <3>2. x = [k \in 1 .. Len(t) + 1 |-> <<u[k]>>]
      BY <3>1 DEF Singles
    <3>3. v = [k \in 1 .. Len(t) |-> <<t[k]>>] /\ v \in Seq(T) /\ Len(v) = Len(t)
      <4>1. v = [k \in 1 .. Len(t) |-> <<t[k]>>]
        BY <3>1 DEF Singles
      <4> QED  BY <1>2, <3>1, <4>1
    <3>4. \A k \in 1 .. Len(t) : v[k] = <<t[k]>>
      BY <3>3
    <3>5. \A k \in 1 .. Len(t) + 1 : x[k] = <<u[k]>>
      BY <3>2
    <3>6. x \in Seq(T) /\ Len(x) = Len(t) + 1
      <4>1. \A k \in 1 .. Len(t) + 1 : u[k] \in S
        BY <3>1
      <4>2. \A k \in 1 .. Len(t) + 1 : <<u[k]>> \in T
        BY <4>1
      <4>3. x \in [1 .. Len(t) + 1 -> T]
        BY <3>2, <4>2
      <4> QED  BY <3>1, <4>3
    <3>7. /\ Append(v, <<e>>) \in Seq(T) /\ Len(Append(v, <<e>>)) = Len(t) + 1
          /\ \A k \in 1 .. Len(t) : Append(v, <<e>>)[k] = v[k]
          /\ Append(v, <<e>>)[Len(t) + 1] = <<e>>
      BY <2>1, <3>1, <3>3, AppendProperties
    <3>8. ASSUME NEW k \in 1 .. Len(t) + 1 PROVE x[k] = Append(v, <<e>>)[k]
      <4>1. CASE k = Len(t) + 1
        BY <3>1, <3>5, <3>7, <4>1
      <4>2. CASE k # Len(t) + 1
        <5>1. k \in 1 .. Len(t)
          BY <3>1, <4>2
        <5> QED  BY <3>1, <3>4, <3>5, <3>7, <5>1
      <4> QED  BY <4>1, <4>2
    <3> QED  BY <3>1, <3>6, <3>7, <3>8, SeqEqual
  <2>3. Singles(t) \in Seq(T) /\ FlattenSeq(Singles(t)) = t
    BY <1>2
  <2>4. FlattenSeq(Append(Singles(t), <<e>>)) = FlattenSeq(Singles(t)) \o <<e>>
    BY <2>1, <2>3, FlatOfOneMore
  <2>5. t \o <<e>> = Append(t, e)
    BY AppendIsConcat
  <2>6. Append(Singles(t), <<e>>) \in Seq(T)
    BY <2>1, <2>3, AppendProperties
  <2>7. Append(t, e) \in Seq(S)
    BY AppendProperties
  <2> QED  BY <2>2, <2>3, <2>4, <2>5, <2>6, <2>7
<1>3. Seq(S) \subseteq Good
  <2> HIDE DEF Good
  <2> QED  BY <1>1, <1>2, ListsByInduction
<1> QED  BY <1>3
-----------------------------------------------------------------------------
(* Lists as sets of their items.                                              *)
LEMMA RangeOfEmpty == Range(<< >>) = {}
BY DEF Range

LEMMA RangeOfAppend ==
  ASSUME NEW S, NEW s \in Seq(S), NEW e \in S
  PROVE  Range(Append(s, e)) = Range(s) \cup {e}
<1>1. /\ Append(s, e) \in Seq(S)
      /\ Len(Append(s, e)) = Len(s) + 1
      /\ \A i \in 1 .. Len(s) : Append(s, e)[i] = s[i]
      /\ Append(s, e)[Len(s) + 1] = e
  BY AppendProperties
<1>2. /\ Len(s) \in Nat
      /\ DOMAIN s = 1 .. Len(s)
      /\ DOMAIN Append(s, e) = 1 .. Len(s) + 1
  BY <1>1, LenProperties
<1>3. Range(Append(s, e)) \subseteq Range(s) \cup {e}
  <2> SUFFICES ASSUME NEW i \in 1 .. Len(s) + 1
               PROVE  Append(s, e)[i] \in Range(s) \cup {e}
    BY <1>2 DEF Range
  <2>1. i = Len(s) + 1 \/ i \in 1 .. Len(s)
    BY <1>2
  <2> QED  BY <2>1, <1>1, <1>2 DEF Range
<1>4. Range(s) \cup {e} \subseteq Range(Append(s, e))
  <2>1. \A i \in 1 .. Len(s) : i \in 1 .. Len(s) + 1
    BY <1>2
  <2>2. Len(s) + 1 \in 1 .. Len(s) + 1
    BY <1>2
  <2> QED  BY <2>1, <2>2, <1>1, <1>2 DEF Range
<1> QED  BY <1>3, <1>4

(* The elements of both. *)
LEMMA RangeOfConcat ==
  ASSUME NEW S, NEW s \in Seq(S), NEW t \in Seq(S)
  PROVE  Range(s \o t) = Range(s) \cup Range(t)
<1>1. DOMAIN s = 1..Len(s) /\ DOMAIN t = 1..Len(t) /\ DOMAIN (s \o t) = 1..(Len(s) + Len(t))
  OBVIOUS
<1>2. Len(s) \in Nat /\ Len(t) \in Nat
  OBVIOUS
<1>3. \A i \in 1..Len(s) : (s \o t)[i] = s[i]
  OBVIOUS
<1>4. \A i \in 1..Len(t) : (s \o t)[Len(s) + i] = t[i]
  OBVIOUS
<1>5. ASSUME NEW y \in Range(s \o t)  PROVE  y \in Range(s) \cup Range(t)
  <2>1. PICK i \in 1..(Len(s) + Len(t)) : y = (s \o t)[i]
    BY <1>1 DEF Range
  <2>2. CASE i <= Len(s)
    BY <2>1, <2>2, <1>1, <1>2, <1>3 DEF Range
  <2>3. CASE i > Len(s)
    <3>1. i - Len(s) \in 1..Len(t) /\ i = Len(s) + (i - Len(s))
      BY <2>3, <1>2
    <3>2. (s \o t)[i] = t[i - Len(s)]
      BY <3>1, <1>4
    <3> QED  BY <2>1, <3>1, <3>2, <1>1 DEF Range
  <2> QED  BY <2>2, <2>3, <1>2
<1>6. ASSUME NEW y \in Range(s)  PROVE  y \in Range(s \o t)
  <2>1. PICK i \in 1..Len(s) : y = s[i]
    BY <1>1 DEF Range
  <2>2. i \in DOMAIN (s \o t)
    BY <1>1, <1>2
  <2> QED  BY <2>1, <2>2, <1>3 DEF Range
<1>7. ASSUME NEW y \in Range(t)  PROVE  y \in Range(s \o t)
  <2>1. PICK i \in 1..Len(t) : y = t[i]
    BY <1>1 DEF Range
  <2>2. Len(s) + i \in DOMAIN (s \o t)
    BY <1>1, <1>2
  <2> QED  BY <2>1, <2>2, <1>4 DEF Range
<1> QED  BY <1>5, <1>6, <1>7

(* A list that holds nothing twice.                                           *)
Differ(s) == \A i, j \in DOMAIN s : s[i] = s[j] => i = j

LEMMA DifferAppend ==
  ASSUME NEW S, NEW s \in Seq(S), NEW e \in S
  PROVE  Differ(Append(s, e)) <=> Differ(s) /\ e \notin Range(s)
<1> PICK t : t = Append(s, e)
  OBVIOUS
<1>1. /\ Len(s) \in Nat /\ DOMAIN s = 1 .. Len(s) /\ DOMAIN t = 1 .. Len(s) + 1
      /\ \A i \in 1 .. Len(s) : t[i] = s[i]
      /\ t[Len(s) + 1] = e
  BY AppendProperties, LenProperties
<1>2. ASSUME Differ(t) PROVE Differ(s) /\ e \notin Range(s)
  <2>1. ASSUME NEW i \in DOMAIN s, NEW j \in DOMAIN s, s[i] = s[j] PROVE i = j
    <3>1. i \in DOMAIN t /\ j \in DOMAIN t /\ t[i] = t[j]
      BY <1>1, <2>1
    <3> QED  BY <1>2, <3>1 DEF Differ
  <2>2. ASSUME NEW i \in DOMAIN s, s[i] = e PROVE FALSE
    <3>1. i \in DOMAIN t /\ Len(s) + 1 \in DOMAIN t /\ t[i] = t[Len(s) + 1] /\ i # Len(s) + 1
      BY <1>1, <2>2
    <3> QED  BY <1>2, <3>1 DEF Differ
  <2> QED  BY <2>1, <2>2 DEF Differ, Range
<1>3. ASSUME Differ(s), e \notin Range(s) PROVE Differ(t)
  <2>1. ASSUME NEW i \in DOMAIN t, NEW j \in DOMAIN t, t[i] = t[j] PROVE i = j
    <3>1. i \in 1 .. Len(s) \/ i = Len(s) + 1
      BY <1>1
    <3>2. j \in 1 .. Len(s) \/ j = Len(s) + 1
      BY <1>1
    <3>3. \A n \in 1 .. Len(s) : s[n] # e
      BY <1>1, <1>3 DEF Range
    <3> QED  BY <1>1, <1>3, <2>1, <3>1, <3>2, <3>3 DEF Differ
  <2> QED  BY <2>1 DEF Differ
<1> QED  BY <1>2, <1>3

(* What a selection holds.                                                     *)
LEMMA RangeOfSelection ==
  ASSUME NEW S, NEW s \in Seq(S), NEW places
  PROVE  /\ Range(AtPlaces(s, places)) = {s[i] : i \in DOMAIN s \cap places}
         /\ Differ(s) => Differ(AtPlaces(s, places))
<1> DEFINE Kept(t) == {t[i] : i \in DOMAIN t \cap places}
           Good == {t \in Seq(S) : /\ Range(AtPlaces(t, places)) = Kept(t)
                                   /\ Differ(t) => Differ(AtPlaces(t, places))}
<1>1. << >> \in Good
  <2>1. Kept(<< >>) = {} /\ Range(<< >>) = {} /\ Differ(<< >>)
    BY DEF Range, Differ
  <2>2. << >> \in Seq(S)
    BY EmptySeq
  <2> QED  BY <2>1, <2>2, SelectionOfNone
<1>2. ASSUME NEW t \in Seq(S), NEW e \in S, t \in Good PROVE Append(t, e) \in Good
  <2>0. PICK u : u = Append(t, e)
    OBVIOUS
  <2>1. /\ u \in Seq(S) /\ Len(t) \in Nat
        /\ DOMAIN t = 1 .. Len(t) /\ DOMAIN u = 1 .. Len(t) + 1
        /\ \A i \in 1 .. Len(t) : u[i] = t[i]
        /\ u[Len(t) + 1] = e
    BY <2>0, AppendProperties, LenProperties
  <2>2. PICK sel, old : sel = AtPlaces(u, places) /\ old = AtPlaces(t, places)
    OBVIOUS
  <2>3. old \in Seq(S) /\ Range(old) = Kept(t) /\ (Differ(t) => Differ(old))
    BY <1>2, <2>2, SelectionType
  <2>4. sel = IF Len(t) + 1 \in places THEN Append(old, e) ELSE old
    BY <2>0, <2>2, SelectionOfOneMore
  <2>5. Kept(u) = IF Len(t) + 1 \in places THEN Kept(t) \cup {e} ELSE Kept(t)
    <3>1. \A i \in DOMAIN u : i \in DOMAIN t \/ i = Len(t) + 1
      BY <2>1
    <3> QED  BY <2>1, <3>1
  <2>6. Range(sel) = Kept(u)
    <3>1. Range(Append(old, e)) = Range(old) \cup {e}
      BY ONLY <2>3, e \in S, RangeOfAppend
    <3> HIDE DEF Kept
    <3> QED  BY <2>3, <2>4, <2>5, <3>1
  <2>7. Kept(t) \subseteq Range(t)
    BY DEF Range
  <2>8. ASSUME Differ(u) PROVE Differ(sel)
    <3>1. Differ(t) /\ e \notin Range(t)
      BY <2>0, <2>8, DifferAppend
    <3> QED  BY <2>3, <2>4, <2>7, <3>1, DifferAppend
  <2> HIDE DEF Kept
  <2> QED  BY <2>0, <2>1, <2>2, <2>6, <2>8
<1>3. Seq(S) \subseteq Good
  <2> HIDE DEF Good
  <2> QED  BY <1>1, <1>2, ListsByInduction
<1> QED  BY <1>3

(* What a concatenation of lists holds.                                        *)
LEMMA RangeOfFlat ==
  ASSUME NEW S, NEW ss \in Seq(Seq(S))
  PROVE  Range(FlattenSeq(ss)) = UNION {Range(ss[i]) : i \in DOMAIN ss}
<1> DEFINE All(p) == UNION {Range(p[i]) : i \in DOMAIN p}
           Good == {p \in Seq(Seq(S)) : Range(FlattenSeq(p)) = All(p)}
<1>1. << >> \in Good
  <2>1. All(<< >>) = {} /\ Range(<< >>) = {}
    BY DEF Range
  <2>2. << >> \in Seq(Seq(S))
    BY EmptySeq
  <2> QED  BY <2>1, <2>2, FlatOfNone
<1>2. ASSUME NEW p \in Seq(Seq(S)), NEW t \in Seq(S), p \in Good PROVE Append(p, t) \in Good
  <2>0. PICK q, T : q = Append(p, t) /\ T = Seq(S)
    OBVIOUS
  <2>1. /\ q \in Seq(T) /\ Len(p) \in Nat
        /\ DOMAIN p = 1 .. Len(p) /\ DOMAIN q = 1 .. Len(p) + 1
        /\ \A i \in 1 .. Len(p) : q[i] = p[i]
        /\ q[Len(p) + 1] = t
    BY <2>0, AppendProperties, LenProperties
  <2>2. All(q) = All(p) \cup Range(t)
    <3>1. \A x : x \in All(q) <=> \E i \in DOMAIN q : x \in Range(q[i])
      OBVIOUS
    <3>2. \A x : x \in All(p) <=> \E i \in DOMAIN p : x \in Range(p[i])
      OBVIOUS
    <3>3. \A x : (\E i \in DOMAIN q : x \in Range(q[i]))
                  <=> (\E i \in DOMAIN p : x \in Range(p[i])) \/ x \in Range(t)
      <4> TAKE x
      <4>1. ASSUME NEW i \in DOMAIN q, x \in Range(q[i])
            PROVE  (\E j \in DOMAIN p : x \in Range(p[j])) \/ x \in Range(t)
        <5>1. i \in 1 .. Len(p) \/ i = Len(p) + 1
          BY <2>1
        <5> QED  BY <2>1, <4>1, <5>1
      <4>2. ASSUME NEW i \in DOMAIN p, x \in Range(p[i])
            PROVE  \E j \in DOMAIN q : x \in Range(q[j])
        <5>1. i \in DOMAIN q /\ q[i] = p[i]
          BY <2>1
        <5> QED  BY <4>2, <5>1
      <4>3. Len(p) + 1 \in DOMAIN q
        BY <2>1
      <4> QED  BY <2>1, <4>1, <4>2, <4>3
    <3> HIDE DEF All
    <3> QED  BY <3>1, <3>2, <3>3
  <2>3. Range(FlattenSeq(q)) = Range(FlattenSeq(p)) \cup Range(t)
    <3>1. FlattenSeq(q) = FlattenSeq(p) \o t
      BY <2>0, FlatOfOneMore
    <3>2. PICK flat : flat = FlattenSeq(p)
      OBVIOUS
    <3>3. flat \in Seq(S)
      BY <3>2, FlatType
    <3> QED  BY <3>1, <3>2, <3>3, RangeOfConcat
  <2> HIDE DEF All
  <2> QED  BY <1>2, <2>0, <2>1, <2>2, <2>3
<1>3. Seq(Seq(S)) \subseteq Good
  <2> PICK T : T = Seq(S)
    OBVIOUS
  <2> HIDE DEF Good
  <2> QED  BY <1>1, <1>2, ListsByInduction
<1> QED  BY <1>3

(* What lists have, and what the concatenation of two of them has, theirs all *)
(* together have.                                                              *)
LEMMA FlatWithin ==
  ASSUME NEW S, NEW T \in SUBSET Seq(S), << >> \in T, \A s, t \in T : s \o t \in T,
         NEW ss \in Seq(T)
  PROVE  FlattenSeq(ss) \in T
<1> DEFINE Good == {p \in Seq(T) : FlattenSeq(p) \in T}
<1>1. << >> \in Good
  BY FlatOfNone, EmptySeq
<1>2. ASSUME NEW p \in Seq(T), NEW t \in T, p \in Good PROVE Append(p, t) \in Good
  <2>1. p \in Seq(Seq(S)) /\ t \in Seq(S)
    <3>1. \A i \in 1 .. Len(p) : p[i] \in Seq(S)
      BY ElementOfSeq
    <3> QED  BY <3>1
  <2>2. FlattenSeq(Append(p, t)) = FlattenSeq(p) \o t
    BY <2>1, FlatOfOneMore
  <2>3. Append(p, t) \in Seq(T)
    BY AppendProperties
  <2> QED  BY <1>2, <2>2, <2>3
<1>3. Seq(T) \subseteq Good
  <2> HIDE DEF Good
  <2> QED  BY <1>1, <1>2, ListsByInduction
<1> QED  BY <1>3

(* A list without the item at a place.                                         *)
LEMMA RangeOfRemoval ==
  ASSUME NEW S, NEW s \in Seq(S), NEW n \in DOMAIN s
  PROVE  /\ RemoveAt(s, n) \in Seq(S)
         /\ Range(RemoveAt(s, n)) = {s[i] : i \in DOMAIN s \ {n}}
         /\ Differ(s) => Differ(RemoveAt(s, n))
<1>1. /\ Len(s) \in Nat /\ DOMAIN s = 1 .. Len(s) /\ n \in 1 .. Len(s)
      /\ \A i \in 1 .. Len(s) : s[i] \in S
  BY LenProperties, ElementOfSeq
<1>2. PICK a, b : a = SubSeq(s, 1, n - 1) /\ b = SubSeq(s, n + 1, Len(s))
  OBVIOUS
<1>3. /\ a \in Seq(S) /\ Len(a) = n - 1 /\ \A i \in 1 .. n - 1 : a[i] = s[i]
  <2>1. \A i \in 1 .. n - 1 : s[i] \in S
    BY <1>1
  <2>2. 1 \in Int /\ n - 1 \in Int
    BY <1>1
  <2>3. /\ a \in Seq(S) /\ Len(a) = IF 1 <= n - 1 THEN (n - 1) - 1 + 1 ELSE 0
        /\ \A i \in 1 .. (n - 1) - 1 + 1 : a[i] = s[1 + i - 1]
    BY ONLY <1>2, <2>1, <2>2, SubSeqProperties
  <2> QED  BY <1>1, <2>3
<1>4. /\ b \in Seq(S) /\ Len(b) = Len(s) - n /\ \A i \in 1 .. Len(s) - n : b[i] = s[n + i]
  <2>1. \A i \in n + 1 .. Len(s) : s[i] \in S
    BY <1>1
  <2>2. n + 1 \in Int /\ Len(s) \in Int
    BY <1>1
  <2>3. /\ b \in Seq(S) /\ Len(b) = IF n + 1 <= Len(s) THEN Len(s) - (n + 1) + 1 ELSE 0
        /\ \A i \in 1 .. Len(s) - (n + 1) + 1 : b[i] = s[(n + 1) + i - 1]
    BY ONLY <1>2, <2>1, <2>2, SubSeqProperties
  <2>4. \A i \in 1 .. Len(s) - n : i \in 1 .. Len(s) - (n + 1) + 1 /\ (n + 1) + i - 1 = n + i
    BY <1>1
  <2>5. \A i \in 1 .. Len(s) - n : b[i] = s[n + i]
    BY <2>3, <2>4
  <2> QED  BY <1>1, <2>3, <2>5
<1>5. PICK t : t = RemoveAt(s, n)
  OBVIOUS
<1>6. /\ t \in Seq(S) /\ Len(t) = Len(s) - 1 /\ DOMAIN t = 1 .. Len(s) - 1
      /\ \A i \in 1 .. Len(s) - 1 : t[i] = IF i < n THEN s[i] ELSE s[i + 1]
  <2>1. t = a \o b
    BY <1>2, <1>5 DEF RemoveAt
  <2>2. /\ t \in Seq(S) /\ Len(t) = Len(a) + Len(b)
        /\ \A i \in 1 .. Len(a) + Len(b) : t[i] = IF i <= Len(a) THEN a[i] ELSE b[i - Len(a)]
    BY <1>3, <1>4, <2>1, ConcatProperties
  <2>3. Len(t) = Len(s) - 1 /\ DOMAIN t = 1 .. Len(s) - 1
    BY <1>1, <1>3, <1>4, <2>2, LenProperties
  <2>4. ASSUME NEW i \in 1 .. Len(s) - 1 PROVE t[i] = IF i < n THEN s[i] ELSE s[i + 1]
    <3>1. t[i] = IF i <= n - 1 THEN a[i] ELSE b[i - (n - 1)]
      BY <1>1, <1>3, <1>4, <2>2
    <3>2. CASE i < n
      BY <1>1, <1>3, <3>1, <3>2
    <3>3. CASE ~ (i < n)
      <4>1. i - (n - 1) \in 1 .. Len(s) - n /\ n + (i - (n - 1)) = i + 1
        BY <1>1, <3>3
      <4> QED  BY <1>1, <1>4, <3>1, <3>3, <4>1
    <3> QED  BY <3>2, <3>3
  <2> QED  BY <2>2, <2>3, <2>4
<1> DEFINE from(i) == IF i < n THEN i ELSE i + 1
<1>7. \A i \in DOMAIN t : from(i) \in DOMAIN s \ {n} /\ t[i] = s[from(i)]
  BY <1>1, <1>6
<1>8. ASSUME NEW j \in DOMAIN s \ {n} PROVE \E i \in DOMAIN t : from(i) = j
  <2>1. CASE j < n
    BY <1>1, <1>6, <2>1
  <2>2. CASE ~ (j < n)
    <3>1. j - 1 \in DOMAIN t /\ from(j - 1) = j
      BY <1>1, <1>6, <1>8, <2>2
    <3> QED  BY <3>1
  <2> QED  BY <2>1, <2>2
<1>9. \A i, j \in DOMAIN t : from(i) = from(j) => i = j
  BY <1>1, <1>6
<1> HIDE DEF from
<1>10. Range(t) = {s[i] : i \in DOMAIN s \ {n}}
  <2>1. ASSUME NEW j \in DOMAIN s \ {n} PROVE s[j] \in Range(t)
    <3>1. PICK i \in DOMAIN t : from(i) = j
      BY <1>8
    <3> QED  BY <1>7, <3>1 DEF Range
  <2> QED  BY <1>7, <2>1 DEF Range
<1>11. Differ(s) => Differ(t)
  BY <1>7, <1>9 DEF Differ
<1> QED  BY <1>5, <1>6, <1>10, <1>11

-----------------------------------------------------------------------------
(* Lists of lists, and what functions make of the members of a list *)

(* A concatenation of lists in two parts. *)
LEMMA FlatOfConcat ==
  ASSUME NEW S, NEW ss \in Seq(Seq(S)), NEW tt \in Seq(Seq(S))
  PROVE  FlattenSeq(ss \o tt) = FlattenSeq(ss) \o FlattenSeq(tt)
<1> DEFINE Good == {t \in Seq(Seq(S)) : FlattenSeq(ss \o t) = FlattenSeq(ss) \o FlattenSeq(t)}
<1>1. << >> \in Good
  <2>1. ss \o << >> = ss /\ << >> \in Seq(Seq(S))
    BY ConcatEmptySeq, EmptySeq
  <2>2. FlattenSeq(ss) \o << >> = FlattenSeq(ss)
    BY FlatType, ConcatEmptySeq
  <2> QED  BY <2>1, <2>2, FlatOfNone
<1>2. ASSUME NEW t \in Seq(Seq(S)), NEW e \in Seq(S), t \in Good PROVE Append(t, e) \in Good
  <2>1. Append(t, e) \in Seq(Seq(S))
    OBVIOUS
  <2>2. ss \o Append(t, e) = Append(ss \o t, e) /\ ss \o t \in Seq(Seq(S))
    BY ConcatOneMore, ConcatProperties
  <2>3. FlattenSeq(ss \o Append(t, e)) = FlattenSeq(ss \o t) \o e
    BY <2>2, FlatOfOneMore
  <2>4. FlattenSeq(Append(t, e)) = FlattenSeq(t) \o e
    BY FlatOfOneMore
  <2>5. FlattenSeq(ss) \in Seq(S) /\ FlattenSeq(t) \in Seq(S)
    BY FlatType
  <2>6. (FlattenSeq(ss) \o FlattenSeq(t)) \o e = FlattenSeq(ss) \o (FlattenSeq(t) \o e)
    <3> DEFINE a == FlattenSeq(ss)
               b == FlattenSeq(t)
    <3>1. a \in Seq(S) /\ b \in Seq(S) /\ e \in Seq(S)
      BY <2>5
    <3> HIDE DEF a, b
    <3>2. \A x, y, z \in Seq(S) : (x \o y) \o z = x \o (y \o z)
      BY ONLY ConcatAssociative
    <3>3. (a \o b) \o e = a \o (b \o e)
      BY ONLY <3>1, <3>2
    <3> QED  BY <3>3 DEF a, b
  <2> QED  BY <1>2, <2>1, <2>3, <2>4, <2>6
<1>3. Seq(Seq(S)) \subseteq Good
  <2> HIDE DEF Good
  <2> QED  BY <1>1, <1>2, ListsByInduction
<1> QED  BY <1>3

LEMMA FlatOfOne ==
  ASSUME NEW S, NEW s \in Seq(S)
  PROVE  FlattenSeq(<<s>>) = s
<1>1. << >> \in Seq(Seq(S)) /\ Append(<< >>, s) = <<s>>
  OBVIOUS
<1>2. FlattenSeq(Append(<< >>, s)) = FlattenSeq(<< >>) \o s
  BY <1>1, FlatOfOneMore
<1> QED  BY <1>1, <1>2, FlatOfNone, ConcatEmptySeq

(* A list of the values of a function on the items of a list. *)
Through(g, s) == [k \in DOMAIN s |-> g[s[k]]]

LEMMA ThroughValues ==
  ASSUME NEW S, NEW g, NEW s \in Seq(S)
  PROVE  /\ Len(Through(g, s)) = Len(s) /\ DOMAIN Through(g, s) = 1..Len(s)
         /\ DOMAIN s = 1..Len(s) /\ Len(s) \in Nat
         /\ \A k \in 1..Len(s) : Through(g, s)[k] = g[s[k]] /\ s[k] \in S
<1>1. DOMAIN s = 1..Len(s) /\ Len(s) \in Nat /\ \A k \in 1..Len(s) : s[k] \in S
  OBVIOUS
<1> DEFINE r == Through(g, s)
           T == {g[s[k]] : k \in 1..Len(s)}
<1>2. r = [k \in 1..Len(s) |-> g[s[k]]]
  BY <1>1 DEF Through
<1>3. \A k \in 1..Len(s) : g[s[k]] \in T
  OBVIOUS
<1> HIDE DEF r, T
<1>4. r \in [1..Len(s) -> T]
  BY <1>1, <1>2, <1>3
<1>5. r \in Seq(T) /\ Len(r) = Len(s) /\ DOMAIN r = 1..Len(s)
  BY <1>1, <1>4
<1> QED  BY <1>1, <1>2, <1>5 DEF r

LEMMA ThroughWithin ==
  ASSUME NEW S, NEW g, NEW s \in Seq(S), NEW T, \A x \in S : g[x] \in T
  PROVE  Through(g, s) \in Seq(T)
<1>1. DOMAIN s = 1..Len(s) /\ Len(s) \in Nat /\ \A k \in 1..Len(s) : s[k] \in S
  OBVIOUS
<1> DEFINE r == Through(g, s)
<1>2. r = [k \in 1..Len(s) |-> g[s[k]]]
  BY <1>1 DEF Through
<1> HIDE DEF r
<1>3. r \in [1..Len(s) -> T]
  BY <1>1, <1>2
<1> QED  BY <1>1, <1>3 DEF r

LEMMA SameLists ==
  ASSUME NEW S, NEW s \in Seq(S), NEW T, NEW t \in Seq(T), Len(s) = Len(t), \A i \in 1..Len(s) : s[i] = t[i]
  PROVE  s = t
<1>1. Len(s) \in Nat /\ DOMAIN s = 1..Len(s) /\ DOMAIN t = 1..Len(s)
  OBVIOUS
<1>2. s = [i \in DOMAIN s |-> s[i]] /\ t = [i \in DOMAIN t |-> t[i]]
  OBVIOUS
<1> QED  BY <1>1, <1>2

LEMMA ThroughConcat ==
  ASSUME NEW S, NEW g, NEW s \in Seq(S), NEW t \in Seq(S)
  PROVE  Through(g, s \o t) = Through(g, s) \o Through(g, t)
<1> DEFINE a == Through(g, s)
           b == Through(g, t)
           c == Through(g, s \o t)
           T == {g[x] : x \in S}
<1>0. \A x \in S : g[x] \in T
  OBVIOUS
<1> HIDE DEF T
<1>1. /\ a \in Seq(T) /\ Len(a) = Len(s) /\ Len(s) \in Nat
      /\ \A k \in 1..Len(s) : a[k] = g[s[k]]
  BY <1>0, ThroughValues, ThroughWithin
<1>2. /\ b \in Seq(T) /\ Len(b) = Len(t) /\ Len(t) \in Nat
      /\ \A k \in 1..Len(t) : b[k] = g[t[k]]
  BY <1>0, ThroughValues, ThroughWithin
<1>3. /\ s \o t \in Seq(S) /\ Len(s \o t) = Len(s) + Len(t)
      /\ \A i \in 1..Len(s) + Len(t) : (s \o t)[i] = IF i <= Len(s) THEN s[i] ELSE t[i - Len(s)]
  BY ConcatProperties
<1>4. /\ c \in Seq(T) /\ Len(c) = Len(s) + Len(t)
      /\ \A k \in 1..Len(s) + Len(t) : c[k] = g[(s \o t)[k]]
  <2> DEFINE u == s \o t
  <2>1. u \in Seq(S) /\ Len(u) = Len(s) + Len(t)
    BY <1>3
  <2> HIDE DEF u
  <2>2. Through(g, u) \in Seq(T) /\ Len(Through(g, u)) = Len(u) /\ \A k \in 1..Len(u) : Through(g, u)[k] = g[u[k]]
    BY <1>0, <2>1, ThroughValues, ThroughWithin
  <2> QED  BY <2>1, <2>2 DEF u
<1> HIDE DEF a, b, c
<1>5. /\ a \o b \in Seq(T) /\ Len(a \o b) = Len(s) + Len(t)
      /\ \A i \in 1..Len(s) + Len(t) : (a \o b)[i] = IF i <= Len(s) THEN a[i] ELSE b[i - Len(s)]
  <2>1. /\ a \o b \in Seq(T) /\ Len(a \o b) = Len(a) + Len(b)
        /\ \A i \in 1..Len(a) + Len(b) : (a \o b)[i] = IF i <= Len(a) THEN a[i] ELSE b[i - Len(a)]
    BY <1>1, <1>2, ConcatProperties
  <2> QED  BY ONLY <1>1, <1>2, <2>1
<1>6. ASSUME NEW i \in 1..Len(s) + Len(t) PROVE c[i] = (a \o b)[i]
  <2>1. CASE i <= Len(s)
    <3>1. i \in 1..Len(s)
      BY <1>1, <2>1
    <3> QED  BY <1>1, <1>3, <1>4, <1>5, <2>1, <3>1
  <2>2. CASE ~ (i <= Len(s))
    <3>1. i - Len(s) \in 1..Len(t)
      BY <1>1, <1>2, <2>2
    <3> QED  BY <1>2, <1>3, <1>4, <1>5, <2>2, <3>1
  <2> QED  BY <2>1, <2>2
<1>7. c = a \o b
  BY <1>4, <1>5, <1>6, SameLists
<1> QED  BY <1>7 DEF a, b, c

LEMMA ThroughOne ==
  ASSUME NEW g, NEW e
  PROVE  Through(g, <<e>>) = <<g[e]>> /\ Through(g, << >>) = << >>
<1>1. Through(g, <<e>>) = <<g[e]>>
  BY DEF Through
<1>2. Through(g, << >>) = [k \in {} |-> g[<< >>[k]]]
  BY DEF Through
<1> QED  BY <1>1, <1>2

LEMMA ThroughAppend ==
  ASSUME NEW S, NEW g, NEW s \in Seq(S), NEW e \in S
  PROVE  Through(g, Append(s, e)) = Append(Through(g, s), g[e])
<1>1. <<e>> \in Seq(S)
  OBVIOUS
<1>2. Append(s, e) = s \o <<e>>
  BY AppendIsConcat
<1>3. Through(g, s \o <<e>>) = Through(g, s) \o <<g[e]>>
  <2> DEFINE o == <<e>>
  <2>1. o \in Seq(S) /\ Through(g, o) = <<g[e]>>
    BY <1>1, ThroughOne
  <2> HIDE DEF o
  <2>2. Through(g, s \o o) = Through(g, s) \o Through(g, o)
    BY <2>1, ThroughConcat
  <2> QED  BY <2>1, <2>2 DEF o
<1> DEFINE T == {g[x] : x \in S}
           r == Through(g, s)
           v == g[e]
<1>4. r \in Seq(T) /\ v \in T
  <2>1. \A x \in S : g[x] \in T
    OBVIOUS
  <2> HIDE DEF T
  <2> QED  BY <2>1, ThroughWithin
<1> HIDE DEF T, r, v
<1>5. Append(r, v) = r \o <<v>>
  BY <1>4, AppendIsConcat
<1> QED  BY <1>2, <1>3, <1>5 DEF r, v

Throughs(g, ss) == [i \in DOMAIN ss |-> Through(g, ss[i])]

(* What becomes of each list becomes of their concatenation. *)
LEMMA FlatOfThroughs ==
  ASSUME NEW S, NEW g, NEW ss \in Seq(Seq(S)), NEW T, \A x \in S : g[x] \in T
  PROVE  Throughs(g, ss) \in Seq(Seq(T)) /\ FlattenSeq(Throughs(g, ss)) = Through(g, FlattenSeq(ss))
<1> DEFINE h == [x \in Seq(S) |-> Through(g, x)]
<1>1. \A x \in Seq(S) : h[x] = Through(g, x) /\ h[x] \in Seq(T)
  BY ThroughWithin
<1>2. \A x \in Seq(Seq(S)) : Throughs(g, x) = Through(h, x)
  <2> TAKE x \in Seq(Seq(S))
  <2>1. \A i \in DOMAIN x : x[i] \in Seq(S)
    BY ElementOfSeq, LenProperties
  <2> QED  BY <2>1 DEF Throughs, Through
<1> HIDE DEF h
<1> DEFINE Good == {x \in Seq(Seq(S)) : FlattenSeq(Through(h, x)) = Through(g, FlattenSeq(x))}
<1>3. << >> \in Good
  <2>1. << >> \in Seq(Seq(S)) /\ Through(h, << >>) = << >> /\ Through(g, << >>) = << >>
    BY ThroughOne, EmptySeq
  <2> QED  BY <2>1, FlatOfNone
<1>4. ASSUME NEW x \in Seq(Seq(S)), NEW e \in Seq(S), x \in Good PROVE Append(x, e) \in Good
  <2>1. Through(h, Append(x, e)) = Append(Through(h, x), h[e])
    <3> DEFINE Q == Seq(S)
    <3>1. x \in Seq(Q) /\ e \in Q
      OBVIOUS
    <3> HIDE DEF Q
    <3> QED  BY <3>1, ThroughAppend
  <2>2. h[e] \in Seq(T) /\ Through(h, x) \in Seq(Seq(T))
    <3> DEFINE Q == Seq(S)
               R == Seq(T)
    <3>1. x \in Seq(Q) /\ \A y \in Q : h[y] \in R
      BY <1>1
    <3> HIDE DEF Q, R
    <3>2. Through(h, x) \in Seq(R)
      BY <3>1, ThroughWithin
    <3> QED  BY <1>1, <3>2 DEF R
  <2>3. FlattenSeq(Through(h, Append(x, e))) = FlattenSeq(Through(h, x)) \o h[e]
    BY <2>1, <2>2, FlatOfOneMore
  <2>4. FlattenSeq(Append(x, e)) = FlattenSeq(x) \o e /\ FlattenSeq(x) \in Seq(S)
    BY FlatOfOneMore, FlatType
  <2>5. Through(g, FlattenSeq(x) \o e) = Through(g, FlattenSeq(x)) \o Through(g, e)
    <3> DEFINE f == FlattenSeq(x)
    <3>1. f \in Seq(S)
      BY <2>4
    <3> HIDE DEF f
    <3>2. Through(g, f \o e) = Through(g, f) \o Through(g, e)
      BY <3>1, ThroughConcat
    <3> QED  BY <3>2 DEF f
  <2>6. h[e] = Through(g, e)
    BY <1>1
  <2>7. Append(x, e) \in Seq(Seq(S))
    OBVIOUS
  <2> QED  BY <1>4, <2>3, <2>4, <2>5, <2>6, <2>7
<1>5. Seq(Seq(S)) \subseteq Good
  <2> HIDE DEF Good
  <2> QED  BY <1>3, <1>4, ListsByInduction
<1>6. Throughs(g, ss) = Through(h, ss)
  BY <1>2
<1>7. Through(h, ss) \in Seq(Seq(T))
  <2> DEFINE Q == Seq(S)
             R == Seq(T)
  <2>1. ss \in Seq(Q) /\ \A y \in Q : h[y] \in R
    BY <1>1
  <2> HIDE DEF Q, R
  <2>2. Through(h, ss) \in Seq(R)
    BY <2>1, ThroughWithin
  <2> QED  BY <2>2 DEF R
<1> QED  BY <1>5, <1>6, <1>7
=============================================================================
