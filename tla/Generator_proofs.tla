-------------------------- MODULE Generator_proofs --------------------------
(***************************************************************************)
(* The generator.  First the names it declares: the registry never gives   *)
(* out a name twice, whatever the declarations are and however their names *)
(* are put together, and a type is referred to by a name that is its own.  *)
(* Then the methods it emits: what they decode, whatever the type and the  *)
(* document are.                                                           *)
(***************************************************************************)
EXTENDS NameRegistry, GeneratedCodec, IndexLemmas, FiniteSetTheorems, FunctionTheorems

(* The counts of the names in use. *)
Counts(map) == IsFiniteSet(DOMAIN map) /\ \A name \in DOMAIN map : map[name] \in Nat \ {0}

LEMMA TakeCounts ==
  ASSUME NEW map, Counts(map), NEW name, NEW count \in Nat \ {0}
  PROVE  /\ Counts(Take(map, name, count))
         /\ DOMAIN Take(map, name, count) = DOMAIN map \cup {name}
<1>1. DOMAIN Take(map, name, count) = DOMAIN map \cup {name}
  BY DEF Take
<1>2. IsFiniteSet(DOMAIN map \cup {name})
  BY FS_AddElement DEF Counts
<1>3. \A x \in DOMAIN map \cup {name} : Take(map, name, count)[x] \in Nat \ {0}
  BY DEF Take, Counts
<1> QED  BY <1>1, <1>2, <1>3 DEF Counts

(* Among one more numbers than there are names in use one makes a free name. *)
LEMMA FreeNumber ==
  ASSUME NumbersDiffer, NEW map, Counts(map), NEW name, NEW first \in Nat
  PROVE  \E n \in first..(first + Cardinality(DOMAIN map)) :
           Numbered(name, n) \notin DOMAIN map
<1> DEFINE size == Cardinality(DOMAIN map)
           numbers == first..(first + size)
           f == [n \in numbers |-> Numbered(name, n)]
<1>1. size \in Nat
  BY FS_CardinalityType DEF Counts
<1>2. IsFiniteSet(numbers) /\ Cardinality(numbers) = size + 1
  BY <1>1, FS_Interval
<1>3. SUFFICES ASSUME \A n \in numbers : Numbered(name, n) \in DOMAIN map
               PROVE  FALSE
  OBVIOUS
<1>4. f \in [numbers -> DOMAIN map]
  BY <1>3
<1>5. \E m, n \in numbers : m # n /\ f[m] = f[n]
  <2> HIDE DEF f, numbers, size
  <2> QED  BY <1>1, <1>2, <1>4, FS_PigeonHole DEF Counts, size
<1> QED  BY <1>1, <1>5 DEF NumbersDiffer

(* uniqueName returns a name that was not in use, and notes it. *)
LEMMA UniqueNameIsFresh ==
  ASSUME NumbersDiffer, NEW map, Counts(map), NEW candidate
  PROVE  LET unique == UniqueName(candidate, map)
         IN  /\ unique.name \notin DOMAIN map
             /\ unique.name \in DOMAIN unique.used
             /\ DOMAIN map \subseteq DOMAIN unique.used
             /\ Counts(unique.used)
<1> DEFINE count == Taken(map, candidate) + 1
           counted == Take(map, candidate, count)
           numbers == count..(count + Cardinality(DOMAIN counted))
           free == {n \in numbers : Taken(counted, Numbered(candidate, n)) = 0}
           least == CHOOSE n \in free : \A m \in free : n <= m
           name == Numbered(candidate, least)
<1>1. count \in Nat \ {0} /\ (count = 1 <=> candidate \notin DOMAIN map)
  BY DEF Taken, Counts
<1>2. Counts(counted) /\ DOMAIN counted = DOMAIN map \cup {candidate}
  <2> HIDE DEF count
  <2> QED  BY <1>1, TakeCounts
<1>3. CASE count = 1
  BY <1>1, <1>2, <1>3 DEF UniqueName
<1>4. CASE count # 1
  <2>1. free # {}
    <3>1. \E n \in numbers : Numbered(candidate, n) \notin DOMAIN counted
      <4> HIDE DEF count, counted
      <4> QED  BY <1>1, <1>2, FreeNumber
    <3> QED  BY <3>1 DEF Taken
  <2>2. free \subseteq Nat
    BY <1>1, <1>2, FS_CardinalityType DEF Counts
  <2>3. least \in free
    <3> HIDE DEF free
    <3> QED  BY <2>1, <2>2, SmallestIndex
  <2>4. name \notin DOMAIN counted
    <3> HIDE DEF counted, least
    <3> QED  BY <1>2, <2>3 DEF Taken, Counts
  <2>5. Counts(Take(counted, name, 1)) /\ DOMAIN Take(counted, name, 1) = DOMAIN counted \cup {name}
    <3>1. 1 \in Nat \ {0}
      OBVIOUS
    <3> HIDE DEF counted, name
    <3> QED  BY <1>2, <3>1, TakeCounts
  <2>6. UniqueName(candidate, map) = [name |-> name, used |-> Take(counted, name, 1)]
    BY <1>4 DEF UniqueName
  <2>7. /\ UniqueName(candidate, map).name = name
        /\ UniqueName(candidate, map).used = Take(counted, name, 1)
    BY <2>6
  <2> HIDE DEF counted, name
  <2> QED  BY <1>2, <2>4, <2>5, <2>7
<1> QED  BY <1>3, <1>4
-----------------------------------------------------------------------------
InUse == /\ Counts(used)
         /\ \A k \in DOMAIN declarations : declarations[k] \in DOMAIN used
         /\ InterfaceNames \subseteq DOMAIN used

IInv == InUse /\ NamesUnique

LEMMA InitIInv == Init => IInv
<1> SUFFICES ASSUME Init PROVE IInv
  OBVIOUS
<1> DEFINE indices == DOMAIN interfaces
           f == [n \in indices |-> interfaces[n].name]
<1>1. used = [name \in InterfaceNames |-> 1] /\ declarations = << >>
  BY DEF Init
<1>2. IsFiniteSet(InterfaceNames)
  <2>1. indices = 1..Len(interfaces) /\ Len(interfaces) \in Nat
    BY RegistryAssumption DEF Init
  <2>2. IsFiniteSet(indices)
    BY <2>1, FS_Interval
  <2>3. f \in Surjection(indices, InterfaceNames)
    BY DEF Surjection, InterfaceNames
  <2> HIDE DEF f, indices
  <2> QED  BY <2>2, <2>3, FS_Surjection
<1>3. Counts(used)
  BY <1>1, <1>2 DEF Counts
<1>4. DOMAIN declarations = {}
  BY <1>1
<1> QED  BY <1>1, <1>3, <1>4 DEF IInv, InUse, NamesUnique, InterfaceNames

LEMMA AssignIInv ==
  ASSUME NumbersDiffer, IInv, AssignName
  PROVE  IInv'
<1> DEFINE d == Group[at]
           unique == UniqueName(Candidate(d), used)
<1>1. /\ used' = unique.used
      /\ declarations' = Put(declarations, KeyOf(d), unique.name)
      /\ interfaces' = interfaces
  BY DEF AssignName, Assign
<1>2. /\ unique.name \notin DOMAIN used
      /\ unique.name \in DOMAIN unique.used
      /\ DOMAIN used \subseteq DOMAIN unique.used
      /\ Counts(unique.used)
  BY UniqueNameIsFresh DEF IInv, InUse
<1>3. \A k \in DOMAIN declarations' :
        \/ k = KeyOf(d) /\ declarations'[k] = unique.name
        \/ k # KeyOf(d) /\ k \in DOMAIN declarations /\ declarations'[k] = declarations[k]
  BY <1>1 DEF Put, Take
<1> HIDE DEF unique, d
<1>4. InUse'
  BY <1>1, <1>2, <1>3 DEF InUse, IInv, InterfaceNames
<1>5. NamesUnique'
  BY <1>1, <1>2, <1>3 DEF NamesUnique, InUse, IInv, InterfaceNames
<1> QED  BY <1>4, <1>5 DEF IInv

LEMMA NextIInv ==
  ASSUME NumbersDiffer, IInv, [Next]_vars
  PROVE  IInv'
<1>1. CASE AssignName
  BY <1>1, AssignIInv
<1>2. CASE \/ PublishTypes \/ NamesDone \/ DeclareType \/ DeclareInterfaces \/ DeclareAlias
           \/ Finish \/ UNCHANGED vars
  <2>1. UNCHANGED <<used, declarations, interfaces>>
    BY <1>2 DEF PublishTypes, NamesDone, DeclareType, DeclareInterfaces, DeclareAlias,
                Finish, vars
  <2> QED  BY <2>1 DEF IInv, InUse, NamesUnique, InterfaceNames
<1> QED  BY <1>1, <1>2 DEF Next

(* No two declarations share a Go name, and none has that of an interface,   *)
(* for every list of declarations and every way to join strings in which     *)
(* different numbers after a name make different names.                       *)
THEOREM NamesAreUnique == NumbersDiffer => (Spec => []NamesUnique)
<1> SUFFICES ASSUME NumbersDiffer PROVE Spec => []NamesUnique
  OBVIOUS
<1>1. IInv /\ [Next]_vars => IInv'
  BY NextIInv
<1>2. IInv => NamesUnique
  BY DEF IInv
<1> QED  BY InitIInv, <1>1, <1>2, PTL DEF Spec
-----------------------------------------------------------------------------
IsTuple(f, n) == DOMAIN f = 1..n /\ f = [k \in DOMAIN f |-> f[k]]

(* What comes before each member of S, in a strict total order.               *)
IsOrder(S, below) ==
  /\ \A x \in S : below[x] \subseteq S /\ x \notin below[x]
  /\ \A x, y \in S : x = y \/ x \in below[y] \/ y \in below[x]
  /\ \A x, y \in S : x \in below[y] => below[x] \subseteq below[y]

IsRanked(sorted, S, below) ==
  \A n \in 1..Cardinality(S) :
    (\E x \in S : Cardinality(below[x]) = n - 1)
      => sorted[n] \in S /\ Cardinality(below[sorted[n]]) = n - 1

(* Where the members of a finite set are put by how many come before each,   *)
(* every one of them has a place.                                             *)
LEMMA RankedList ==
  ASSUME NEW S, IsFiniteSet(S), NEW below, IsOrder(S, below),
         NEW sorted, IsTuple(sorted, Cardinality(S)), IsRanked(sorted, S, below)
  PROVE  /\ sorted \in Seq(S)
         /\ Len(sorted) = Cardinality(S)
         /\ \A x \in S : \E n \in DOMAIN sorted : sorted[n] = x
<1> DEFINE size == Cardinality(S)
           rank == [x \in S |-> Cardinality(below[x])]
<1>1. size \in Nat /\ size - 1 \in Int
  BY FS_CardinalityType
<1> USE DEF IsOrder
<1>2. \A x \in S : IsFiniteSet(below[x]) /\ rank[x] \in Nat
  BY FS_Subset, FS_CardinalityType
<1>3. \A x \in S : \A T : IsFiniteSet(T) /\ T \subseteq S /\ below[x] \subseteq T /\ x \in T
                             => rank[x] < Cardinality(T)
  <2> SUFFICES ASSUME NEW x \in S, NEW T, IsFiniteSet(T), below[x] \subseteq T, x \in T
               PROVE  rank[x] < Cardinality(T)
    OBVIOUS
  <2>1. /\ IsFiniteSet(below[x] \cup {x})
        /\ Cardinality(below[x] \cup {x}) = Cardinality(below[x]) + 1
    BY <1>2, FS_AddElement
  <2>2. below[x] \cup {x} \in SUBSET T
    OBVIOUS
  <2>3. Cardinality(below[x] \cup {x}) <= Cardinality(T) /\ Cardinality(T) \in Nat
    BY <2>2, FS_Subset, FS_CardinalityType
  <2> QED  BY <1>2, <2>1, <2>3
<1>4. \A x, y \in S : x \in below[y] => rank[x] < rank[y]
  <2> SUFFICES ASSUME NEW x \in S, NEW y \in S, x \in below[y] PROVE rank[x] < rank[y]
    OBVIOUS
  <2>1. below[x] \subseteq below[y] /\ IsFiniteSet(below[y]) /\ below[y] \subseteq S
    BY <1>2
  <2>2. rank[x] < Cardinality(below[y])
    <3> HIDE DEF rank
    <3> QED  BY <1>3, <2>1
  <2> QED  BY <2>2
<1>5. \A x \in S : rank[x] < size
  <2> HIDE DEF rank
  <2> QED  BY <1>3
<1>6. rank \in [S -> 0..(size - 1)]
  <2>1. \A x \in S : rank[x] \in 0..(size - 1)
    <3> HIDE DEF rank, size
    <3> QED  BY <1>1, <1>2, <1>5
  <2> QED  BY <2>1
<1>7. \A x, y \in S : rank[x] = rank[y] => x = y
  <2> HIDE DEF rank
  <2> QED  BY <1>2, <1>4
<1>8. rank \in Injection(S, 0..(size - 1))
  <2> HIDE DEF rank, size
  <2> QED  BY <1>6, <1>7 DEF Injection, IsInjective
<1>9. IsFiniteSet(0..(size - 1)) /\ Cardinality(0..(size - 1)) = size
  <2> HIDE DEF size
  <2> QED  BY <1>1, FS_Interval
<1>10. rank \in Surjection(S, 0..(size - 1))
  <2> HIDE DEF rank
  <2> QED  BY <1>8, <1>9, FS_Injection
<1>11. \A n \in 1..size : sorted[n] \in S /\ rank[sorted[n]] = n - 1
  <2> SUFFICES ASSUME NEW n \in 1..size PROVE sorted[n] \in S /\ rank[sorted[n]] = n - 1
    OBVIOUS
  <2>1. n - 1 \in 0..(size - 1)
    <3> HIDE DEF size
    <3> QED  BY <1>1
  <2>2. \E x \in S : rank[x] = n - 1
    <3> HIDE DEF rank, size
    <3> QED  BY <1>10, <2>1 DEF Surjection
  <2> QED  BY <2>2 DEF IsRanked
<1>12. sorted \in Seq(S) /\ Len(sorted) = size
  <2>1. sorted \in [1..size -> S]
    <3>1. IsTuple(sorted, size) /\ \A n \in 1..size : sorted[n] \in S
      BY <1>11
    <3> HIDE DEF rank, size
    <3> QED  BY ONLY <3>1 DEF IsTuple
  <2> HIDE DEF rank, size
  <2> QED  BY <1>1, <2>1
<1>13. \A x \in S : \E n \in DOMAIN sorted : sorted[n] = x
  <2> SUFFICES ASSUME NEW x \in S PROVE \E n \in DOMAIN sorted : sorted[n] = x
    OBVIOUS
  <2>1. rank[x] + 1 \in 1..size
    <3> HIDE DEF rank, size
    <3> QED  BY <1>1, <1>2, <1>5
  <2>2. rank[sorted[rank[x] + 1]] = rank[x] /\ sorted[rank[x] + 1] \in S
    <3> HIDE DEF rank, size
    <3> QED  BY <1>2, <1>11, <2>1
  <2>3. sorted[rank[x] + 1] = x
    <3> HIDE DEF rank, size
    <3> QED  BY <1>7, <2>2
  <2>4. rank[x] + 1 \in DOMAIN sorted
    <3> HIDE DEF rank, size
    <3> QED  BY <1>1, <1>12, <2>1
  <2> QED  BY <2>3, <2>4
<1> QED  BY <1>12, <1>13

InputIsList(list) ==
  /\ list \in Seq(MetaDecl)
  /\ DistinctKeys(list)

Bases == {Base(input[i]) : i \in Declared}

LEMMA DeclaredAre ==
  ASSUME InputIsList(input)
  PROVE  /\ Len(input) \in Nat /\ DOMAIN input = 1..Len(input)
         /\ IsFiniteSet(Declared) /\ Cardinality(Declared) <= Len(input)
         /\ Declared \subseteq DOMAIN input
         /\ \A i \in DOMAIN input : input[i] \in MetaDecl
<1>1. input \in Seq(MetaDecl)
  BY DEF InputIsList
<1>2. /\ Len(input) \in Nat /\ DOMAIN input = 1..Len(input)
      /\ \A i \in DOMAIN input : input[i] \in MetaDecl
  BY <1>1
<1>3. IsFiniteSet(1..Len(input)) /\ Cardinality(1..Len(input)) = Len(input)
  BY <1>2, FS_Interval
<1>4. Declared \in SUBSET (1..Len(input))
  BY <1>2 DEF Declared
<1>5. IsFiniteSet(Declared) /\ Cardinality(Declared) <= Len(input)
  BY <1>3, <1>4, FS_Subset
<1> QED  BY <1>2, <1>4, <1>5

(* Every base is in the list of the bases.                                    *)
LEMMA BasesListed ==
  ASSUME InputIsList(input)
  PROVE  /\ SortedBases \in Seq(Bases)
         /\ \A x \in Bases : \E n \in DOMAIN SortedBases : SortedBases[n] = x
<1> DEFINE below == [x \in Bases |-> {y \in Bases : Before(y, x)}]
           f == [i \in Declared |-> Base(input[i])]
           names == {GoName(d[1], d[2]) : d \in Namespace \X Local}
<1>1. IsFiniteSet(Bases)
  <2>1. f \in Surjection(Declared, Bases)
    BY DEF Surjection, Bases
  <2> HIDE DEF f
  <2> QED  BY <2>1, DeclaredAre, FS_Surjection
<1>2. Bases \subseteq names
  <2> SUFFICES ASSUME NEW i \in Declared PROVE Base(input[i]) \in names
    BY DEF Bases
  <2>1. input[i] \in MetaDecl
    BY DeclaredAre
  <2>2. <<input[i].namespace, input[i].local>> \in Namespace \X Local
    BY <2>1 DEF MetaDecl
  <2> QED  BY <2>2 DEF Base
<1>3. Orders(names)
  BY StringsAreOrdered
<1> HIDE DEF names
<1>4. IsOrder(Bases, below)
  BY <1>2, <1>3 DEF Orders, IsOrder
<1>5. IsTuple(SortedBases, Cardinality(Bases))
  <2>1. SortedBases = InOrder(Bases, Before)
    BY DEF SortedBases, Bases
  <2>2. IsTuple(InOrder(Bases, Before), Cardinality(Bases))
    <3> DEFINE chosen(n) == CHOOSE x \in Bases : Cardinality({y \in Bases : Before(y, x)}) = n - 1
               list == [n \in 1..Cardinality(Bases) |-> chosen(n)]
    <3> HIDE DEF chosen
    <3>1. DOMAIN list = 1..Cardinality(Bases)
      OBVIOUS
    <3>2. list = [k \in 1..Cardinality(Bases) |-> list[k]]
      <4>1. \A k \in 1..Cardinality(Bases) : list[k] = chosen(k)
        OBVIOUS
      <4> QED  BY <4>1
    <3>3. IsTuple(list, Cardinality(Bases))
      <4> HIDE DEF list
      <4> QED  BY ONLY <3>1, <3>2 DEF IsTuple
    <3> QED  BY <3>3 DEF InOrder, chosen
  <2> QED  BY ONLY <2>1, <2>2
<1>6. IsRanked(SortedBases, Bases, below)
  BY DEF SortedBases, InOrder, Bases, IsRanked
<1> HIDE DEF below
<1> QED  BY ONLY <1>1, <1>4, <1>5, <1>6, RankedList


LEMMA OrderOfDeclarations ==
  ASSUME InputIsList(input)
  PROVE  /\ \A i \in DOMAIN input : ~ DeclarationLess(i, i)
         /\ \A i, j \in DOMAIN input : i = j \/ DeclarationLess(i, j) \/ DeclarationLess(j, i)
         /\ \A i, j, k \in DOMAIN input :
              DeclarationLess(i, j) /\ DeclarationLess(j, k) => DeclarationLess(i, k)
<1> DEFINE spaceOf(i) == input[i].namespace
           localOf(i) == input[i].local
           rankOf(i) == KindRank(input[i].kind)
<1>1. \A i \in DOMAIN input : /\ spaceOf(i) \in Namespace /\ localOf(i) \in Local
                              /\ input[i].kind \in Kinds
  BY DeclaredAre DEF MetaDecl
<1>2. \A i \in DOMAIN input : rankOf(i) \in {0, 1, 2} /\ (rankOf(i) = 2 <=> ~ IsType(input[i]))
  BY <1>1 DEF KindRank, Kinds, IsType
<1>3. \A i, j \in DOMAIN input :
        DeclarationLess(i, j) <=> \/ Before(spaceOf(i), spaceOf(j))
                                  \/ spaceOf(i) = spaceOf(j) /\ Before(localOf(i), localOf(j))
                                  \/ spaceOf(i) = spaceOf(j) /\ localOf(i) = localOf(j) /\ rankOf(i) < rankOf(j)
  BY DEF DeclarationLess, QNameOf
<1>4. \A i, j \in DOMAIN input :
        spaceOf(i) = spaceOf(j) /\ localOf(i) = localOf(j) /\ rankOf(i) = rankOf(j) => i = j
  BY <1>2 DEF InputIsList, DistinctKeys, QNameOf
<1>5. Orders(Namespace) /\ Orders(Local)
  BY StringsAreOrdered
<1> HIDE DEF spaceOf, localOf, rankOf
<1>6. \A i \in DOMAIN input : ~ DeclarationLess(i, i)
  BY ONLY <1>1, <1>2, <1>3, <1>5 DEF Orders
<1>7. \A i, j \in DOMAIN input : i = j \/ DeclarationLess(i, j) \/ DeclarationLess(j, i)
  BY ONLY <1>1, <1>2, <1>3, <1>4, <1>5 DEF Orders
<1>8. \A i, j, k \in DOMAIN input :
        DeclarationLess(i, j) /\ DeclarationLess(j, k) => DeclarationLess(i, k)
  BY ONLY <1>1, <1>2, <1>3, <1>5 DEF Orders
<1> QED  BY <1>6, <1>7, <1>8

(* The group of the first base has every declaration of it.                   *)
LEMMA GroupIsOfBase ==
  ASSUME InputIsList(input)
  PROVE  /\ Group \in Seq(MetaDecl)
         /\ Len(Group) \in Nat /\ DOMAIN Group = 1..Len(Group)
         /\ Len(Group) <= Len(input)
         /\ \A n \in DOMAIN Group :
              \E i \in Declared : Base(input[i]) = Head(bases) /\ Group[n] = input[i]
         /\ \A i \in Declared :
              Base(input[i]) = Head(bases) => \E n \in DOMAIN Group : Group[n] = input[i]
<1> DEFINE members == {i \in Declared : Base(input[i]) = Head(bases)}
           below == [i \in members |-> {j \in members : DeclarationLess(j, i)}]
           chosen(n) == CHOOSE x \in members :
                          Cardinality({y \in members : DeclarationLess(y, x)}) = n - 1
           sorted == [n \in 1..Cardinality(members) |-> chosen(n)]
<1>1. /\ members \subseteq DOMAIN input
      /\ IsFiniteSet(members) /\ Cardinality(members) <= Len(input)
      /\ Cardinality(members) \in Nat
  <2>1. /\ members \in SUBSET Declared /\ IsFiniteSet(Declared)
        /\ Cardinality(Declared) <= Len(input) /\ Len(input) \in Nat
        /\ Declared \subseteq DOMAIN input
    BY DeclaredAre
  <2>2. /\ IsFiniteSet(members) /\ Cardinality(members) <= Cardinality(Declared)
        /\ Cardinality(members) \in Nat /\ Cardinality(Declared) \in Nat
    <3> HIDE DEF members
    <3> QED  BY <2>1, FS_Subset, FS_CardinalityType
  <2> QED  BY <2>1, <2>2
<1>2. IsOrder(members, below)
  <2>1. /\ \A i \in members : ~ DeclarationLess(i, i)
        /\ \A i, j \in members : i = j \/ DeclarationLess(i, j) \/ DeclarationLess(j, i)
        /\ \A i, j, k \in members :
             DeclarationLess(i, j) /\ DeclarationLess(j, k) => DeclarationLess(i, k)
    BY <1>1, OrderOfDeclarations
  <2> HIDE DEF members
  <2> QED  BY <2>1 DEF IsOrder
<1>3. IsTuple(sorted, Cardinality(members))
  <2> HIDE DEF chosen, members
  <2>1. DOMAIN sorted = 1..Cardinality(members)
    OBVIOUS
  <2>2. sorted = [k \in 1..Cardinality(members) |-> sorted[k]]
    <3>1. \A k \in 1..Cardinality(members) : sorted[k] = chosen(k)
      OBVIOUS
    <3> QED  BY <3>1
  <2> HIDE DEF sorted
  <2> QED  BY ONLY <2>1, <2>2 DEF IsTuple
<1>4. IsRanked(sorted, members, below)
  <2> SUFFICES ASSUME NEW n \in 1..Cardinality(members),
                      NEW i \in members, Cardinality(below[i]) = n - 1
               PROVE  /\ sorted[n] \in members
                      /\ Cardinality(below[sorted[n]]) = n - 1
    <3> HIDE DEF members, below, sorted
    <3> QED  BY DEF IsRanked
  <2> HIDE DEF members
  <2>1. sorted[n] = chosen(n)
    BY DEF sorted
  <2>2. chosen(n) \in members /\ Cardinality({y \in members : DeclarationLess(y, chosen(n))}) = n - 1
    BY DEF chosen
  <2> HIDE DEF chosen, sorted
  <2> QED  BY <2>1, <2>2
<1>5. /\ sorted \in Seq(members) /\ Len(sorted) = Cardinality(members)
      /\ \A i \in members : \E n \in DOMAIN sorted : sorted[n] = i
  <2> HIDE DEF members, below, sorted
  <2> QED  BY ONLY <1>1, <1>2, <1>3, <1>4, RankedList
<1>6. Group = [n \in DOMAIN sorted |-> input[sorted[n]]]
  BY DEF Group, InOrder
<1> HIDE DEF sorted, below, chosen
<1>7. \A i \in members : input[i] \in MetaDecl
  BY <1>1, DeclaredAre
<1>8. Group \in Seq(MetaDecl) /\ DOMAIN Group = DOMAIN sorted /\ Len(Group) = Len(sorted)
  <2> HIDE DEF members
  <2>1. DOMAIN sorted = 1..Len(sorted) /\ Len(sorted) \in Nat /\ \A n \in DOMAIN sorted : sorted[n] \in members
    BY <1>1, <1>5
  <2>2. \A n \in DOMAIN sorted : input[sorted[n]] \in MetaDecl
    BY <1>7, <2>1
  <2>3. Group \in [1..Len(sorted) -> MetaDecl]
    BY ONLY <1>6, <2>1, <2>2
  <2> QED  BY <2>1, <2>3
<1>9. \A n \in DOMAIN Group : sorted[n] \in members /\ Group[n] = input[sorted[n]]
  <2> HIDE DEF members
  <2> QED  BY <1>5, <1>6, <1>8
<1>10. Len(Group) \in Nat /\ DOMAIN Group = 1..Len(Group) /\ Len(Group) <= Len(input)
  <2> HIDE DEF members
  <2> QED  BY <1>1, <1>5, <1>8
<1>11. \A i \in members : \E n \in DOMAIN Group : Group[n] = input[i]
  <2> HIDE DEF members
  <2> QED  BY <1>5, <1>8, <1>9
<1> QED  BY <1>8, <1>9, <1>10, <1>11

-----------------------------------------------------------------------------
(* Type i is referred to by its own name, or by that of an element that      *)
(* stands for it.                                                             *)
IsPublic(i) ==
  \E j \in Declared :
    /\ Base(input[j]) = Base(input[i])
    /\ KeyOf(input[j]) \in DOMAIN declarations
    /\ QNameOf(input[i]) \in DOMAIN types
    /\ types[QNameOf(input[i])] = declarations[KeyOf(input[j])]
    /\ j = i \/ StandsFor(input[j], input[i])

(* The groups that are done have all their names, and the first one of the   *)
(* others has those of its declarations that were looked at.                  *)
GroupInv ==
  /\ at \in 1..(Len(input) + 1)
  /\ bases # << >> => at = 1 \/ at <= Len(Group) + 1
  /\ bases # << >> =>
       \A n \in 1..(at - 1) :
         /\ KeyOf(Group[n]) \in DOMAIN declarations
         /\ IsType(Group[n]) => QNameOf(Group[n]) \in DOMAIN implementationTypes

PublicInv ==
  \A i \in Declared :
    IsType(input[i]) => \/ \E n \in DOMAIN bases : bases[n] = Base(input[i])
                        \/ IsPublic(i)

RegistryInv ==
  /\ InputIsList(input)
  /\ Counts(used)
  /\ bases \in Seq(Bases)
  /\ next \in 1..(Len(input) + 1)
  /\ pc \in {"names", "types", "aliases", "done"}
  /\ pc # "names" => bases = << >>
  /\ DOMAIN declarations \subseteq {KeyOf(input[i]) : i \in Declared}
  /\ DOMAIN types \subseteq DOMAIN implementationTypes
  /\ GroupInv
  /\ PublicInv

InputsAreDistinct == \A list \in Inputs : DistinctKeys(list)

LEMMA SameKeys ==
  ASSUME InputIsList(input), NEW i \in Declared, NEW j \in Declared,
         KeyOf(input[i]) = KeyOf(input[j])
  PROVE  i = j
<1>1. i \in DOMAIN input /\ j \in DOMAIN input
  BY DeclaredAre
<1>2. /\ input[i].kind = input[j].kind /\ input[i].namespace = input[j].namespace
      /\ input[i].local = input[j].local
  BY DEF KeyOf
<1> QED  BY <1>1, <1>2 DEF InputIsList, DistinctKeys, QNameOf, IsType

LessIn(list, i, j) ==
  LET a == list[i]
      b == list[j]
  IN  \/ Before(a.namespace, b.namespace)
      \/ a.namespace = b.namespace /\ Before(a.local, b.local)
      \/ QNameOf(a) = QNameOf(b) /\ KindRank(a.kind) < KindRank(b.kind)

GroupIn(list, declared, base) ==
  LET members == {i \in declared : Base(list[i]) = base}
      size == Cardinality(members)
      sorted == [n \in 1..size |-> CHOOSE x \in members :
                                     Cardinality({y \in members : LessIn(list, y, x)}) = n - 1]
  IN  [n \in DOMAIN sorted |-> list[sorted[n]]]

LEMMA SameGroup ==
  ASSUME UNCHANGED <<input, bases>>
  PROVE  Group' = Group /\ Bases' = Bases /\ Declared' = Declared
<1>1. input' = input /\ bases' = bases
  OBVIOUS
<1>2. Declared' = Declared
  BY ONLY <1>1 DEF Declared, Base
<1>3. Bases' = Bases
  BY ONLY <1>1, <1>2 DEF Bases, Base
<1>4. Group' = Group
  <2>1. Group = GroupIn(input, Declared, Head(bases))
    BY ONLY DEF Group, GroupIn, DeclarationLess, LessIn, InOrder
  <2>2. Group' = GroupIn(input', Declared', Head(bases'))
    BY ONLY DEF Group, GroupIn, DeclarationLess, LessIn, InOrder
  <2> QED  BY ONLY <1>1, <1>2, <2>1, <2>2
<1> QED  BY <1>2, <1>3, <1>4

LEMMA InitRegistryInv ==
  ASSUME InputsAreDistinct, Init
  PROVE  RegistryInv
<1>1. InputIsList(input)
  BY RegistryAssumption DEF Init, InputIsList, InputsAreDistinct
<1>2. Counts(used)
  BY InitIInv DEF IInv, InUse
<1>3. bases = SortedBases /\ at = 1 /\ next = 1 /\ pc = "names"
      /\ declarations = << >> /\ types = << >> /\ implementationTypes = << >>
  BY DEF Init
<1>4. bases \in Seq(Bases) /\ \A x \in Bases : \E n \in DOMAIN bases : bases[n] = x
  BY <1>1, <1>3, BasesListed
<1>5. Len(input) \in Nat
  BY <1>1, DeclaredAre
<1>6. GroupInv
  BY <1>3, <1>5 DEF GroupInv
<1>7. PublicInv
  BY <1>4 DEF PublicInv, Bases
<1> QED  BY <1>1, <1>2, <1>3, <1>4, <1>5, <1>6, <1>7 DEF RegistryInv

LEMMA NameKeepsInv ==
  ASSUME NumbersDiffer, RegistryInv, AssignName
  PROVE  RegistryInv'
<1> DEFINE d == Group[at]
           unique == UniqueName(Candidate(d), used)
<1>1. /\ pc = "names" /\ bases # << >> /\ at <= Len(Group) /\ at' = at + 1
      /\ used' = unique.used
      /\ declarations' = Put(declarations, KeyOf(d), unique.name)
      /\ implementationTypes' = IF IsType(d)
                                THEN Put(implementationTypes, QNameOf(d), unique.name)
                                ELSE implementationTypes
      /\ UNCHANGED <<input, interfaces, bases, types, next, pc>>
  BY DEF AssignName, Assign, InGroup
<1>2. InputIsList(input) /\ Counts(unique.used)
  BY UniqueNameIsFresh DEF RegistryInv
<1> HIDE DEF unique
<1>3. Group' = Group /\ Bases' = Bases /\ Declared' = Declared
  BY <1>1, SameGroup
<1>4. at \in 1..Len(Group) /\ Len(Group) <= Len(input) /\ Len(input) \in Nat /\ Len(Group) \in Nat
  BY <1>1, <1>2, GroupIsOfBase, DeclaredAre DEF RegistryInv, GroupInv
<1>5. PICK k \in Declared : Base(input[k]) = Head(bases) /\ d = input[k]
  BY <1>2, <1>4, GroupIsOfBase
<1> HIDE DEF d
<1>6. /\ DOMAIN declarations' = DOMAIN declarations \cup {KeyOf(d)}
      /\ \A key \in DOMAIN declarations : key # KeyOf(d) => declarations'[key] = declarations[key]
      /\ DOMAIN implementationTypes \subseteq DOMAIN implementationTypes'
      /\ IsType(d) => QNameOf(d) \in DOMAIN implementationTypes'
  BY <1>1 DEF Put, Take
<1>7. GroupInv'
  <2>1. \A n \in 1..at : /\ KeyOf(Group[n]) \in DOMAIN declarations'
                         /\ IsType(Group[n]) => QNameOf(Group[n]) \in DOMAIN implementationTypes'
    BY <1>1, <1>4, <1>6 DEF RegistryInv, GroupInv, d
  <2> QED  BY <1>1, <1>3, <1>4, <2>1 DEF GroupInv
<1>8. PublicInv'
  <2> SUFFICES ASSUME NEW i \in Declared, IsType(input[i]),
                      \A n \in DOMAIN bases : bases[n] # Base(input[i])
               PROVE  IsPublic(i)'
    BY <1>1, <1>3 DEF PublicInv
  <2>1. IsPublic(i)
    BY DEF RegistryInv, PublicInv
  <2>2. PICK j \in Declared :
          /\ Base(input[j]) = Base(input[i])
          /\ KeyOf(input[j]) \in DOMAIN declarations
          /\ QNameOf(input[i]) \in DOMAIN types
          /\ types[QNameOf(input[i])] = declarations[KeyOf(input[j])]
          /\ j = i \/ StandsFor(input[j], input[i])
    BY <2>1 DEF IsPublic
  <2>3. 1 \in DOMAIN bases /\ Head(bases) = bases[1]
    BY <1>1 DEF RegistryInv
  <2>4. KeyOf(input[j]) # KeyOf(d)
    BY <1>2, <1>5, <2>2, <2>3, SameKeys
  <2> QED  BY <1>1, <1>3, <1>6, <2>2, <2>4 DEF IsPublic
<1>9. DOMAIN declarations' \subseteq {KeyOf(input[i]) : i \in Declared}
  BY <1>5, <1>6 DEF RegistryInv
<1> QED  BY <1>1, <1>2, <1>3, <1>6, <1>7, <1>8, <1>9 DEF RegistryInv

(* The public name of a type is that of a declaration of its group.           *)
LEMMA PublicNameIsOfGroup ==
  ASSUME InputIsList(input), NEW n \in DOMAIN Group, IsType(Group[n])
  PROVE  \E m \in DOMAIN Group :
           /\ PublicName(Group[n]) = declarations[KeyOf(Group[m])]
           /\ m = n \/ StandsFor(Group[m], Group[n])
<1> DEFINE elements == {m \in DOMAIN Group : StandsFor(Group[m], Group[n])}
           first == CHOOSE m \in elements : \A k \in elements : m <= k
<1>1. elements \subseteq Nat /\ elements \subseteq DOMAIN Group
  BY GroupIsOfBase
<1>2. CASE elements = {}
  <2>1. PublicName(Group[n]) = declarations[KeyOf(Group[n])]
    BY <1>2 DEF PublicName
  <2> QED  BY <2>1
<1>3. CASE elements # {}
  <2>1. first \in elements
    <3> HIDE DEF elements
    <3> QED  BY <1>1, <1>3, SmallestIndex
  <2>2. PublicName(Group[n]) = declarations[KeyOf(Group[first])]
    BY <1>3 DEF PublicName
  <2> HIDE DEF first
  <2>3. first \in DOMAIN Group /\ StandsFor(Group[first], Group[n])
    BY <2>1
  <2> QED  BY <2>2, <2>3
<1> QED  BY <1>2, <1>3

LEMMA PublishKeepsInv ==
  ASSUME RegistryInv, PublishTypes
  PROVE  RegistryInv'
<1> DEFINE ofGroup == {n \in DOMAIN Group : IsType(Group[n])}
           named == {QNameOf(Group[n]) : n \in ofGroup}
           last(q) == CHOOSE n \in ofGroup : /\ QNameOf(Group[n]) = q
                                             /\ \A m \in ofGroup : QNameOf(Group[m]) = q => m <= n
<1>1. /\ pc = "names" /\ bases # << >> /\ at > Len(Group)
      /\ types' = [q \in DOMAIN types \cup named |->
                     IF q \in named THEN PublicName(Group[last(q)]) ELSE types[q]]
      /\ bases' = Tail(bases) /\ at' = 1
      /\ UNCHANGED <<input, interfaces, used, declarations, implementationTypes, next, pc>>
  BY DEF PublishTypes, InGroup
<1>2. InputIsList(input) /\ bases \in Seq(Bases)
  BY DEF RegistryInv
<1>3. /\ Declared' = Declared /\ Bases' = Bases /\ InputIsList(input)'
      /\ at = Len(Group) + 1 /\ Len(Group) \in Nat /\ DOMAIN Group = 1..Len(Group)
      /\ Len(input) \in Nat
  <2>1. Declared' = Declared
    BY <1>1 DEF Declared, Base
  <2>2. Bases' = Bases
    BY <1>1, <2>1 DEF Bases, Base
  <2>3. /\ Len(Group) \in Nat /\ DOMAIN Group = 1..Len(Group) /\ Len(input) \in Nat
    BY <1>2, GroupIsOfBase, DeclaredAre
  <2>4. (at = 1 \/ at <= Len(Group) + 1) /\ at \in Nat
    BY <1>1, <2>3 DEF RegistryInv, GroupInv
  <2> QED  BY <1>1, <1>2, <2>1, <2>2, <2>3, <2>4
<1>4. \A n \in DOMAIN Group : /\ KeyOf(Group[n]) \in DOMAIN declarations
                              /\ IsType(Group[n]) => QNameOf(Group[n]) \in DOMAIN implementationTypes
  BY <1>1, <1>3 DEF RegistryInv, GroupInv
<1>5. \A q \in named : \E n \in ofGroup :
        /\ QNameOf(Group[n]) = q /\ types'[q] = PublicName(Group[n])
  <2> SUFFICES ASSUME NEW q \in named
               PROVE  \E n \in ofGroup : QNameOf(Group[n]) = q /\ types'[q] = PublicName(Group[n])
    OBVIOUS
  <2> DEFINE places == {n \in ofGroup : QNameOf(Group[n]) = q}
             top == CHOOSE n \in places : \A m \in places : m <= n
  <2>1. types'[q] = PublicName(Group[last(q)])
    <3> HIDE DEF last, named
    <3> QED  BY <1>1
  <2>2. last(q) \in ofGroup /\ QNameOf(Group[last(q)]) = q
    <3>1. places # {} /\ places \subseteq DOMAIN Group /\ places \subseteq 1..Len(Group)
      BY <1>3
    <3>2. \E n \in places : \A m \in places : m <= n
      <4> HIDE DEF places
      <4> QED  BY <1>3, <3>1, LargestIndex
    <3>3. \E n \in ofGroup : /\ QNameOf(Group[n]) = q
                             /\ \A m \in ofGroup : QNameOf(Group[m]) = q => m <= n
      BY <3>2
    <3> HIDE DEF ofGroup
    <3> QED  BY <3>3 DEF last
  <2> HIDE DEF last
  <2> QED  BY <2>1, <2>2
<1>6. DOMAIN types' = DOMAIN types \cup named
  BY <1>1
<1>7. \A q \in DOMAIN types \ named : types'[q] = types[q]
  BY <1>1
<1> HIDE DEF last
<1>8. named \subseteq DOMAIN implementationTypes
  BY <1>4
<1>9. bases' \in Seq(Bases)
  BY <1>1, <1>2
<1>10. GroupInv'
  BY <1>1, <1>3 DEF GroupInv
<1>11. PublicInv'
  <2> SUFFICES ASSUME NEW i \in Declared, IsType(input[i]),
                      \A n \in DOMAIN bases' : bases'[n] # Base(input[i])
               PROVE  IsPublic(i)'
    BY <1>1, <1>3 DEF PublicInv, Base
  <2>1. CASE Base(input[i]) = Head(bases)
    <3>1. PICK k \in DOMAIN Group : Group[k] = input[i]
      BY <1>2, <2>1, GroupIsOfBase
    <3>2. QNameOf(input[i]) \in named
      BY <3>1
    <3>3. PICK n \in ofGroup : /\ QNameOf(Group[n]) = QNameOf(input[i])
                               /\ types'[QNameOf(input[i])] = PublicName(Group[n])
      BY <1>5, <3>2
    <3>4. PICK l \in Declared : Base(input[l]) = Head(bases) /\ Group[n] = input[l]
      BY <1>2, GroupIsOfBase
    <3>5. l = i
      BY <1>2, <3>3, <3>4, DeclaredAre DEF InputIsList, DistinctKeys
    <3>6. PICK m \in DOMAIN Group :
            /\ PublicName(Group[n]) = declarations[KeyOf(Group[m])]
            /\ m = n \/ StandsFor(Group[m], Group[n])
      BY <1>2, PublicNameIsOfGroup
    <3>7. PICK j \in Declared : Base(input[j]) = Head(bases) /\ Group[m] = input[j]
      BY <1>2, GroupIsOfBase
    <3>8. /\ KeyOf(input[j]) \in DOMAIN declarations
          /\ QNameOf(input[i]) \in DOMAIN types'
          /\ types'[QNameOf(input[i])] = declarations[KeyOf(input[j])]
      BY <1>4, <1>6, <3>2, <3>3, <3>6, <3>7
    <3>9. j = i \/ StandsFor(input[j], input[i])
      <4>1. CASE m = n
        <5>1. KeyOf(input[j]) = KeyOf(input[i])
          BY <3>4, <3>5, <3>7, <4>1
        <5> QED  BY <1>2, <5>1, SameKeys
      <4>2. CASE StandsFor(Group[m], Group[n])
        BY <3>4, <3>5, <3>7, <4>2
      <4> QED  BY <3>6, <4>1, <4>2
    <3> QED  BY <1>1, <1>3, <2>1, <3>7, <3>8, <3>9 DEF IsPublic
  <2>2. CASE Base(input[i]) # Head(bases)
    <3>1. \A n \in DOMAIN bases : bases[n] # Base(input[i])
      <4> SUFFICES ASSUME NEW n \in DOMAIN bases, bases[n] = Base(input[i]) PROVE FALSE
        OBVIOUS
      <4>1. n \in 1..Len(bases) /\ Len(bases) \in Nat /\ Head(bases) = bases[1]
        BY <1>1, <1>2
      <4>2. n - 1 \in DOMAIN Tail(bases) /\ Tail(bases)[n - 1] = bases[n]
        BY <1>1, <1>2, <2>2, <4>1
      <4> QED  BY <1>1, <4>2
    <3>2. IsPublic(i)
      BY <3>1 DEF RegistryInv, PublicInv
    <3>3. PICK j \in Declared :
            /\ Base(input[j]) = Base(input[i])
            /\ KeyOf(input[j]) \in DOMAIN declarations
            /\ QNameOf(input[i]) \in DOMAIN types
            /\ types[QNameOf(input[i])] = declarations[KeyOf(input[j])]
            /\ j = i \/ StandsFor(input[j], input[i])
      BY <3>2 DEF IsPublic
    <3>4. QNameOf(input[i]) \notin named
      <4> SUFFICES ASSUME NEW n \in ofGroup, QNameOf(Group[n]) = QNameOf(input[i]) PROVE FALSE
        OBVIOUS
      <4>1. PICK l \in Declared : Base(input[l]) = Head(bases) /\ Group[n] = input[l]
        BY <1>2, GroupIsOfBase
      <4> QED  BY <1>2, <2>2, <4>1, DeclaredAre DEF InputIsList, DistinctKeys
    <3>5. QNameOf(input[i]) \in DOMAIN types' /\ types'[QNameOf(input[i])] = types[QNameOf(input[i])]
      BY <1>6, <1>7, <3>3, <3>4
    <3> HIDE DEF named
    <3> QED  BY <1>1, <1>3, <3>3, <3>5 DEF IsPublic
  <2> QED  BY <2>1, <2>2
<1>12. DOMAIN types' \subseteq DOMAIN implementationTypes'
  BY <1>1, <1>6, <1>8 DEF RegistryInv
<1> HIDE DEF named
<1> QED  BY <1>1, <1>3, <1>9, <1>10, <1>11, <1>12 DEF RegistryInv

LEMMA RegistryInvNext ==
  ASSUME NumbersDiffer, RegistryInv, [Next]_vars
  PROVE  RegistryInv'
<1>1. CASE AssignName
  BY <1>1, NameKeepsInv
<1>2. CASE PublishTypes
  BY <1>2, PublishKeepsInv
<1>3. CASE \/ NamesDone \/ DeclareType \/ DeclareInterfaces \/ DeclareAlias
           \/ Finish \/ UNCHANGED vars
  <2>1. /\ UNCHANGED <<input, used, declarations, implementationTypes, types, bases, at>>
        /\ pc' \in {"names", "types", "aliases", "done"}
        /\ pc' # "names" => bases = << >>
        /\ next' = next \/ (next' = next + 1 /\ next <= Len(input))
    <3>1. /\ pc \in {"names", "types", "aliases", "done"}
          /\ pc # "names" => bases = << >>
      BY DEF RegistryInv
    <3>2. CASE NamesDone
      BY <3>1, <3>2 DEF NamesDone
    <3>3. CASE Finish
      BY <3>1, <3>3 DEF Finish
    <3>4. CASE DeclareType
      BY <3>1, <3>4 DEF DeclareType
    <3>5. CASE DeclareInterfaces
      BY <3>1, <3>5 DEF DeclareInterfaces
    <3>6. CASE DeclareAlias
      BY <3>1, <3>6 DEF DeclareAlias
    <3>7. CASE UNCHANGED vars
      BY <3>1, <3>7 DEF vars
    <3> QED  BY <1>3, <3>2, <3>3, <3>4, <3>5, <3>6, <3>7
  <2>2. Group' = Group /\ Bases' = Bases /\ Declared' = Declared
    BY <2>1, SameGroup
  <2>3. next' \in 1..(Len(input) + 1)
    BY <2>1, DeclaredAre DEF RegistryInv
  <2>4. GroupInv'
    BY <2>1, <2>2 DEF RegistryInv, GroupInv
  <2>5. PublicInv'
    BY <2>1, <2>2 DEF RegistryInv, PublicInv, IsPublic
  <2> QED  BY <2>1, <2>2, <2>3, <2>4, <2>5 DEF RegistryInv
<1> QED  BY <1>1, <1>2, <1>3 DEF Next

LEMMA RegistryInvPublic == RegistryInv => PublicNames
<1> SUFFICES ASSUME RegistryInv PROVE PublicNames
  OBVIOUS
<1>1. RegistryTypeOK
  BY DEF RegistryInv, GroupInv, RegistryTypeOK, Counts
<1>2. ASSUME pc # "names", NEW i \in Declared, IsType(input[i])
      PROVE  \E j \in Declared : /\ types[QNameOf(input[i])] = declarations[KeyOf(input[j])]
                                 /\ j = i \/ StandsFor(input[j], input[i])
  <2>1. bases = << >>
    BY <1>2 DEF RegistryInv
  <2>2. IsPublic(i)
    BY <1>2, <2>1 DEF RegistryInv, PublicInv
  <2> QED  BY <2>2 DEF IsPublic
<1> QED  BY <1>1, <1>2 DEF PublicNames

(* A type is referred to by the name it is declared with, or by that of an   *)
(* element of the type that is declared, however many declarations make one  *)
(* Go name, if no two types and no two elements have the same name.           *)
THEOREM PublicNamesAreDeclared ==
  NumbersDiffer /\ InputsAreDistinct => (Spec => []PublicNames)
<1> SUFFICES ASSUME NumbersDiffer, InputsAreDistinct PROVE Spec => []PublicNames
  OBVIOUS
<1>1. Init => RegistryInv
  BY InitRegistryInv
<1>2. RegistryInv /\ [Next]_vars => RegistryInv'
  BY RegistryInvNext
<1> QED  BY <1>1, <1>2, RegistryInvPublic, PTL DEF Spec
-----------------------------------------------------------------------------
(* The tokens of documents, what a field of a struct may hold, and what a   *)
(* value of it is.                                                           *)
TokenSet ==
  [kind : {"attribute"}, name : Names, value : Contents]
    \cup [kind : {"child"}, name : Names, value : {Nil} \cup Contents]
    \cup [kind : {"text"}, name : {NoName}, value : Contents]

Held(f) ==
  CASE f.kind = "text" -> Values
    [] f.kind = "any" -> Caught
    [] f.kind = "anyAttribute" -> [name : Names, value : Contents]
    [] f.kind \in {"element", "attribute"} -> Values \cup (IF f.nillable THEN {Nil} ELSE {})

IsFieldValue(f, value) ==
  /\ value \in Seq(Held(f))
  /\ IsSlice(f) \/ Len(value) = 1 \/ (IsPointer(f) /\ value = << >>)

LEMMA FieldsOfType ==
  ASSUME type \in Types
  PROVE  /\ type.mixed \in BOOLEAN
         /\ fields \in Seq(Field)
         /\ Len(fields) \in Nat /\ DOMAIN fields = 1 .. Len(fields)
         /\ \A i \in DOMAIN fields : fields[i] \in Field /\ FieldAllowed(fields[i])
<1>1. type \in [mixed : BOOLEAN, marked : BOOLEAN, fields : Seq(Field)]
  BY TypesAssumption
<1>2. type.mixed \in BOOLEAN /\ fields \in Seq(Field)
  BY <1>1 DEF fields
<1>3. Len(fields) \in Nat /\ DOMAIN fields = 1 .. Len(fields)
  BY <1>2, LenProperties
<1>4. \A i \in DOMAIN fields : fields[i] \in Field
  BY <1>2, <1>3, ElementOfSeq
<1>5. \A i \in DOMAIN fields : FieldAllowed(fields[i])
  BY TypesAssumption DEF fields
<1> QED  BY <1>2, <1>3, <1>4, <1>5

LEMMA FieldParts ==
  ASSUME NEW f \in Field
  PROVE  /\ f.kind \in {"element", "attribute", "text", "any", "anyAttribute"}
         /\ f.type \in GoTypes /\ f.name \in Names \cup {NoName}
         /\ f.nillable \in BOOLEAN /\ f.choice \in BOOLEAN /\ f.required \in BOOLEAN
         /\ f.min \in Nat /\ f.max \in {Unbounded} \cup Nat
         /\ f.default \in Contents /\ f.fixed \in Contents
BY DEF Field

LEMMA ShapeIsOneOf == shape \in {"mixed", "choice", "tracked", "alias", "plain"}
BY DEF shape, Shape

(* First finds one, and the first. *)
LEMMA FirstIsFirst ==
  ASSUME NEW n \in Nat, NEW S \in SUBSET (1 .. n)
  PROVE  /\ S = {} => First(S) = 0
         /\ S # {} => First(S) \in S /\ \A j \in S : First(S) <= j
<1>1. CASE S = {}
  BY <1>1 DEF First
<1>2. CASE S # {}
  <2>1. S \subseteq Nat
    OBVIOUS
  <2>2. \E i \in S : \A j \in S : i <= j
    BY <1>2, <2>1, SmallestIndex
  <2> QED  BY <1>2, <2>2 DEF First
<1> QED  BY <1>1, <1>2

(* The field a token goes to is one that takes tokens of its kind.           *)
LEMMA FieldForToken ==
  ASSUME type \in Types, NEW tok
  PROVE  /\ FieldFor(tok) \in {0} \cup DOMAIN fields \/ tok.kind \notin {"attribute", "child", "text"}
         /\ tok.kind = "text" => FieldFor(tok) = 0
         /\ FieldFor(tok) # 0 /\ tok.kind = "attribute" =>
              /\ fields[FieldFor(tok)].kind \in {"attribute", "anyAttribute"}
              /\ ~HasContent
         /\ FieldFor(tok) # 0 /\ tok.kind = "child" =>
              /\ fields[FieldFor(tok)].kind \in {"element", "any"}
              /\ HasContent => /\ fields[FieldFor(tok)].kind = "element"
                               /\ fields[FieldFor(tok)].name = tok.name
<1> DEFINE n == Len(fields)
<1>1. n \in Nat /\ DOMAIN fields = 1 .. n
  BY FieldsOfType
<1>2. \A kind, name : Named(kind, name) \in SUBSET (1 .. n) /\ Tagged(kind, name) \in SUBSET (1 .. n)
  BY <1>1 DEF Named, Tagged
<1>3. \A kind : Catching(kind) \in SUBSET (1 .. n)
  BY <1>1 DEF Catching
<1>4. \A S \in SUBSET (1 .. n) : S # {} => First(S) \in S
  BY <1>1, FirstIsFirst
<1>5. \A S \in SUBSET (1 .. n) : S = {} => First(S) = 0
  BY <1>1, FirstIsFirst
<1> HIDE DEF n
<1>6. CASE tok.kind = "text"
  BY <1>6 DEF FieldFor
<1>7. CASE tok.kind = "attribute"
  <2>1. CASE HasContent
    BY <1>7, <2>1 DEF FieldFor
  <2>2. CASE ~HasContent /\ Tagged("attribute", tok.name) # {}
    <3>1. FieldFor(tok) = First(Tagged("attribute", tok.name))
      BY <1>7, <2>2 DEF FieldFor
    <3>2. FieldFor(tok) \in Tagged("attribute", tok.name)
      BY <3>1, <2>2, <1>2, <1>4
    <3> QED  BY <1>7, <2>2, <3>2 DEF Tagged
  <2>3. CASE ~HasContent /\ Tagged("attribute", tok.name) = {}
    <3>1. FieldFor(tok) = First(Catching("anyAttribute"))
      BY <1>7, <2>3 DEF FieldFor
    <3>2. FieldFor(tok) # 0 => FieldFor(tok) \in Catching("anyAttribute")
      BY <3>1, <1>3, <1>4, <1>5
    <3> QED  BY <1>7, <2>3, <3>2 DEF Catching
  <2> QED  BY <2>1, <2>2, <2>3
<1>8. CASE tok.kind = "child"
  <2>1. CASE HasContent
    <3>1. FieldFor(tok) = First(Named("element", tok.name))
      BY <1>8, <2>1 DEF FieldFor
    <3>2. FieldFor(tok) # 0 => FieldFor(tok) \in Named("element", tok.name)
      BY <3>1, <1>2, <1>4, <1>5
    <3> QED  BY <1>8, <3>2 DEF Named
  <2>2. CASE ~HasContent /\ Tagged("element", tok.name) # {}
    <3>1. FieldFor(tok) = First(Tagged("element", tok.name))
      BY <1>8, <2>2 DEF FieldFor
    <3>2. FieldFor(tok) \in Tagged("element", tok.name)
      BY <3>1, <2>2, <1>2, <1>4
    <3> QED  BY <1>8, <2>2, <3>2 DEF Tagged
  <2>3. CASE ~HasContent /\ Tagged("element", tok.name) = {}
    <3>1. FieldFor(tok) = First(Catching("any"))
      BY <1>8, <2>3 DEF FieldFor
    <3>2. FieldFor(tok) # 0 => FieldFor(tok) \in Catching("any")
      BY <3>1, <1>3, <1>4, <1>5
    <3> QED  BY <1>8, <2>3, <3>2 DEF Catching
  <2> QED  BY <2>1, <2>2, <2>3
<1> QED  BY <1>6, <1>7, <1>8

LEMMA TokenKinds == \A tok \in TokenSet : tok.kind \in {"attribute", "child", "text"}
BY DEF TokenSet

(* What a token parses to is something its field may hold, or not a value;   *)
(* and what a wildcard catches always is one.                                *)
LEMMA DecodeType ==
  ASSUME NEW ty, NEW old, NEW content
  PROVE  Decode(ty, old, content) \in Values \cup {Bad}
BY DEF Decode

LEMMA ParsedType ==
  ASSUME type \in Types, NEW tok \in TokenSet, FieldFor(tok) # 0, NEW old,
         NEW f, f = fields[FieldFor(tok)]
  PROVE  /\ Parsed(f, old, tok) \in Held(f) \cup {Bad}
         /\ f.kind \in {"any", "anyAttribute"} => Parsed(f, old, tok) # Bad
         /\ f.kind \in {"element", "attribute", "any", "anyAttribute"}
<1>1. tok.kind \in {"attribute", "child", "text"}
  BY TokenKinds
<1>2. FieldFor(tok) \in DOMAIN fields
  BY <1>1, FieldForToken
<1>3. f \in Field /\ FieldAllowed(f) /\ f.nillable \in BOOLEAN
  BY <1>2, FieldsOfType, FieldParts
<1>4. \/ tok.kind = "attribute" /\ f.kind \in {"attribute", "anyAttribute"}
      \/ tok.kind = "child" /\ f.kind \in {"element", "any"}
  BY <1>1, FieldForToken
<1>5. CASE f.kind \in {"element", "attribute"}
  <2>1. Held(f) = Values \cup (IF f.nillable THEN {Nil} ELSE {})
    BY <1>5 DEF Held
  <2> QED  BY <1>5, <2>1, DecodeType DEF Parsed
<1>6. CASE f.kind = "any"
  <2>1. tok.name \in Names /\ tok.value \in {Nil} \cup Contents
    BY <1>4, <1>6 DEF TokenSet
  <2>2. Parsed(f, old, tok) = [name |-> tok.name, value |-> tok.value]
    BY <1>6 DEF Parsed
  <2>3. Parsed(f, old, tok) \in Caught
    BY <2>1, <2>2 DEF Caught
  <2>4. Held(f) = Caught
    BY <1>6 DEF Held
  <2> QED  BY <1>6, <2>3, <2>4, CodecAssumption
<1>7. CASE f.kind = "anyAttribute"
  <2>1. tok.name \in Names /\ tok.value \in Contents
    BY <1>4, <1>7 DEF TokenSet
  <2>2. Parsed(f, old, tok) = [name |-> tok.name, value |-> tok.value]
    BY <1>7 DEF Parsed
  <2>3. Parsed(f, old, tok) \in Caught
    BY <2>1, <2>2 DEF Caught
  <2>4. Held(f) = [name : Names, value : Contents]
    BY <1>7 DEF Held
  <2> QED  BY <1>7, <2>1, <2>2, <2>3, <2>4, CodecAssumption
<1> QED  BY <1>4, <1>5, <1>6, <1>7

LEMMA HeldIsNotBad ==
  ASSUME NEW f \in Field
  PROVE  Bad \notin Held(f)
<1>1. f.kind \in {"element", "attribute", "text", "any", "anyAttribute"} /\ Bad \notin Values /\ Bad # Nil
  BY CodecAssumption, FieldParts
<1>2. [name : Names, value : Contents] \subseteq Caught
  BY DEF Caught
<1> QED  BY <1>1, <1>2, CodecAssumption DEF Held

(* Zero values are values. *)
LEMMA ZeroIsValue ==
  ASSUME NEW f \in Field, FieldAllowed(f)
  PROVE  /\ IsFieldValue(f, ZeroField(f))
         /\ f.kind # "anyAttribute" => ZeroItem(f) \in Held(f) /\ ZeroItem(f) # Bad
<1>1. f.kind \in {"element", "attribute", "text", "any", "anyAttribute"} /\ f.type \in GoTypes
  BY FieldParts
<1>2. ZeroOf(f.type) \in Values /\ Nil \notin Values /\ Bad \notin Values
  BY <1>1, CodecAssumption, ValuesAssumption
<1>3. f.kind # "anyAttribute" => ZeroItem(f) \in Held(f) /\ ZeroItem(f) # Bad
  <2>1. CASE f.kind = "any"
    <3>1. ZeroItem(f) = [name |-> NoName, value |-> << >>] /\ Held(f) = Caught
      BY <2>1 DEF ZeroItem, Held
    <3>2. << >> \in Contents
      BY EmptySeq DEF Contents
    <3>3. [name |-> NoName, value |-> << >>] \in Caught
      BY <3>2 DEF Caught
    <3> QED  BY <3>1, <3>3, CodecAssumption
  <2>2. CASE f.kind \in {"element", "attribute", "text"}
    BY <1>2, <2>2 DEF ZeroItem, Held
  <2> QED  BY <1>1, <2>1, <2>2
<1>4. CASE IsSlice(f) \/ IsPointer(f)
  <2>1. ZeroField(f) = << >>
    BY <1>4 DEF ZeroField
  <2>2. << >> \in Seq(Held(f))
    OBVIOUS
  <2> QED  BY <1>3, <1>4, <2>1, <2>2 DEF IsFieldValue
<1>5. CASE ~(IsSlice(f) \/ IsPointer(f))
  <2>1. ZeroField(f) = <<ZeroItem(f)>> /\ f.kind # "anyAttribute"
    BY <1>5 DEF ZeroField, IsSlice
  <2>2. <<ZeroItem(f)>> \in Seq(Held(f)) /\ Len(<<ZeroItem(f)>>) = 1
    BY <1>3, <2>1
  <2> QED  BY <1>3, <2>1, <2>2 DEF IsFieldValue
<1> QED  BY <1>4, <1>5
-----------------------------------------------------------------------------
(* What children make together, one after the other.                         *)
Gathering(g, f, tokens) ==
  g = [n \in 0 .. Len(tokens) |->
         IF n = 0 THEN ZeroItem(f)
         ELSE IF g[n - 1] = Bad THEN Bad ELSE Parsed(f, g[n - 1], tokens[n])]

Gathers == {"element", "attribute", "any"}

LEMMA GatheringExists ==
  ASSUME NEW f \in Field, FieldAllowed(f), f.kind \in Gathers, NEW tokens \in Seq(TokenSet)
  PROVE  \E g : Gathering(g, f, tokens) /\ Gathered(f, tokens) = g[Len(tokens)]
<1> DEFINE X == Values \cup {Nil, Bad} \cup Caught
           next_(n, x) == IF x = Bad THEN Bad
                          ELSE IF n + 1 \in 1 .. Len(tokens) THEN Parsed(f, x, tokens[n + 1]) ELSE x
           step == [n \in Nat |-> [x \in X |-> next_(n, x)]]
<1>1. Len(tokens) \in Nat /\ \A n \in 1 .. Len(tokens) : tokens[n] \in TokenSet
  BY LenProperties
<1>2. \A tok \in TokenSet : \A x : Parsed(f, x, tok) \in X
  <2> TAKE tok \in TokenSet
  <2> TAKE x
  <2>1. CASE f.kind \in {"element", "attribute"}
    BY <2>1, DecodeType DEF Parsed
  <2>2. CASE f.kind = "any"
    <3>1. Parsed(f, x, tok) = [name |-> tok.name, value |-> tok.value]
      BY <2>2 DEF Parsed
    <3>2. tok.name \in Names \cup {NoName} /\ tok.value \in {Nil} \cup Contents
      BY DEF TokenSet
    <3> QED  BY <3>1, <3>2 DEF Caught
  <2> QED  BY <2>1, <2>2 DEF Gathers
<1>3. \A n \in Nat, x \in X : next_(n, x) \in X
  <2> HIDE DEF X
  <2>1. Bad \in X
    BY DEF X
  <2> QED  BY <1>1, <1>2, <2>1
<1>4. step \in Steps(X)
  <2> HIDE DEF next_, X
  <2> QED  BY <1>3 DEF Steps
<1>5. ZeroItem(f) \in X
  <2>1. Held(f) \subseteq X
    BY DEF Held, Gathers
  <2> QED  BY <2>1, ZeroIsValue DEF Gathers
<1>6. PICK h : IsRecursion(h, X, ZeroItem(f), step)
  <2> HIDE DEF step, X
  <2> QED  BY <1>4, <1>5, RecursionExists
<1>7. /\ h \in [Nat -> X] /\ h[0] = ZeroItem(f)
      /\ \A n \in Nat : h[n + 1] = step[n][h[n]]
  <2> HIDE DEF step, X
  <2> QED  BY <1>6 DEF IsRecursion
<1> HIDE DEF X
<1> DEFINE g == [n \in 0 .. Len(tokens) |-> h[n]]
<1>8. ASSUME NEW n \in 1 .. Len(tokens)
      PROVE  h[n] = IF h[n - 1] = Bad THEN Bad ELSE Parsed(f, h[n - 1], tokens[n])
  <2>1. n - 1 \in Nat /\ (n - 1) + 1 = n
    BY <1>1
  <2>2. h[n] = next_(n - 1, h[n - 1])
    BY <1>7, <2>1
  <2> QED  BY <2>1, <2>2
<1>9. ASSUME NEW n \in 0 .. Len(tokens)
      PROVE  h[n] = IF n = 0 THEN ZeroItem(f)
                    ELSE IF g[n - 1] = Bad THEN Bad ELSE Parsed(f, g[n - 1], tokens[n])
  <2>1. CASE n = 0
    BY <1>7, <2>1
  <2>2. CASE n # 0
    <3>1. n \in 1 .. Len(tokens) /\ n - 1 \in 0 .. Len(tokens)
      BY <1>1, <2>2
    <3>2. g[n - 1] = h[n - 1]
      BY <3>1
    <3> QED  BY <1>8, <2>2, <3>1, <3>2
  <2> QED  BY <2>1, <2>2
<1>10. Gathering(g, f, tokens)
  BY <1>9 DEF Gathering
<1> HIDE DEF g
<1>11. \E u : Gathering(u, f, tokens)
  BY <1>10
<1> QED  BY <1>11 DEF Gathered, Gathering

LEMMA GatheringSteps ==
  ASSUME NEW f, NEW tokens \in Seq(TokenSet), NEW g, Gathering(g, f, tokens)
  PROVE  /\ g[0] = ZeroItem(f)
         /\ \A n \in 1 .. Len(tokens) :
              g[n] = IF g[n - 1] = Bad THEN Bad ELSE Parsed(f, g[n - 1], tokens[n])
<1>1. Len(tokens) \in Nat
  BY LenProperties
<1>2. g[0] = ZeroItem(f)
  BY <1>1 DEF Gathering
<1>3. ASSUME NEW n \in 1 .. Len(tokens)
      PROVE  g[n] = IF g[n - 1] = Bad THEN Bad ELSE Parsed(f, g[n - 1], tokens[n])
  <2>1. n \in 0 .. Len(tokens) /\ n # 0
    BY <1>1
  <2> QED  BY <2>1 DEF Gathering
<1> QED  BY <1>2, <1>3

LEMMA GatheredNone ==
  ASSUME NEW f \in Field, FieldAllowed(f), f.kind \in Gathers
  PROVE  Gathered(f, << >>) = ZeroItem(f)
<1>1. << >> \in Seq(TokenSet) /\ Len(<< >>) = 0
  BY EmptySeq
<1>2. PICK g : Gathering(g, f, << >>) /\ Gathered(f, << >>) = g[0]
  BY <1>1, GatheringExists
<1> QED  BY <1>1, <1>2, GatheringSteps

LEMMA GatheredOneMore ==
  ASSUME NEW f \in Field, FieldAllowed(f), f.kind \in Gathers,
         NEW tokens \in Seq(TokenSet), NEW tok \in TokenSet
  PROVE  Gathered(f, Append(tokens, tok)) =
           IF Gathered(f, tokens) = Bad THEN Bad ELSE Parsed(f, Gathered(f, tokens), tok)
<1> PICK more : more = Append(tokens, tok)
  OBVIOUS
<1>1. /\ more \in Seq(TokenSet) /\ Len(more) = Len(tokens) + 1 /\ Len(tokens) \in Nat
      /\ \A n \in 1 .. Len(tokens) : more[n] = tokens[n]
      /\ more[Len(tokens) + 1] = tok
  BY AppendProperties, LenProperties
<1>2. PICK g : Gathering(g, f, tokens) /\ Gathered(f, tokens) = g[Len(tokens)]
  BY GatheringExists
<1>3. PICK h : Gathering(h, f, more) /\ Gathered(f, more) = h[Len(more)]
  BY <1>1, GatheringExists
<1>4. /\ g[0] = ZeroItem(f)
      /\ \A n \in 1 .. Len(tokens) :
           g[n] = IF g[n - 1] = Bad THEN Bad ELSE Parsed(f, g[n - 1], tokens[n])
  BY <1>2, GatheringSteps
<1>5. /\ h[0] = ZeroItem(f)
      /\ \A n \in 1 .. Len(more) :
           h[n] = IF h[n - 1] = Bad THEN Bad ELSE Parsed(f, h[n - 1], more[n])
  <2>1. more \in Seq(TokenSet)
    BY <1>1
  <2>2. Gathering(h, f, more)
    BY <1>3
  <2> QED  BY ONLY <2>1, <2>2, GatheringSteps
<1> DEFINE Same == {n \in Nat : n <= Len(tokens) => h[n] = g[n]}
<1>6. 0 \in Same
  BY <1>4, <1>5
<1>7. ASSUME NEW n \in Nat, n \in Same PROVE n + 1 \in Same
  <2> SUFFICES ASSUME n + 1 <= Len(tokens) PROVE h[n + 1] = g[n + 1]
    OBVIOUS
  <2> PICK m : m = n + 1
    OBVIOUS
  <2>1. h[n] = g[n] /\ m \in 1 .. Len(tokens) /\ m \in 1 .. Len(more) /\ m - 1 = n /\ more[m] = tokens[m]
    BY <1>1, <1>7
  <2>2. h[m] = IF h[m - 1] = Bad THEN Bad ELSE Parsed(f, h[m - 1], more[m])
    BY <1>5, <2>1
  <2>3. g[m] = IF g[m - 1] = Bad THEN Bad ELSE Parsed(f, g[m - 1], tokens[m])
    BY <1>4, <2>1
  <2> QED  BY <2>1, <2>2, <2>3
<1>8. Len(tokens) \in Same
  <2> HIDE DEF Same
  <2>1. Nat \subseteq Same
    BY <1>6, <1>7, NumbersByInduction
  <2> QED  BY <1>1, <2>1
<1>9. h[Len(tokens)] = g[Len(tokens)]
  BY <1>1, <1>8
<1> PICK m : m = Len(more)
  OBVIOUS
<1>10. m \in 1 .. Len(more) /\ m - 1 = Len(tokens) /\ more[m] = tok
  BY <1>1
<1>11. h[m] = IF h[m - 1] = Bad THEN Bad ELSE Parsed(f, h[m - 1], more[m])
  BY <1>5, <1>10
<1> QED  BY <1>2, <1>3, <1>9, <1>10, <1>11

-----------------------------------------------------------------------------
(* What a field of a struct holds once these tokens were read for it.        *)
Items(f, tokens) == [k \in DOMAIN tokens |-> Parsed(f, ZeroItem(f), tokens[k])]

Collect(f, start, tokens) ==
  IF IsSlice(f) THEN Items(f, tokens)
  ELSE IF f.kind = "text" \/ tokens = << >> THEN start
  ELSE <<Gathered(f, tokens)>>

LEMMA ItemsOneMore ==
  ASSUME NEW f, NEW S, NEW tokens \in Seq(S), NEW tok \in S
  PROVE  Items(f, Append(tokens, tok)) = Append(Items(f, tokens), Parsed(f, ZeroItem(f), tok))
<1> PICK more : more = Append(tokens, tok)
  OBVIOUS
<1>1. /\ Len(tokens) \in Nat /\ DOMAIN tokens = 1 .. Len(tokens)
      /\ DOMAIN more = 1 .. Len(tokens) + 1
      /\ \A n \in 1 .. Len(tokens) : more[n] = tokens[n]
      /\ more[Len(tokens) + 1] = tok
  BY AppendProperties, LenProperties
<1>2. Items(f, tokens) = [k \in 1 .. Len(tokens) |-> Parsed(f, ZeroItem(f), tokens[k])]
  BY <1>1 DEF Items
<1>3. Items(f, more) = [k \in 1 .. Len(tokens) + 1 |->
        IF k = Len(tokens) + 1 THEN Parsed(f, ZeroItem(f), tok) ELSE Parsed(f, ZeroItem(f), tokens[k])]
  BY <1>1 DEF Items
<1> QED  BY <1>1, <1>2, <1>3

LEMMA CollectOneMore ==
  ASSUME NEW f \in Field, FieldAllowed(f), f.kind \in Gathers \cup {"anyAttribute"},
         NEW start \in {<< >>, ZeroField(f)},
         NEW tokens \in Seq(TokenSet), NEW tok \in TokenSet,
         Bad \notin {Collect(f, start, tokens)[k] : k \in DOMAIN Collect(f, start, tokens)}
  PROVE  Into(f, Collect(f, start, tokens), tok) = Collect(f, start, Append(tokens, tok))
<1> PICK more : more = Append(tokens, tok)
  OBVIOUS
<1>1. more # << >>
  BY AppendProperties
<1>2. CASE IsSlice(f)
  <2>1. Items(f, more) = Append(Items(f, tokens), Parsed(f, ZeroItem(f), tok))
    BY ItemsOneMore
  <2> QED  BY <1>2, <2>1 DEF Collect, Into, Old
<1>3. CASE ~IsSlice(f)
  <2>1. f.kind \in Gathers
    BY <1>3 DEF IsSlice
  <2>2. Collect(f, start, more) = <<Gathered(f, more)>>
    BY <1>1, <1>3, <2>1 DEF Collect, Gathers
  <2>3. Gathered(f, more) = IF Gathered(f, tokens) = Bad THEN Bad ELSE Parsed(f, Gathered(f, tokens), tok)
    BY <2>1, GatheredOneMore
  <2>4. CASE tokens = << >>
    <3>1. Gathered(f, tokens) = ZeroItem(f) /\ ZeroItem(f) # Bad
      BY <2>1, <2>4, GatheredNone, ZeroIsValue DEF Gathers
    <3>2. Collect(f, start, tokens) = start
      BY <1>3, <2>4 DEF Collect
    <3>3. Old(f, start) = ZeroItem(f)
      BY <1>3 DEF Old, ZeroField
    <3> QED  BY <1>3, <2>2, <2>3, <3>1, <3>2, <3>3 DEF Into
  <2>5. CASE tokens # << >>
    <3>1. Collect(f, start, tokens) = <<Gathered(f, tokens)>>
      BY <1>3, <2>1, <2>5 DEF Collect, Gathers
    <3> PICK g : g = Gathered(f, tokens)
      OBVIOUS
    <3>2. Collect(f, start, tokens) = <<g>> /\ DOMAIN <<g>> = {1} /\ <<g>>[1] = g
      BY <3>1
    <3>3. g # Bad
      BY <3>2
    <3>4. Old(f, <<g>>) = g
      BY <1>3 DEF Old
    <3> QED  BY <1>3, <2>2, <2>3, <3>2, <3>3, <3>4 DEF Into
  <2> QED  BY <2>4, <2>5
<1> QED  BY <1>2, <1>3

(* Reading into what a field holds gives something that it may hold.         *)
LEMMA IntoIsValue ==
  ASSUME NEW f, NEW held \in Seq(Held(f)), NEW tok, Parsed(f, Old(f, held), tok) \in Held(f)
  PROVE  IsFieldValue(f, Into(f, held, tok))
<1> PICK v : v = Parsed(f, Old(f, held), tok)
  OBVIOUS
<1>1. CASE IsSlice(f)
  BY <1>1, AppendProperties DEF Into, IsFieldValue
<1>2. CASE ~IsSlice(f)
  <2>1. Into(f, held, tok) = <<v>>
    BY <1>2 DEF Into
  <2>2. <<v>> \in Seq(Held(f)) /\ Len(<<v>>) = 1
    OBVIOUS
  <2> QED  BY <2>1, <2>2 DEF IsFieldValue
<1> QED  BY <1>1, <1>2

(* While the type stays what it is, so does everything that depends on it.   *)
LEMMA SameType ==
  ASSUME UNCHANGED <<type, validating>>
  PROVE  /\ fields' = fields /\ shape' = shape /\ HasContent' = HasContent
         /\ TagsConflict' = TagsConflict
         /\ ZeroValue' = ZeroValue /\ ZeroLocal' = ZeroLocal
         /\ \A tok : FieldFor(tok)' = FieldFor(tok)
         /\ \A tok : FieldNamed(tok)' = FieldNamed(tok)
         /\ \A ty, old, content : Decode(ty, old, content)' = Decode(ty, old, content)
         /\ \A f, old, tok : Parsed(f, old, tok)' = Parsed(f, old, tok)
         /\ \A f, tokens : Gathered(f, tokens)' = Gathered(f, tokens)
         /\ \A tok : IsText(tok)' = IsText(tok)
         /\ \A f : IsShadowed(f)' = IsShadowed(f)
         /\ \A kind, name : Named(kind, name)' = Named(kind, name)
         /\ \A value : Valid(value)' = Valid(value)
<1>1. fields' = fields /\ shape' = shape
  BY DEF fields, shape
<1>2. HasContent' = HasContent
  BY <1>1 DEF HasContent
<1>3. TagsConflict' = TagsConflict
  BY <1>1, <1>2 DEF TagsConflict
<1>4. \A f : IsShadowed(f)' = IsShadowed(f)
  BY <1>1 DEF IsShadowed
<1>5. ZeroValue' = ZeroValue /\ ZeroLocal' = ZeroLocal
  BY <1>1, <1>2, <1>4 DEF ZeroValue, ZeroLocal
<1>6. \A kind, name : Named(kind, name)' = Named(kind, name)
  BY <1>1 DEF Named
<1>7. /\ \A kind : Catching(kind)' = Catching(kind)
      /\ \A kind, name : Tagged(kind, name)' = Tagged(kind, name)
  BY <1>1 DEF Catching, Tagged
<1>8. \A tok : FieldFor(tok)' = FieldFor(tok)
  BY <1>2, <1>6, <1>7 DEF FieldFor
<1>9. \A tok : FieldNamed(tok)' = FieldNamed(tok)
  BY <1>2, <1>6, <1>7 DEF FieldNamed
<1>10. \A tok : IsText(tok)' = IsText(tok)
  BY <1>1 DEF IsText
<1>11. \A value : Valid(value)' = Valid(value)
  BY <1>1, <1>2 DEF Valid, ContentValid
<1>12. \A ty, old, content : Decode(ty, old, content)' = Decode(ty, old, content)
  BY DEF Decode
<1>13. \A f, old, tok : Parsed(f, old, tok)' = Parsed(f, old, tok)
  BY <1>12 DEF Parsed
<1>14. \A f, tokens : Gathered(f, tokens)' = Gathered(f, tokens)
  <2>1. validating' = validating
    OBVIOUS
  <2> QED  BY ONLY <2>1 DEF Gathered, Parsed, Decode
<1> QED  BY <1>1, <1>2, <1>3, <1>4, <1>5, <1>6, <1>8, <1>9, <1>10, <1>11, <1>12, <1>13, <1>14
-----------------------------------------------------------------------------

-----------------------------------------------------------------------------
(* The tokens that are read for a field; where tags tell names apart they    *)
(* are those of its name.                                                     *)
TokensFor(i) == AtPlaces(read, {k \in DOMAIN read : FieldFor(read[k]) = i})

LEMMA TokensToldApart ==
  ASSUME NamesTold, NEW i
  PROVE  TokensOf(i) = TokensFor(i)
<1>1. {k \in DOMAIN read : FieldFor(read[k]) = i} = {k \in DOMAIN read : FieldNamed(read[k]) = i}
  BY DEF NamesTold
<1> QED  BY <1>1 DEF TokensOf, TokensFor

LEMMA TokensForType ==
  ASSUME read \in Seq(TokenSet), NEW i
  PROVE  TokensFor(i) \in Seq(TokenSet)
BY SelectionType DEF TokensFor

LEMMA NothingRead ==
  ASSUME read = << >>, NEW i
  PROVE  TokensFor(i) = << >>
BY SelectionOfNone DEF TokensFor

LEMMA OneMoreToken ==
  ASSUME read \in Seq(TokenSet), NEW tok \in TokenSet, read' = Append(read, tok),
         UNCHANGED <<type, validating>>, NEW i
  PROVE  TokensFor(i)' = IF FieldFor(tok) = i THEN Append(TokensFor(i), tok) ELSE TokensFor(i)
<1> PICK r, s : r = read /\ s = read'
  OBVIOUS
<1> DEFINE old == {k \in DOMAIN r : FieldFor(r[k]) = i}
           new == {k \in DOMAIN s : FieldFor(s[k]) = i}
<1>1. /\ s \in Seq(TokenSet) /\ Len(s) = Len(r) + 1 /\ Len(r) \in Nat
      /\ DOMAIN r = 1 .. Len(r) /\ DOMAIN s = 1 .. Len(r) + 1
      /\ \A k \in 1 .. Len(r) : s[k] = r[k]
      /\ s[Len(r) + 1] = tok
  BY AppendProperties, LenProperties
<1>2. TokensFor(i) = AtPlaces(r, old)
  BY DEF TokensFor
<1>3. TokensFor(i)' = AtPlaces(s, new)
  BY SameType DEF TokensFor
<1>4. /\ \A k \in 1 .. Len(r) : k \in new <=> k \in old
      /\ Len(r) + 1 \in new <=> FieldFor(tok) = i
  BY <1>1
<1>5. r \in Seq(TokenSet) /\ s = Append(r, tok)
  OBVIOUS
<1> HIDE DEF old, new
<1>6. AtPlaces(Append(r, tok), new) =
        IF Len(r) + 1 \in new THEN Append(AtPlaces(r, old), tok) ELSE AtPlaces(r, old)
  BY <1>4, <1>5, SelectionOfOneMore
<1> QED  BY <1>2, <1>3, <1>4, <1>5, <1>6
-----------------------------------------------------------------------------
(* A struct; and what the content of a mixed or choice type is made of.      *)
IsStruct(value) ==
  /\ value = [i \in DOMAIN fields |-> value[i]]
  /\ \A i \in DOMAIN fields : IsFieldValue(fields[i], value[i])

TextTokens == [kind : {"text"}, name : {NoName}, value : Contents]

Entries ==
  {e \in TextTokens : shape = "mixed"}
    \cup {e \in [kind : {"child"}, name : Names, value : {Nil} \cup Values] :
            FieldFor(e) # 0 /\ e.value \in Held(fields[FieldFor(e)])}

(* What MarshalXML writes for what a field may hold are tokens.              *)
LEMMA ScopedName ==
  ASSUME NEW name \in Names
  PROVE  InDefaultScope(name) \in Names /\ InDefaultScope(name).local = name.local
BY NamesAssumption DEF InDefaultScope, Names

LEMMA EncodedType ==
  ASSUME NEW f \in Field, NEW v
  PROVE  /\ v \in Values => Encoded(f, v) \in Contents
         /\ v = Nil => Encoded(f, v) = Nil
<1>1. f.type \in GoTypes /\ Nil \notin Values
  BY FieldParts, CodecAssumption
<1> QED  BY <1>1, ValuesAssumption DEF Encoded

LEMMA WriteItemType ==
  ASSUME NEW f \in Field, FieldAllowed(f), NEW v \in Held(f)
  PROVE  /\ WriteItem(f, v) \in Seq(TokenSet)
         /\ f.kind # "text" =>
              /\ WriteItem(f, v) = <<Head(WriteItem(f, v))>>
              /\ Head(WriteItem(f, v)) \in TokenSet
              /\ Head(WriteItem(f, v)).kind = IF IsAttribute(f) THEN "attribute" ELSE "child"
         /\ f.kind = "text" =>
              /\ Encoded(f, v) \in Contents
              /\ WriteItem(f, v) = IF Encoded(f, v) = << >> THEN << >> ELSE <<TextOf(Encoded(f, v))>>
              /\ TextOf(Encoded(f, v)) \in TokenSet
<1>1. f.kind \in {"element", "attribute", "text", "any", "anyAttribute"}
  BY FieldParts
<1>2. CASE f.kind = "text"
  <2>1. WriteItem(f, v) = IF Encoded(f, v) = << >> THEN << >> ELSE <<TextOf(Encoded(f, v))>>
    BY <1>2 DEF WriteItem
  <2>2. v \in Values
    BY <1>2 DEF Held
  <2>3. TextOf(Encoded(f, v)) \in TokenSet /\ Encoded(f, v) \in Contents
    BY <2>2, EncodedType DEF TextOf, TokenSet
  <2> QED  BY <1>2, <2>1, <2>3
<1>3. ASSUME NEW tok \in TokenSet, WriteItem(f, v) = <<tok>>
      PROVE  WriteItem(f, v) \in Seq(TokenSet) /\ Head(WriteItem(f, v)) = tok
  BY <1>3
<1>4. CASE f.kind = "any"
  <2> DEFINE name == InDefaultScope(IF v.name = NoName THEN AnyElementName ELSE v.name)
  <2>1. WriteItem(f, v) = <<Child(name, v.value)>>
    BY <1>4 DEF WriteItem
  <2>2. v \in Caught
    BY <1>4 DEF Held
  <2>3. v.name \in Names \cup {NoName} /\ v.value \in {Nil} \cup Contents
    BY <2>2 DEF Caught
  <2>4. name \in Names
    BY <2>3, ScopedName, NamesAssumption
  <2> HIDE DEF name
  <2>5. Child(name, v.value) \in TokenSet /\ Child(name, v.value).kind = "child"
    BY <2>3, <2>4 DEF Child, TokenSet
  <2> QED  BY <1>3, <1>4, <2>1, <2>5 DEF IsAttribute
<1>5. CASE f.kind = "anyAttribute"
  <2> PICK tok : tok = [kind |-> "attribute", name |-> v.name, value |-> v.value]
    OBVIOUS
  <2>1. WriteItem(f, v) = <<tok>>
    BY <1>5 DEF WriteItem
  <2>2. v \in [name : Names, value : Contents]
    BY <1>5 DEF Held
  <2>3. tok \in TokenSet /\ tok.kind = "attribute"
    BY <2>2 DEF TokenSet
  <2> QED  BY <1>3, <1>5, <2>1, <2>3 DEF IsAttribute
<1>6. CASE f.kind \in {"element", "attribute"}
  <2> PICK tok : tok = [kind |-> IF f.kind = "element" THEN "child" ELSE "attribute",
                        name |-> WrittenName(f), value |-> Encoded(f, v)]
    OBVIOUS
  <2>1. WriteItem(f, v) = <<tok>>
    BY <1>6 DEF WriteItem
  <2>2. f.name \in Names
    BY <1>6, FieldParts DEF FieldAllowed
  <2>3. WrittenName(f) \in Names
    <3>1. [f.name EXCEPT !.space = NoNamespace] \in Names
      BY <2>2, NamesAssumption DEF Names
    <3> QED  BY <2>2, <3>1, ScopedName DEF WrittenName, TagOf
  <2>4. v \in Values \/ (v = Nil /\ f.kind = "element")
    BY <1>6 DEF Held, FieldAllowed
  <2>5. Encoded(f, v) \in Contents \/ (f.kind = "element" /\ Encoded(f, v) = Nil)
    BY <2>4, EncodedType
  <2>6. tok \in TokenSet /\ tok.kind = IF f.kind = "element" THEN "child" ELSE "attribute"
    BY <1>6, <2>3, <2>5 DEF TokenSet
  <2> QED  BY <1>3, <1>6, <2>1, <2>6 DEF IsAttribute
<1> QED  BY <1>1, <1>2, <1>4, <1>5, <1>6

LEMMA WriteFieldType ==
  ASSUME NEW f \in Field, FieldAllowed(f), NEW value \in Seq(Held(f))
  PROVE  /\ [i \in DOMAIN value |-> WriteItem(f, value[i])] \in Seq(Seq(TokenSet))
         /\ WriteField(f, value) \in Seq(TokenSet)
<1>1. Len(value) \in Nat /\ DOMAIN value = 1 .. Len(value)
      /\ \A i \in 1 .. Len(value) : value[i] \in Held(f)
  BY LenProperties
<1>2. \A i \in 1 .. Len(value) : WriteItem(f, value[i]) \in Seq(TokenSet)
  BY <1>1, WriteItemType
<1> PICK items : items = [i \in DOMAIN value |-> WriteItem(f, value[i])]
  OBVIOUS
<1>3. items \in Seq(Seq(TokenSet))
  <2> PICK T : T = Seq(TokenSet)
    OBVIOUS
  <2> HIDE DEF WriteItem
  <2>1. items \in [1 .. Len(value) -> T]
    BY <1>1, <1>2
  <2>2. items \in Seq(T)
    BY <1>1, <2>1, SeqDef
  <2> QED  BY <2>2
<1>4. WriteField(f, value) = FlattenSeq(items)
  BY DEF WriteField
<1> QED  BY <1>3, <1>4, FlatType

(* The parts that WriteFields puts together. *)
PartsOf(value, attributes) ==
  [i \in DOMAIN fields |->
     IF IsAttribute(fields[i]) = attributes THEN WriteField(fields[i], value[i]) ELSE << >>]

LEMMA WriteFieldsType ==
  ASSUME type \in Types, NEW value, IsStruct(value), NEW attributes \in BOOLEAN
  PROVE  /\ PartsOf(value, attributes) \in Seq(Seq(TokenSet))
         /\ WriteFields(value, attributes) = FlattenSeq(PartsOf(value, attributes))
         /\ WriteFields(value, attributes) \in Seq(TokenSet)
<1>1. /\ Len(fields) \in Nat /\ DOMAIN fields = 1 .. Len(fields)
      /\ \A i \in DOMAIN fields : fields[i] \in Field /\ FieldAllowed(fields[i])
  BY FieldsOfType
<1>2. \A i \in DOMAIN fields : WriteField(fields[i], value[i]) \in Seq(TokenSet)
  BY <1>1, WriteFieldType DEF IsStruct, IsFieldValue
<1> PICK T : T = Seq(TokenSet)
  OBVIOUS
<1>3. << >> \in T
  OBVIOUS
<1>4. PartsOf(value, attributes) \in [1 .. Len(fields) -> T]
  BY <1>1, <1>2, <1>3 DEF PartsOf
<1>5. PartsOf(value, attributes) \in Seq(T)
  BY <1>1, <1>4, SeqDef
<1>6. WriteFields(value, attributes) = FlattenSeq(PartsOf(value, attributes))
  BY DEF WriteFields, PartsOf
<1> QED  BY <1>5, <1>6, FlatType
-----------------------------------------------------------------------------

(* Content is written entry by entry.                                        *)
LEMMA EntryIsChild ==
  ASSUME type \in Types, NEW e \in Entries, e.kind # "text"
  PROVE  /\ FieldFor(e) \in DOMAIN fields /\ fields[FieldFor(e)] \in Field
         /\ fields[FieldFor(e)].kind \in {"element", "any"}
         /\ HasContent => /\ fields[FieldFor(e)].kind = "element"
                          /\ fields[FieldFor(e)].name = e.name
                          /\ ChildOf(e) \in TokenSet
         /\ e \in [kind : {"child"}, name : Names, value : {Nil} \cup Values]
         /\ e.value \in Held(fields[FieldFor(e)])
         /\ ChildOf(e).kind = "child" /\ ~IsText(e)
<1>1. /\ e \in [kind : {"child"}, name : Names, value : {Nil} \cup Values]
      /\ FieldFor(e) # 0 /\ e.value \in Held(fields[FieldFor(e)])
  BY DEF Entries, TextTokens
<1>2. e.kind = "child" /\ e.name \in Names /\ e.value \in {Nil} \cup Values
  BY <1>1
<1> PICK f : f = fields[FieldFor(e)]
  OBVIOUS
<1>3. /\ FieldFor(e) \in DOMAIN fields /\ f.kind \in {"element", "any"}
      /\ HasContent => f.kind = "element" /\ f.name = e.name
  BY <1>1, <1>2, FieldForToken
<1>4. f \in Field
  BY <1>3, FieldsOfType
<1>5. Encoded(f, e.value) \in {Nil} \cup Contents
  BY <1>2, <1>4, EncodedType
<1>6. ChildOf(e) = [kind |-> "child", name |-> InDefaultScope(f.name), value |-> Encoded(f, e.value)]
  BY DEF ChildOf, Child
<1>7. HasContent => ChildOf(e) \in TokenSet
  <2> SUFFICES ASSUME HasContent PROVE ChildOf(e) \in TokenSet
    OBVIOUS
  <2>1. InDefaultScope(f.name) \in Names
    BY <1>2, <1>3, ScopedName
  <2> QED  BY <1>5, <1>6, <2>1 DEF TokenSet
<1> QED  BY <1>1, <1>2, <1>3, <1>4, <1>6, <1>7 DEF IsText

LEMMA EntryIsText ==
  ASSUME NEW e \in Entries, e.kind = "text"
  PROVE  /\ e.value \in Contents /\ TextOf(e.value) = e /\ shape = "mixed" /\ IsText(e)
         /\ e \in TextTokens
<1>1. e \in TextTokens /\ shape = "mixed"
  BY DEF Entries, TextTokens
<1> QED  BY <1>1 DEF TextOf, TextTokens, IsText

LEMMA TextsAreTokens ==
  /\ \A c \in Contents : TextOf(c) \in TextTokens /\ TextOf(c) \in TokenSet
                         /\ TextOf(c).kind = "text" /\ TextOf(c).value = c
  /\ \A tok \in TokenSet : tok.kind = "text" => tok \in TextTokens /\ tok.value \in Contents /\ TextOf(tok.value) = tok
  /\ \A c, d \in Contents : c \o d \in Contents
<1>1. \A c, d \in Contents : c \o d \in Contents
  BY ConcatProperties DEF Contents
<1>2. \A c \in Contents : TextOf(c) \in TextTokens /\ TextOf(c) \in TokenSet
                          /\ TextOf(c).kind = "text" /\ TextOf(c).value = c
  BY DEF TextOf, TextTokens, TokenSet
<1>3. \A tok \in TokenSet : tok.kind = "text" => tok \in TextTokens
  BY DEF TokenSet, TextTokens
<1>4. \A tok \in TextTokens : tok.value \in Contents /\ TextOf(tok.value) = tok
  BY DEF TextTokens, TextOf
<1> QED  BY <1>1, <1>2, <1>3, <1>4

LEMMA WriteTextType ==
  ASSUME NEW doc \in Seq(TokenSet), NEW c \in Contents
  PROVE  WriteText(doc, c) \in Seq(TokenSet)
<1>1. CASE c = << >>
  BY <1>1 DEF WriteText
<1>2. CASE c # << >> /\ doc # << >> /\ Last(doc).kind = "text"
  <2>1. Len(doc) \in Nat \ {0} /\ \A n \in 1 .. Len(doc) : doc[n] \in TokenSet
    BY <1>2, EmptySeq
  <2>2. Last(doc) \in TokenSet
    BY <2>1 DEF Last
  <2>3. Last(doc).value \o c \in Contents
    BY <1>2, <2>2, TextsAreTokens
  <2>4. Front(doc) \in Seq(TokenSet)
    <3>1. \A n \in 1 .. Len(doc) - 1 : doc[n] \in TokenSet
      BY <2>1
    <3>2. 1 \in Int /\ Len(doc) - 1 \in Int
      BY <2>1
    <3> QED  BY <3>1, <3>2, SubSeqProperties DEF Front
  <2>5. WriteText(doc, c) = Append(Front(doc), TextOf(Last(doc).value \o c))
    BY <1>2 DEF WriteText
  <2>6. TextOf(Last(doc).value \o c) \in TokenSet
    BY <2>3, TextsAreTokens
  <2> QED  BY <2>4, <2>5, <2>6, AppendProperties
<1>3. CASE c # << >> /\ ~(doc # << >> /\ Last(doc).kind = "text")
  <2>1. WriteText(doc, c) = Append(doc, TextOf(c))
    BY <1>3 DEF WriteText
  <2> QED  BY <2>1, TextsAreTokens, AppendProperties
<1> QED  BY <1>1, <1>2, <1>3

LEMMA WriteEntryType ==
  ASSUME type \in Types, HasContent, NEW doc \in Seq(TokenSet), NEW e \in Entries
  PROVE  WriteEntry(doc, e) \in Seq(TokenSet)
<1>1. CASE e.kind # "text"
  <2>1. WriteEntry(doc, e) = Append(doc, ChildOf(e))
    BY <1>1 DEF WriteEntry
  <2>2. ChildOf(e) \in TokenSet
    BY <1>1, EntryIsChild
  <2> QED  BY <2>1, <2>2, AppendProperties
<1>2. CASE e.kind = "text"
  BY <1>2, EntryIsText, WriteTextType DEF WriteEntry
<1> QED  BY <1>1, <1>2

Writing(g, content) ==
  g = [n \in 0 .. Len(content) |-> IF n = 0 THEN << >> ELSE WriteEntry(g[n - 1], content[n])]

LEMMA WritingExists ==
  ASSUME type \in Types, HasContent, NEW content \in Seq(Entries)
  PROVE  \E g : Writing(g, content) /\ WriteContent(content) = g[Len(content)]
<1> PICK E, T : E = Entries /\ T = TokenSet
  OBVIOUS
<1> DEFINE next_(n, x) == IF n + 1 \in 1 .. Len(content) THEN WriteEntry(x, content[n + 1]) ELSE x
           step == [n \in Nat |-> [x \in Seq(T) |-> next_(n, x)]]
<1>1. Len(content) \in Nat /\ \A n \in 1 .. Len(content) : content[n] \in E
  BY LenProperties
<1>2. \A n \in Nat, x \in Seq(T) : next_(n, x) \in Seq(T)
  BY <1>1, WriteEntryType
<1>3. step \in Steps(Seq(T))
  <2> HIDE DEF next_
  <2> QED  BY <1>2 DEF Steps
<1>4. << >> \in Seq(T)
  OBVIOUS
<1>5. PICK h : IsRecursion(h, Seq(T), << >>, step)
  <2> HIDE DEF step
  <2> QED  BY <1>3, <1>4, RecursionExists
<1>6. /\ h \in [Nat -> Seq(T)] /\ h[0] = << >>
      /\ \A n \in Nat : h[n + 1] = step[n][h[n]]
  BY <1>5 DEF IsRecursion
<1> DEFINE g == [n \in 0 .. Len(content) |-> h[n]]
<1>7. ASSUME NEW n \in 1 .. Len(content)
      PROVE  h[n] = WriteEntry(h[n - 1], content[n])
  <2>1. n - 1 \in Nat /\ (n - 1) + 1 = n
    BY <1>1
  <2>2. h[n] = next_(n - 1, h[n - 1])
    BY <1>6, <2>1
  <2> QED  BY <2>1, <2>2
<1>8. ASSUME NEW n \in 0 .. Len(content)
      PROVE  h[n] = IF n = 0 THEN << >> ELSE WriteEntry(g[n - 1], content[n])
  <2>1. CASE n = 0
    BY <1>6, <2>1
  <2>2. CASE n # 0
    <3>1. n \in 1 .. Len(content) /\ n - 1 \in 0 .. Len(content)
      BY <1>1, <2>2
    <3>2. g[n - 1] = h[n - 1]
      BY <3>1
    <3> QED  BY <1>7, <2>2, <3>1, <3>2
  <2> QED  BY <2>1, <2>2
<1>9. Writing(g, content)
  BY <1>8 DEF Writing
<1> HIDE DEF g
<1>10. \E u : Writing(u, content)
  BY <1>9
<1> QED  BY <1>10 DEF WriteContent, Writing

LEMMA WritingSteps ==
  ASSUME type \in Types, HasContent, NEW content \in Seq(Entries), NEW g, Writing(g, content)
  PROVE  /\ g[0] = << >>
         /\ \A n \in 1 .. Len(content) : g[n] = WriteEntry(g[n - 1], content[n])
         /\ \A n \in 0 .. Len(content) : g[n] \in Seq(TokenSet)
<1>1. Len(content) \in Nat /\ \A n \in 1 .. Len(content) : content[n] \in Entries
  BY LenProperties
<1>2. g[0] = << >>
  BY <1>1 DEF Writing
<1>3. \A n \in 1 .. Len(content) : g[n] = WriteEntry(g[n - 1], content[n])
  <2> TAKE n \in 1 .. Len(content)
  <2>1. n \in 0 .. Len(content) /\ n # 0
    BY <1>1
  <2> QED  BY <2>1 DEF Writing
<1> DEFINE Typed == {n \in Nat : n <= Len(content) => g[n] \in Seq(TokenSet)}
<1>4. 0 \in Typed
  <2>1. << >> \in Seq(TokenSet)
    BY EmptySeq
  <2> QED  BY <1>2, <2>1
<1>5. ASSUME NEW n \in Nat, n \in Typed PROVE n + 1 \in Typed
  <2> SUFFICES ASSUME n + 1 <= Len(content) PROVE g[n + 1] \in Seq(TokenSet)
    OBVIOUS
  <2>1. g[n] \in Seq(TokenSet) /\ n + 1 \in 1 .. Len(content) /\ (n + 1) - 1 = n
    BY <1>1, <1>5
  <2>2. g[n + 1] = WriteEntry(g[n], content[n + 1])
    BY <1>3, <2>1
  <2> QED  BY <1>1, <2>1, <2>2, WriteEntryType
<1>6. Nat \subseteq Typed
  <2> HIDE DEF Typed
  <2> QED  BY <1>4, <1>5, NumbersByInduction
<1> QED  BY <1>1, <1>2, <1>3, <1>6

LEMMA WriteContentType ==
  ASSUME type \in Types, HasContent, NEW content \in Seq(Entries)
  PROVE  WriteContent(content) \in Seq(TokenSet)
<1>1. PICK g : Writing(g, content) /\ WriteContent(content) = g[Len(content)]
  BY WritingExists
<1>2. Len(content) \in 0 .. Len(content)
  BY LenProperties
<1> QED  BY <1>1, <1>2, WritingSteps
-----------------------------------------------------------------------------
(* The inductive invariant.  The value being filled is the struct itself,    *)
(* where it has no method, or the local copy; and what it holds is what was  *)
(* read so far, if it started from zero.                                     *)
CodecBasics ==
  /\ type \in Types /\ Compiles(type) /\ validating \in BOOLEAN /\ rereading \in BOOLEAN
  /\ documents \in 0 .. MaxDocuments + 1
  /\ ~rereading => documents <= MaxDocuments
  /\ phase \in {"idle", "reading", "done", "failed"}
  /\ read \in Seq(TokenSet) /\ unread \in Seq(TokenSet)
  /\ phase \in {"reading", "done"} => ~TagsConflict

Start(i) == IF IsShadowed(fields[i]) THEN << >> ELSE ZeroField(fields[i])

Filling(value) ==
  /\ value = [i \in DOMAIN fields |-> value[i]]
  /\ \A i \in DOMAIN fields :
       \/ IsFieldValue(fields[i], value[i])
       \/ IsShadowed(fields[i]) /\ value[i] = << >>
  /\ StartsAfresh =>
       \A i \in DOMAIN fields : value[i] = Collect(fields[i], Start(i), TokensFor(i))

StructHeld == ~HasContent => IsStruct(target) /\ (phase = "reading" => Filling(Filled))

ContentHeld == HasContent => target \in Seq(Entries)

(* What a field holds in the end: the text, a default, or what was read.     *)
Decoded(i) ==
  IF fields[i].kind = "text" THEN <<Decode(fields[i].type, ZeroOf(fields[i].type), TextRead)>>
  ELSE IF shape = "tracked" /\ AssignsDefault(fields[i]) /\ TokensFor(i) = << >>
  THEN <<DefaultValue(fields[i])>>
  ELSE Collect(fields[i], ZeroField(fields[i]), TokensFor(i))

StructDecoded ==
  (phase = "done" /\ ~HasContent /\ StartsAfresh) =>
    \A i \in DOMAIN fields :
      /\ target[i] = Decoded(i)
      /\ NeedsPresenceTracking(fields[i]) => TokensFor(i) # << >>

CodecInv == CodecBasics /\ StructHeld /\ ContentHeld /\ StructDecoded

-----------------------------------------------------------------------------
LEMMA SameStructs ==
  ASSUME UNCHANGED <<type, validating>>
  PROVE  /\ \A value : IsStruct(value)' = IsStruct(value)
         /\ Entries' = Entries
         /\ \A i : Start(i)' = Start(i)
         /\ Compiles(type)' = Compiles(type)
         /\ \A f, start, tokens : Collect(f, start, tokens)' = Collect(f, start, tokens)
<1>1. \A value : IsStruct(value)' = IsStruct(value)
  BY SameType DEF IsStruct
<1>2. Entries' = Entries
  BY SameType DEF Entries
<1>3. \A i : Start(i)' = Start(i)
  BY SameType DEF Start
<1>4. \A f, tokens : Items(f, tokens)' = Items(f, tokens)
  BY SameType DEF Items
<1>5. \A f, start, tokens : Collect(f, start, tokens)' = Collect(f, start, tokens)
  BY SameType, <1>4 DEF Collect
<1> QED  BY <1>1, <1>2, <1>3, <1>5

LEMMA SameTokens ==
  ASSUME UNCHANGED <<type, validating, read>>
  PROVE  /\ \A i : TokensFor(i)' = TokensFor(i)
         /\ TextRead' = TextRead
         /\ \A i : Decoded(i)' = Decoded(i)
<1>1. \A i : TokensFor(i)' = TokensFor(i)
  BY SameType DEF TokensFor
<1>2. TextRead' = TextRead
  BY DEF TextRead
<1>3. \A i : Decoded(i)' = Decoded(i)
  BY <1>1, <1>2, SameType, SameStructs DEF Decoded
<1> QED  BY <1>1, <1>2, <1>3

LEMMA ZeroIsStruct ==
  ASSUME type \in Types, ~HasContent
  PROVE  IsStruct(ZeroValue)
<1>1. ZeroValue = [i \in DOMAIN fields |-> ZeroField(fields[i])]
  BY DEF ZeroValue
<1>2. \A i \in DOMAIN fields : IsFieldValue(fields[i], ZeroField(fields[i]))
  BY FieldsOfType, ZeroIsValue
<1> QED  BY <1>1, <1>2 DEF IsStruct

(* With nothing read, nothing is held.                                       *)
LEMMA CollectNothing ==
  ASSUME type \in Types, NEW i \in DOMAIN fields
  PROVE  Collect(fields[i], Start(i), << >>) = Start(i)
<1>1. IsSlice(fields[i]) => ZeroField(fields[i]) = << >>
  BY DEF ZeroField
<1>2. Items(fields[i], << >>) = << >>
  BY DEF Items
<1> QED  BY <1>1, <1>2 DEF Collect, Start

LEMMA CodecInitInv == CodecInit => CodecInv
<1> SUFFICES ASSUME CodecInit PROVE CodecInv
  OBVIOUS
<1> USE DEF CodecInit
<1>1. CodecBasics
  <2>1. 0 \in 0 .. MaxDocuments + 1 /\ 0 <= MaxDocuments
    BY CodecAssumption
  <2>2. << >> \in Seq(TokenSet)
    BY EmptySeq
  <2> QED  BY <2>1, <2>2 DEF CodecBasics
<1>2. StructHeld
  BY ZeroIsStruct DEF StructHeld
<1>3. ContentHeld
  <2>1. << >> \in Seq(Entries)
    BY EmptySeq
  <2> QED  BY <2>1 DEF ContentHeld, ZeroValue
<1>4. StructDecoded
  BY DEF StructDecoded
<1> QED  BY <1>1, <1>2, <1>3, <1>4 DEF CodecInv

(* A call of UnmarshalXML begins on a value of the type.                     *)
LEMMA BeginInv ==
  ASSUME CodecInv, NEW t, Begin(t),
         HasContent => t \in Seq(Entries), ~HasContent => IsStruct(t),
         documents' \in 0 .. MaxDocuments + 1, rereading' \in BOOLEAN,
         ~rereading' => documents' <= MaxDocuments, unread' \in Seq(TokenSet)
  PROVE  CodecInv'
<1> USE DEF CodecInv
<1>1. UNCHANGED <<type, validating>> /\ read' = << >> /\ target' = t /\ before' = t
  BY DEF Begin
<1>2. phase' \in {"reading", "failed"} /\ (phase' = "reading" => ~TagsConflict)
  BY DEF Begin
<1>3. CodecBasics'
  <2>1. read' \in Seq(TokenSet)
    BY <1>1, EmptySeq
  <2>2. TagsConflict' = TagsConflict
    BY <1>1, SameType
  <2> QED  BY <1>1, <1>2, <2>1, <2>2, SameStructs DEF CodecBasics
<1>4. StructHeld'
  <2> SUFFICES ASSUME ~HasContent
               PROVE  IsStruct(target)' /\ Filling(Filled)'
    BY <1>1, SameType DEF StructHeld
  <2>1. IsStruct(target)'
    BY <1>1, SameStructs
  <2>2. Filling(Filled)'
    <3>1. Filled' = IF shape = "plain" THEN t ELSE local'
      BY <1>1, SameType DEF Filled
    <3>2. \A i : TokensFor(i)' = << >>
      BY <1>1, SelectionOfNone DEF TokensFor
    <3>3. \A i \in DOMAIN fields : Collect(fields[i], Start(i), << >>) = Start(i)
      BY CollectNothing DEF CodecBasics
    <3>4. CASE shape = "plain"
      <4>1. \A i : Start(i) = ZeroField(fields[i])
        BY <3>4 DEF Start, IsShadowed
      <4>2. StartsAfresh' => t = ZeroValue
        BY <1>1, <3>4, SameType DEF StartsAfresh
      <4>3. ZeroValue = [i \in DOMAIN fields |-> ZeroField(fields[i])]
        BY DEF ZeroValue
      <4>4. Filled' = t
        BY <3>1, <3>4
      <4>5. IsStruct(t)
        OBVIOUS
      <4> QED  BY <1>1, <3>2, <3>3, <4>1, <4>2, <4>3, <4>4, <4>5, SameType, SameStructs
               DEF Filling, IsStruct
    <3>5. CASE shape # "plain"
      <4>1. shape \in {"tracked", "alias"}
        BY <3>5, ShapeIsOneOf DEF HasContent
      <4>2. Filled' = ZeroLocal
        BY <3>1, <3>5, <4>1 DEF Begin
      <4>3. ZeroLocal = [i \in DOMAIN fields |-> Start(i)]
        BY DEF ZeroLocal, Start
      <4>4. \A i \in DOMAIN fields : IsFieldValue(fields[i], ZeroField(fields[i]))
        BY FieldsOfType, ZeroIsValue DEF CodecBasics
      <4> QED  BY <1>1, <3>2, <3>3, <4>2, <4>3, <4>4, SameType, SameStructs
               DEF Filling, Start
    <3> QED  BY <3>4, <3>5
  <2> QED  BY <2>1, <2>2
<1>5. ContentHeld'
  BY <1>1, SameType, SameStructs DEF ContentHeld
<1>6. StructDecoded'
  BY <1>2 DEF StructDecoded
<1> QED  BY <1>3, <1>4, <1>5, <1>6

(* Structs and contents are written as tokens.                               *)
LEMMA WrittenType ==
  ASSUME CodecInv
  PROVE  Written(target) \in Seq(TokenSet)
<1>1. CASE HasContent
  <2>1. WriteContent(target) \in Seq(TokenSet)
    BY <1>1, WriteContentType DEF CodecInv, ContentHeld, CodecBasics
  <2> QED  BY <1>1, <2>1 DEF Written
<1>2. CASE ~HasContent
  <2>1. IsStruct(target) /\ type \in Types
    BY <1>2 DEF CodecInv, CodecBasics, StructHeld
  <2>2. WriteFields(target, TRUE) \in Seq(TokenSet) /\ WriteFields(target, FALSE) \in Seq(TokenSet)
    BY <2>1, WriteFieldsType
  <2> QED  BY <1>2, <2>2, ConcatProperties DEF Written
<1> QED  BY <1>1, <1>2

LEMMA DecodingInv ==
  ASSUME CodecInv, Decoding
  PROVE  CodecInv'
<1>1. documents' \in 0 .. MaxDocuments + 1 /\ documents' <= MaxDocuments
  BY CodecAssumption DEF CodecInv, CodecBasics, Decoding, Begin
<1>2. rereading' \in BOOLEAN /\ unread' \in Seq(TokenSet)
  BY DEF CodecInv, CodecBasics, Decoding
<1>3. /\ HasContent => target \in Seq(Entries)
      /\ ~HasContent => IsStruct(target)
  BY DEF CodecInv, ContentHeld, StructHeld
<1>4. Begin(target)
  BY DEF Decoding
<1> QED  BY <1>1, <1>2, <1>3, <1>4, BeginInv

LEMMA RereadInv ==
  ASSUME CodecInv, Reread
  PROVE  CodecInv'
<1>1. documents' \in 0 .. MaxDocuments + 1
  BY CodecAssumption DEF CodecInv, CodecBasics, Reread, Begin
<1>2. rereading' = TRUE /\ unread' \in Seq(TokenSet)
  BY WrittenType DEF Reread
<1>3. ZeroValue \in Seq(Entries) \/ ~HasContent
  BY EmptySeq DEF ZeroValue
<1>4. ~HasContent => IsStruct(ZeroValue)
  BY ZeroIsStruct DEF CodecInv, CodecBasics
<1>5. Begin(ZeroValue)
  BY DEF Reread
<1> QED  BY <1>1, <1>2, <1>3, <1>4, <1>5, BeginInv
-----------------------------------------------------------------------------
(* A token is read: it is one of those offered.                              *)
LEMMA OfferedType ==
  ASSUME CodecInv, NEW tok \in Offered
  PROVE  tok \in TokenSet
<1>1. CASE rereading
  <2>1. unread # << >> /\ tok = Head(unread)
    BY <1>1 DEF Offered
  <2> QED  BY <2>1, HeadTailProperties DEF CodecInv, CodecBasics
<1>2. CASE ~rereading
  <2>1. tok \in Tokens(type) /\ type \in Types
    BY <1>2 DEF Offered, CodecInv, CodecBasics
  <2> QED  BY <2>1, TokensAssumption DEF TokenSet
<1> QED  BY <1>1, <1>2

LEMMA ReadTokenBasics ==
  ASSUME CodecInv, NEW tok \in Offered, ReadToken(tok), phase' \in {phase, "failed"}
  PROVE  CodecBasics'
<1> USE DEF CodecInv
<1>1. /\ UNCHANGED <<type, validating, before, rereading, documents>>
      /\ read' = Append(read, tok) /\ phase = "reading"
      /\ unread' = IF rereading THEN Tail(unread) ELSE unread
  BY DEF ReadToken
<1>2. tok \in TokenSet
  BY OfferedType
<1>3. read' \in Seq(TokenSet)
  BY <1>1, <1>2, AppendProperties DEF CodecBasics
<1>4. unread' \in Seq(TokenSet)
  <2>1. rereading => unread # << >>
    BY DEF Offered
  <2> QED  BY <1>1, <2>1, HeadTailProperties DEF CodecBasics
<1>5. TagsConflict' = TagsConflict
  BY <1>1, SameType
<1> QED  BY <1>1, <1>3, <1>4, <1>5, SameStructs DEF CodecBasics

(* It is put into its field.                                                 *)
LEMMA FillOne ==
  ASSUME CodecInv, ~HasContent, NEW tok \in Offered, ReadToken(tok),
         FieldFor(tok) # 0, NEW value, Filling(value),
         Parsed(fields[FieldFor(tok)], Old(fields[FieldFor(tok)], value[FieldFor(tok)]), tok) # Bad,
         NEW new,
         new = [value EXCEPT ![FieldFor(tok)] =
                  Into(fields[FieldFor(tok)], value[FieldFor(tok)], tok)]
  PROVE  /\ Filling(new)'
         /\ IsStruct(value) => IsStruct(new)
<1> PICK k, f : k = FieldFor(tok) /\ f = fields[k]
  OBVIOUS
<1>1. UNCHANGED <<type, validating, before>> /\ read' = Append(read, tok)
  BY DEF ReadToken
<1>2. tok \in TokenSet /\ type \in Types /\ read \in Seq(TokenSet)
  BY OfferedType DEF CodecInv, CodecBasics
<1>3. k \in DOMAIN fields /\ f \in Field /\ FieldAllowed(f)
  BY <1>2, FieldForToken, TokenKinds, FieldsOfType
<1>4. /\ Parsed(f, Old(f, value[k]), tok) \in Held(f)
      /\ f.kind \in Gathers \cup {"anyAttribute"}
  <2>1. /\ Parsed(f, Old(f, value[k]), tok) \in Held(f) \cup {Bad}
        /\ f.kind \in {"element", "attribute", "any", "anyAttribute"}
    BY <1>2, ParsedType
  <2> QED  BY <2>1 DEF Gathers
<1>5. /\ new = [i \in DOMAIN fields |-> new[i]]
      /\ new[k] = Into(f, value[k], tok)
      /\ \A i \in DOMAIN fields : i # k => new[i] = value[i]
  BY <1>3 DEF Filling
<1>6. value[k] \in Seq(Held(f))
  BY <1>3, EmptySeq DEF Filling, IsFieldValue
<1>7. IsFieldValue(f, new[k])
  BY <1>4, <1>5, <1>6, IntoIsValue
<1>8. \A i \in DOMAIN fields :
        \/ IsFieldValue(fields[i], new[i])
        \/ IsShadowed(fields[i]) /\ new[i] = << >>
  BY <1>3, <1>5, <1>7 DEF Filling
<1>9. ASSUME StartsAfresh, NEW i \in DOMAIN fields
      PROVE  new[i] = Collect(fields[i], Start(i), TokensFor(i)')
  <2>1. value[i] = Collect(fields[i], Start(i), TokensFor(i))
    BY <1>9 DEF Filling
  <2>2. TokensFor(i)' = IF k = i THEN Append(TokensFor(i), tok) ELSE TokensFor(i)
    BY <1>1, <1>2, OneMoreToken
  <2>3. CASE i # k
    BY <1>5, <2>1, <2>2, <2>3
  <2>4. CASE i = k
    <3> PICK start, tokens : start = Start(i) /\ tokens = TokensFor(i)
      OBVIOUS
    <3>1. start \in {<< >>, ZeroField(f)} /\ tokens \in Seq(TokenSet)
      BY <1>2, <2>4, TokensForType DEF Start
    <3>2. Bad \notin {Collect(f, start, tokens)[n] : n \in DOMAIN Collect(f, start, tokens)}
      <4>1. \A n \in DOMAIN value[k] : value[k][n] \in Held(f)
        BY <1>6, LenProperties, ElementOfSeq
      <4> QED  BY <1>3, <2>1, <2>4, <4>1, HeldIsNotBad
    <3>3. Into(f, Collect(f, start, tokens), tok) = Collect(f, start, Append(tokens, tok))
      BY <1>2, <1>3, <1>4, <3>1, <3>2, CollectOneMore
    <3> QED  BY <1>5, <2>1, <2>2, <2>4, <3>3
  <2> QED  BY <2>3, <2>4
<1>10. Filling(new)'
  <2>1. StartsAfresh' = StartsAfresh
    BY <1>1, SameType DEF StartsAfresh
  <2>2. new' = new
    OBVIOUS
  <2> QED  BY <1>1, <1>5, <1>8, <1>9, <2>1, SameType, SameStructs DEF Filling
<1>11. IsStruct(value) => IsStruct(new)
  BY <1>5, <1>7 DEF IsStruct
<1> QED  BY <1>10, <1>11
-----------------------------------------------------------------------------
LEMMA ReadKnownInv ==
  ASSUME CodecInv, ReadKnown
  PROVE  CodecInv'
<1>1. PICK tok \in Offered :
        /\ ReadToken(tok) /\ FieldFor(tok) # 0 /\ ~Fails(tok) /\ ~HasContent
        /\ UNCHANGED phase
        /\ IF shape = "plain"
           THEN /\ target' = [target EXCEPT ![FieldFor(tok)] =
                     Into(fields[FieldFor(tok)], target[FieldFor(tok)], tok)]
                /\ UNCHANGED local
           ELSE /\ local' = [local EXCEPT ![FieldFor(tok)] =
                     Into(fields[FieldFor(tok)], local[FieldFor(tok)], tok)]
                /\ UNCHANGED target
  BY DEF ReadKnown
<1>2. UNCHANGED <<type, validating>> /\ phase = "reading"
  BY <1>1 DEF ReadToken
<1>3. CodecBasics'
  BY <1>1, ReadTokenBasics
<1> PICK value, new : value = Filled /\ new = Filled'
  OBVIOUS
<1>4. new = [value EXCEPT ![FieldFor(tok)] =
               Into(fields[FieldFor(tok)], value[FieldFor(tok)], tok)]
  <2>1. new = IF shape = "plain" THEN target' ELSE local'
    BY <1>2, SameType DEF Filled
  <2> QED  BY <1>1, <2>1 DEF Filled
<1>5. Filling(value)
  BY <1>1, <1>2 DEF CodecInv, StructHeld
<1>6. Parsed(fields[FieldFor(tok)], Old(fields[FieldFor(tok)], value[FieldFor(tok)]), tok) # Bad
  BY <1>1 DEF Fails
<1>7. Filling(new)' /\ (IsStruct(value) => IsStruct(new))
  BY <1>1, <1>4, <1>5, <1>6, FillOne
<1>8. Filling(Filled)'
  BY <1>7
<1>9. IsStruct(target)'
  <2>1. IsStruct(target)
    BY <1>1 DEF CodecInv, StructHeld
  <2>2. IsStruct(target')
    BY <1>1, <1>2, <1>7, <2>1, SameType DEF Filled
  <2> QED  BY <1>2, <2>2, SameStructs
<1>10. HasContent' = HasContent
  BY <1>2, SameType
<1> QED  BY <1>1, <1>2, <1>3, <1>8, <1>9, <1>10 DEF CodecInv, StructHeld, ContentHeld, StructDecoded

(* A token that has no field changes no value.                               *)
LEMMA SkipInv ==
  ASSUME CodecInv, Skip
  PROVE  CodecInv'
<1>1. PICK tok \in Offered : FieldFor(tok) = 0 /\ ReadToken(tok) /\ UNCHANGED <<phase, target, local>>
  BY DEF Skip
<1>2. UNCHANGED <<type, validating, before>> /\ phase = "reading" /\ read' = Append(read, tok)
  BY <1>1 DEF ReadToken
<1>3. CodecBasics'
  BY <1>1, ReadTokenBasics
<1>4. StructHeld'
  <2> SUFFICES ASSUME ~HasContent PROVE IsStruct(target)' /\ Filling(Filled)'
    BY <1>2, SameType DEF StructHeld
  <2>1. IsStruct(target)'
    BY <1>1, <1>2, SameStructs DEF CodecInv, StructHeld
  <2> PICK value : value = Filled
    OBVIOUS
  <2>2. Filled' = value
    BY <1>1, <1>2, SameType DEF Filled
  <2>3. Filling(value)
    BY <1>2 DEF CodecInv, StructHeld
  <2>4. tok \in TokenSet /\ read \in Seq(TokenSet)
    BY <1>1, OfferedType DEF CodecInv, CodecBasics
  <2>5. \A i \in DOMAIN fields : TokensFor(i)' = TokensFor(i)
    <3> TAKE i \in DOMAIN fields
    <3>1. FieldFor(tok) # i
      BY <1>1, FieldsOfType DEF CodecInv, CodecBasics
    <3> QED  BY <1>2, <2>4, <3>1, OneMoreToken
  <2>6. StartsAfresh' = StartsAfresh
    BY <1>2, SameType DEF StartsAfresh
  <2>7. Filling(value)'
    BY <1>2, <2>3, <2>5, <2>6, SameType, SameStructs DEF Filling
  <2> QED  BY <2>1, <2>2, <2>7
<1>5. ContentHeld'
  BY <1>1, <1>2, SameType, SameStructs DEF CodecInv, ContentHeld
<1> QED  BY <1>1, <1>2, <1>3, <1>4, <1>5 DEF CodecInv, StructDecoded

(* What a failed decoding leaves is a value.                                 *)
LEMMA LeftIsStruct ==
  ASSUME IsStruct(target), NEW places, LeftBy(places),
         \A i \in places \cap DOMAIN fields : Values \subseteq Held(fields[i])
  PROVE  IsStruct(target')
<1>1. PICK v \in Values :
        target' = IF shape # "plain" THEN target
                  ELSE [i \in DOMAIN fields |->
                          IF i \in places /\ ~IsSlice(fields[i]) /\ target[i] # <<Nil>>
                          THEN <<v>> ELSE target[i]]
  BY DEF LeftBy
<1>2. CASE shape # "plain"
  BY <1>1, <1>2
<1>3. CASE shape = "plain"
  <2>1. target' = [i \in DOMAIN fields |-> target'[i]]
    BY <1>1, <1>3
  <2>2. ASSUME NEW i \in DOMAIN fields PROVE IsFieldValue(fields[i], target'[i])
    <3>1. CASE target'[i] = target[i]
      BY <3>1 DEF IsStruct
    <3>2. CASE target'[i] # target[i]
      <4>1. target'[i] = <<v>> /\ i \in places
        BY <1>1, <1>3, <3>2
      <4>2. v \in Held(fields[i])
        BY <4>1
      <4>3. <<v>> \in Seq(Held(fields[i])) /\ Len(<<v>>) = 1
        BY <4>2
      <4> QED  BY <4>1, <4>3 DEF IsFieldValue
    <3> QED  BY <3>1, <3>2
  <2> QED  BY <2>1, <2>2 DEF IsStruct
<1> QED  BY <1>2, <1>3

LEMMA FailedInv ==
  ASSUME CodecInv, CodecBasics', UNCHANGED <<type, validating>>, phase' = "failed",
         NEW places, LeftBy(places),
         \A i \in places \cap DOMAIN fields : Values \subseteq Held(fields[i])
  PROVE  CodecInv'
<1>1. CASE HasContent
  <2>1. target' = target
    BY <1>1 DEF LeftBy, HasContent
  <2> QED  BY <1>1, <2>1, SameType, SameStructs
           DEF CodecInv, StructHeld, ContentHeld, StructDecoded
<1>2. CASE ~HasContent
  <2>1. IsStruct(target')
    BY <1>2, LeftIsStruct DEF CodecInv, StructHeld
  <2>2. IsStruct(target)'
    BY <2>1, SameStructs
  <2> QED  BY <1>2, <2>2, SameType DEF CodecInv, StructHeld, ContentHeld, StructDecoded
<1> QED  BY <1>1, <1>2

LEMMA ReadBadInv ==
  ASSUME CodecInv, ReadBad
  PROVE  CodecInv'
<1>1. PICK tok \in Offered :
        ReadToken(tok) /\ Fails(tok) /\ phase' = "failed" /\ LeftBy({FieldFor(tok)})
  BY DEF ReadBad
<1>2. CodecBasics'
  BY <1>1, ReadTokenBasics
<1>3. UNCHANGED <<type, validating>>
  BY <1>1 DEF ReadToken
<1>4. Values \subseteq Held(fields[FieldFor(tok)])
  <2> PICK k, f : k = FieldFor(tok) /\ f = fields[FieldFor(tok)]
    OBVIOUS
  <2>1. tok \in TokenSet /\ type \in Types /\ k # 0
    BY <1>1, OfferedType DEF CodecInv, CodecBasics, Fails
  <2>2. \E old : Parsed(f, old, tok) = Bad
    BY <1>1 DEF Fails
  <2>3. f.kind \in {"element", "attribute"}
    BY <2>1, <2>2, ParsedType
  <2> QED  BY <2>3 DEF Held
<1> QED  BY <1>1, <1>2, <1>3, <1>4, FailedInv

(* What is appended to the content.                                          *)
LEMMA ContentFails ==
  ASSUME HasContent, NEW tok
  PROVE  Fails(tok) <=> /\ FieldFor(tok) # 0
                        /\ Parsed(fields[FieldFor(tok)], ZeroItem(fields[FieldFor(tok)]), tok) = Bad
BY DEF Fails

LEMMA EntryOfType ==
  ASSUME type \in Types, HasContent, NEW tok \in TokenSet,
         FieldFor(tok) # 0 \/ IsText(tok), ~Fails(tok)
  PROVE  EntryOf(tok) \in Entries
<1>1. CASE IsText(tok)
  <2>1. tok \in TextTokens /\ shape = "mixed"
    BY <1>1, TextsAreTokens DEF IsText
  <2>2. EntryOf(tok) = tok
    BY <1>1 DEF EntryOf
  <2> QED  BY <2>1, <2>2 DEF Entries
<1>2. CASE ~IsText(tok)
  <2> PICK k, f, v, e : /\ k = FieldFor(tok) /\ f = fields[FieldFor(tok)] /\ e = EntryOf(tok)
                        /\ v = Parsed(f, ZeroItem(f), tok)
    OBVIOUS
  <2>1. tok.kind = "child" /\ k # 0 /\ f.kind = "element"
    BY <1>2, FieldForToken, TokenKinds
  <2>2. v # Bad
    BY <2>1, ContentFails
  <2>3. v \in Held(f)
    BY <2>1, <2>2, ParsedType
  <2>4. v \in {Nil} \cup Values
    BY <2>1, <2>3 DEF Held
  <2>5. tok \in [kind : {"child"}, name : Names, value : {Nil} \cup Contents]
    BY <2>1 DEF TokenSet
  <2>6. e = [tok EXCEPT !.value = v]
    BY <1>2 DEF EntryOf
  <2>7. /\ e \in [kind : {"child"}, name : Names, value : {Nil} \cup Values]
        /\ e.kind = "child" /\ e.name = tok.name /\ e.value = v
    BY <2>4, <2>5, <2>6
  <2>8. FieldFor(e) = k
    BY <2>1, <2>7 DEF FieldFor
  <2> QED  BY <2>1, <2>3, <2>7, <2>8 DEF Entries
<1> QED  BY <1>1, <1>2

LEMMA ReadContentInv ==
  ASSUME CodecInv, ReadContent
  PROVE  CodecInv'
<1>1. PICK tok \in Offered :
        /\ ReadToken(tok) /\ HasContent /\ (FieldFor(tok) # 0 \/ IsText(tok)) /\ ~Fails(tok)
        /\ UNCHANGED <<phase, local>>
        /\ target' = IF shape = "choice" /\ ~Repeated(fields[1]) THEN <<EntryOf(tok)>>
                     ELSE Append(target, EntryOf(tok))
  BY DEF ReadContent
<1>2. UNCHANGED <<type, validating>> /\ phase = "reading"
  BY <1>1 DEF ReadToken
<1>3. CodecBasics'
  BY <1>1, ReadTokenBasics
<1>4. EntryOf(tok) \in Entries
  BY <1>1, OfferedType, EntryOfType DEF CodecInv, CodecBasics
<1>5. target \in Seq(Entries)
  BY <1>1 DEF CodecInv, ContentHeld
<1>6. <<EntryOf(tok)>> \in Seq(Entries)
  BY <1>4
<1>7. target' \in Seq(Entries)
  BY <1>1, <1>4, <1>5, <1>6, AppendProperties
<1>8. HasContent' = HasContent /\ Entries' = Entries
  BY <1>2, SameType, SameStructs
<1> QED  BY <1>1, <1>2, <1>3, <1>7, <1>8 DEF CodecInv, StructHeld, ContentHeld, StructDecoded
-----------------------------------------------------------------------------
(* The end of the element: the text of a struct is decoded, and every field  *)
(* is assigned what it is to hold.                                            *)
TextParts(tokens) == [i \in DOMAIN tokens |-> IF tokens[i].kind = "text" THEN tokens[i].value ELSE << >>]

LEMMA TextPartsType ==
  ASSUME NEW tokens \in Seq(TokenSet)
  PROVE  TextParts(tokens) \in Seq(Contents)
<1>1. Len(tokens) \in Nat /\ DOMAIN tokens = 1 .. Len(tokens)
      /\ \A i \in 1 .. Len(tokens) : tokens[i] \in TokenSet
  BY LenProperties
<1>2. \A tok \in TokenSet : tok.kind = "text" => tok.value \in Contents
  BY TextsAreTokens
<1>3. << >> \in Contents
  BY EmptySeq DEF Contents
<1>4. TextParts(tokens) \in [1 .. Len(tokens) -> Contents]
  BY <1>1, <1>2, <1>3 DEF TextParts
<1> QED  BY <1>1, <1>4, SeqDef

(* The text of a field is a text: no child, and no attribute.                *)
LEMMA TextFieldStarts ==
  ASSUME NEW f \in Field, FieldAllowed(f), f.kind = "text"
  PROVE  /\ ~IsSlice(f) /\ ~IsPointer(f) /\ ~NeedsPresenceTracking(f)
         /\ ~HasDefault(f) /\ ~AppliesDefault(f) /\ ~AssignsDefault(f) /\ ~IsShadowed(f)
         /\ ZeroField(f) = <<ZeroOf(f.type)>>
<1>1. f.max = 1 /\ f.default = << >> /\ f.fixed = << >> /\ f.max # Unbounded
  BY TypesAssumption DEF FieldAllowed
<1>2. ~IsSlice(f) /\ ~IsPointer(f)
  BY <1>1 DEF IsSlice, IsPointer, Repeated, Optional
<1>3. ~NeedsPresenceTracking(f) /\ ~HasDefault(f)
  BY <1>1 DEF NeedsPresenceTracking, HasDefault, DefaultText
<1>4. ~AppliesDefault(f) /\ ~AssignsDefault(f) /\ ~IsShadowed(f)
  BY <1>3 DEF AppliesDefault, AssignsDefault, IsShadowed
<1> QED  BY <1>2, <1>3, <1>4 DEF ZeroField, ZeroItem

LEMMA TextIsValue ==
  ASSUME type \in Types, ~TextFails, NEW i \in DOMAIN fields, fields[i].kind = "text"
  PROVE  /\ IsFieldValue(fields[i], <<TextValue(i)>>)
         /\ WithText[i] = <<TextValue(i)>>
<1>1. i \in TextFields
  BY DEF TextFields
<1>2. TextValue(i) \in Values
  BY <1>1, DecodeType DEF TextFails, TextValue
<1>3. Held(fields[i]) = Values
  BY DEF Held
<1>4. <<TextValue(i)>> \in Seq(Held(fields[i])) /\ Len(<<TextValue(i)>>) = 1
  BY <1>2, <1>3
<1> QED  BY <1>1, <1>4 DEF IsFieldValue, WithText

LEMMA TextDecodes ==
  ASSUME CodecInv, ~HasContent, phase = "reading", StartsAfresh,
         NEW i \in DOMAIN fields, fields[i].kind = "text"
  PROVE  <<TextValue(i)>> = Decoded(i)
<1> PICK f : f = fields[i]
  OBVIOUS
<1>1. f \in Field /\ FieldAllowed(f)
  BY FieldsOfType DEF CodecInv, CodecBasics
<1>2. Filled[i] = Collect(f, Start(i), TokensFor(i))
  BY DEF CodecInv, StructHeld, Filling
<1>3. Filled[i] = <<ZeroOf(f.type)>>
  BY <1>1, <1>2, TextFieldStarts DEF Collect, Start
<1>4. Head(Filled[i]) = ZeroOf(f.type)
  BY <1>3
<1> QED  BY <1>4 DEF TextValue, Decoded

LEMMA WithTextElse ==
  ASSUME NEW i \in DOMAIN fields, fields[i].kind # "text"
  PROVE  WithText[i] = Filled[i]
BY DEF WithText, TextFields

(* Where a field is tracked, each assignment of a default compiles.          *)
LEMMA DefaultIsValue ==
  ASSUME CodecInv, shape = "tracked", NEW i \in DOMAIN fields, AssignsDefault(fields[i])
  PROVE  /\ IsFieldValue(fields[i], <<DefaultValue(fields[i])>>)
         /\ AppliesDefault(fields[i]) /\ ~fields[i].nillable
         /\ ~IsSlice(fields[i]) /\ fields[i].kind # "text"
<1> PICK f : f = fields[i]
  OBVIOUS
<1>1. f \in Field /\ FieldAllowed(f)
  BY FieldsOfType DEF CodecInv, CodecBasics
<1>2. ~f.nillable /\ DefaultValue(f) # Bad
  <2>1. Shape(type, FALSE) = "tracked"
    BY DEF shape, Shape
  <2> QED  BY <2>1 DEF CodecInv, CodecBasics, Compiles, fields
<1>3. DefaultValue(f) \in Values
  BY <1>2 DEF DefaultValue
<1>4. HasDefault(f) /\ ~Repeated(f)
  BY DEF AssignsDefault, IsPointer
<1>5. f.kind \in {"element", "attribute"}
  BY <1>1, <1>4, FieldParts DEF HasDefault, DefaultText, FieldAllowed
<1>6. AppliesDefault(f)
  BY <1>2, <1>4, <1>5 DEF AppliesDefault
<1>7. Values \subseteq Held(f)
  BY <1>5 DEF Held
<1>8. <<DefaultValue(f)>> \in Seq(Held(f)) /\ Len(<<DefaultValue(f)>>) = 1
  BY <1>3, <1>7
<1> QED  BY <1>2, <1>4, <1>5, <1>6, <1>8 DEF IsFieldValue, IsSlice

LEMMA EndBasics ==
  ASSUME CodecInv, AtEnd, phase' \in {"done", "failed"}
  PROVE  /\ CodecBasics'
         /\ UNCHANGED <<type, validating, local, before, read>> /\ phase = "reading"
         /\ StartsAfresh' = StartsAfresh
         /\ \A i : Decoded(i)' = Decoded(i) /\ TokensFor(i)' = TokensFor(i)
<1>1. /\ UNCHANGED <<type, validating, local, before, read, rereading, unread, documents>>
      /\ phase = "reading"
  BY DEF AtEnd
<1>2. TagsConflict' = TagsConflict
  BY <1>1, SameType
<1>3. CodecBasics'
  BY <1>1, <1>2, SameStructs DEF CodecInv, CodecBasics
<1>4. StartsAfresh' = StartsAfresh
  BY <1>1, SameType DEF StartsAfresh
<1> QED  BY <1>1, <1>3, <1>4, SameTokens

LEMMA EndContentInv ==
  ASSUME CodecInv, ReadEnd
  PROVE  CodecInv'
<1>1. AtEnd /\ HasContent /\ target' = target /\ phase' \in {"done", "failed"}
  BY DEF ReadEnd, FinishDecoding
<1>2. CodecBasics' /\ UNCHANGED <<type, validating>>
  BY <1>1, EndBasics
<1>3. HasContent' = HasContent /\ Entries' = Entries
  BY <1>2, SameType, SameStructs
<1> QED  BY <1>1, <1>2, <1>3 DEF CodecInv, StructHeld, ContentHeld, StructDecoded

LEMMA EndBadInv ==
  ASSUME CodecInv, ReadEndBad
  PROVE  CodecInv'
<1>1. AtEnd /\ ~HasContent /\ phase' = "failed" /\ LeftBy(TextFields)
  BY DEF ReadEndBad
<1>2. CodecBasics' /\ UNCHANGED <<type, validating>>
  BY <1>1, EndBasics
<1>3. \A i \in TextFields \cap DOMAIN fields : Values \subseteq Held(fields[i])
  BY DEF TextFields, Held
<1> QED  BY <1>1, <1>2, <1>3, FailedInv

(* A struct ends: the value it gets is one of the type, and if it is done it *)
(* holds what it should.                                                      *)
LEMMA EndStructInv ==
  ASSUME CodecInv, AtEnd, ~HasContent, phase' \in {"done", "failed"},
         target' = [i \in DOMAIN fields |-> target'[i]],
         \A i \in DOMAIN fields : IsFieldValue(fields[i], target'[i]),
         phase' = "done" /\ StartsAfresh =>
           \A i \in DOMAIN fields :
             /\ target'[i] = Decoded(i)
             /\ NeedsPresenceTracking(fields[i]) => TokensFor(i) # << >>
  PROVE  CodecInv'
<1>1. /\ CodecBasics' /\ UNCHANGED <<type, validating>>
      /\ StartsAfresh' = StartsAfresh
      /\ \A i : Decoded(i)' = Decoded(i) /\ TokensFor(i)' = TokensFor(i)
  BY EndBasics
<1>2. HasContent' = HasContent /\ fields' = fields
  BY <1>1, SameType
<1>3. IsStruct(target')
  BY DEF IsStruct
<1>4. IsStruct(target)'
  BY <1>1, <1>3, SameStructs
<1>5. StructDecoded'
  BY <1>1, <1>2 DEF StructDecoded
<1> QED  BY <1>1, <1>2, <1>4, <1>5 DEF CodecInv, StructHeld, ContentHeld

(* Without presence tracking nothing has a default.                          *)
LEMMA NoDefaults ==
  ASSUME shape \in {"plain", "alias"}, NEW i \in DOMAIN fields
  PROVE  ~AppliesDefault(fields[i]) /\ ~NeedsPresenceTracking(fields[i]) /\ ~IsShadowed(fields[i])
BY DEF shape, Shape, fields, IsShadowed

LEMMA WithTextDecodes ==
  ASSUME CodecInv, ~HasContent, phase = "reading", shape \in {"plain", "alias"}, ~TextFails
  PROVE  /\ WithText = [i \in DOMAIN fields |-> WithText[i]]
         /\ \A i \in DOMAIN fields : IsFieldValue(fields[i], WithText[i])
         /\ StartsAfresh => \A i \in DOMAIN fields :
              WithText[i] = Decoded(i) /\ ~NeedsPresenceTracking(fields[i])
<1>1. Filling(Filled) /\ type \in Types
  BY DEF CodecInv, CodecBasics, StructHeld
<1>2. \A i \in DOMAIN fields : ~IsShadowed(fields[i]) /\ ~NeedsPresenceTracking(fields[i])
  BY NoDefaults
<1>3. ASSUME NEW i \in DOMAIN fields
      PROVE  /\ IsFieldValue(fields[i], WithText[i])
             /\ StartsAfresh => WithText[i] = Decoded(i)
  <2>1. CASE fields[i].kind = "text"
    BY <1>1, <2>1, TextIsValue, TextDecodes
  <2>2. CASE fields[i].kind # "text"
    <3>1. WithText[i] = Filled[i]
      BY <2>2, WithTextElse
    <3> QED  BY <1>1, <1>2, <2>2, <3>1 DEF Filling, Start, Decoded
  <2> QED  BY <2>1, <2>2
<1>4. WithText = [i \in DOMAIN fields |-> WithText[i]]
  BY DEF WithText
<1> QED  BY <1>2, <1>3, <1>4

LEMMA EndPlainInv ==
  ASSUME CodecInv, ReadEndPlain
  PROVE  CodecInv'
<1>1. AtEnd /\ shape = "plain" /\ phase' = "done" /\ target' = WithText
      /\ phase = "reading" /\ ~HasContent /\ ~TextFails
  BY DEF ReadEndPlain, AtEnd, HasContent
<1>2. /\ target' = [i \in DOMAIN fields |-> target'[i]]
      /\ \A i \in DOMAIN fields : IsFieldValue(fields[i], target'[i])
      /\ StartsAfresh => \A i \in DOMAIN fields :
           target'[i] = Decoded(i) /\ ~NeedsPresenceTracking(fields[i])
  BY <1>1, WithTextDecodes
<1> QED  BY <1>1, <1>2, EndStructInv

LEMMA EndAliasInv ==
  ASSUME CodecInv, ReadEndAlias
  PROVE  CodecInv'
<1>1. AtEnd /\ shape = "alias" /\ phase' \in {"done", "failed"} /\ target' = WithText
      /\ phase = "reading" /\ ~HasContent /\ ~TextFails
  BY DEF ReadEndAlias, AtEnd, HasContent, FinishDecoding
<1>2. /\ target' = [i \in DOMAIN fields |-> target'[i]]
      /\ \A i \in DOMAIN fields : IsFieldValue(fields[i], target'[i])
      /\ StartsAfresh => \A i \in DOMAIN fields :
           target'[i] = Decoded(i) /\ ~NeedsPresenceTracking(fields[i])
  BY <1>1, WithTextDecodes
<1> QED  BY <1>1, <1>2, EndStructInv

(* What is assigned to a field that is not missing.                          *)
LEMMA AssignedDecodes ==
  ASSUME CodecInv, phase = "reading", shape = "tracked", ~TextFails,
         NEW i \in DOMAIN fields, i \notin Missing
  PROVE  /\ IsFieldValue(fields[i], Assigned(i))
         /\ Assigned(i) = Decoded(i)
         /\ NeedsPresenceTracking(fields[i]) => TokensFor(i) # << >>
<1> PICK f : f = fields[i]
  OBVIOUS
<1>1. f \in Field /\ FieldAllowed(f) /\ type \in Types
  BY FieldsOfType DEF CodecInv, CodecBasics
<1>2. ~HasContent /\ StartsAfresh /\ Filled = local
  BY DEF HasContent, StartsAfresh, Filled
<1>3. NeedsPresenceTracking(f) => local[i] # << >>
  BY DEF Missing
<1>4. IsShadowed(f) <=> NeedsPresenceTracking(f) \/ AppliesDefault(f)
  BY DEF IsShadowed
<1>5. /\ IsFieldValue(f, local[i]) \/ (IsShadowed(f) /\ local[i] = << >>)
      /\ local[i] = Collect(f, Start(i), TokensFor(i))
  BY <1>2 DEF CodecInv, StructHeld, Filling
<1>6. NeedsPresenceTracking(f) => TokensFor(i) # << >>
  <2> SUFFICES ASSUME NeedsPresenceTracking(f), TokensFor(i) = << >> PROVE FALSE
    OBVIOUS
  <2>1. Start(i) = << >> /\ ~IsSlice(f)
    BY <1>4 DEF Start, NeedsPresenceTracking, IsSlice
  <2>2. local[i] = << >>
    BY <1>5, <2>1 DEF Collect
  <2> QED  BY <1>3, <2>2
<1>7. CASE f.kind = "text"
  <2>1. ~AssignsDefault(f)
    BY <1>1, <1>7, TextFieldStarts
  <2>2. Assigned(i) = WithText[i]
    BY <2>1 DEF Assigned
  <2>3. WithText[i] = <<TextValue(i)>> /\ IsFieldValue(f, WithText[i])
    BY <1>1, <1>7, TextIsValue
  <2>4. <<TextValue(i)>> = Decoded(i)
    BY <1>2, <1>7, TextDecodes
  <2> QED  BY <1>6, <2>2, <2>3, <2>4
<1>8. CASE f.kind # "text" /\ AssignsDefault(f)
  <2>1. IsFieldValue(f, <<DefaultValue(f)>>) /\ AppliesDefault(f) /\ ~IsSlice(f)
    BY <1>8, DefaultIsValue
  <2>2. Start(i) = << >>
    BY <1>4, <2>1 DEF Start
  <2>3. Assigned(i) = IF local[i] = << >> THEN <<DefaultValue(f)>> ELSE local[i]
    BY <1>2, <1>8, WithTextElse DEF Assigned
  <2>4. local[i] = << >> <=> TokensFor(i) = << >>
    BY <1>5, <1>8, <2>1, <2>2 DEF Collect
  <2>5. TokensFor(i) # << >> => local[i] = Collect(f, ZeroField(f), TokensFor(i))
    BY <1>5, <1>8, <2>1 DEF Collect
  <2>6. Decoded(i) = IF TokensFor(i) = << >> THEN <<DefaultValue(f)>>
                     ELSE Collect(f, ZeroField(f), TokensFor(i))
    BY <1>8, <2>1 DEF Decoded
  <2> QED  BY <1>5, <1>6, <2>1, <2>3, <2>4, <2>5, <2>6
<1>9. CASE f.kind # "text" /\ ~AssignsDefault(f)
  <2>1. Assigned(i) = local[i] /\ Decoded(i) = Collect(f, ZeroField(f), TokensFor(i))
    BY <1>2, <1>9, WithTextElse DEF Assigned, Decoded
  <2>2. CASE ~IsShadowed(f)
    BY <1>5, <1>6, <2>1, <2>2 DEF Start
  <2>3. CASE IsShadowed(f)
    <3>1. NeedsPresenceTracking(f)
      BY <1>4, <1>9, <2>3 DEF AppliesDefault, AssignsDefault
    <3>2. local[i] # << >> /\ ~IsSlice(f) /\ TokensFor(i) # << >>
      BY <1>3, <1>6, <3>1 DEF NeedsPresenceTracking, IsSlice
    <3>3. Collect(f, Start(i), TokensFor(i)) = Collect(f, ZeroField(f), TokensFor(i))
      BY <1>9, <3>2 DEF Collect
    <3> QED  BY <1>5, <1>6, <2>1, <3>2, <3>3
  <2> QED  BY <2>2, <2>3
<1> QED  BY <1>7, <1>8, <1>9

LEMMA EndTrackedInv ==
  ASSUME CodecInv, ReadEndTracked
  PROVE  CodecInv'
<1>1. AtEnd /\ shape = "tracked" /\ phase = "reading" /\ ~HasContent /\ ~TextFails
  BY DEF ReadEndTracked, AtEnd, HasContent
<1>2. \A i \in DOMAIN fields : i \notin Missing =>
        /\ IsFieldValue(fields[i], Assigned(i)) /\ Assigned(i) = Decoded(i)
        /\ NeedsPresenceTracking(fields[i]) => TokensFor(i) # << >>
  BY <1>1, AssignedDecodes
<1>3. CASE Missing = {}
  <2>1. target' = [i \in DOMAIN fields |-> Assigned(i)] /\ phase' \in {"done", "failed"}
    BY <1>3 DEF ReadEndTracked, FinishDecoding
  <2>2. /\ target' = [i \in DOMAIN fields |-> target'[i]]
        /\ \A i \in DOMAIN fields : IsFieldValue(fields[i], target'[i])
        /\ \A i \in DOMAIN fields :
             /\ target'[i] = Decoded(i)
             /\ NeedsPresenceTracking(fields[i]) => TokensFor(i) # << >>
    BY <1>2, <1>3, <2>1
  <2> QED  BY <1>1, <2>1, <2>2, EndStructInv
<1>4. CASE Missing # {}
  <2>1. target' = [i \in DOMAIN fields |-> IF i < First(Missing) THEN Assigned(i) ELSE target[i]]
        /\ phase' = "failed"
    BY <1>4 DEF ReadEndTracked
  <2>2. \A i \in DOMAIN fields : i < First(Missing) => i \notin Missing
    <3>1. Len(fields) \in Nat /\ DOMAIN fields = 1 .. Len(fields)
      BY FieldsOfType DEF CodecInv, CodecBasics
    <3>2. Missing \in SUBSET (1 .. Len(fields))
      BY <3>1 DEF Missing
    <3>3. \A S \in SUBSET (1 .. Len(fields)) : S # {} =>
            First(S) \in S /\ \A j \in S : First(S) <= j
      BY <3>1, FirstIsFirst
    <3>4. First(Missing) \in Missing /\ \A j \in Missing : First(Missing) <= j
      BY <1>4, <3>2, <3>3
    <3>5. \A j \in Missing : j \in Nat
      BY <3>1, <3>2
    <3> QED  BY <3>4, <3>5
  <2>3. \A i \in DOMAIN fields : IsFieldValue(fields[i], target[i])
    BY <1>1 DEF CodecInv, StructHeld, IsStruct
  <2>4. /\ target' = [i \in DOMAIN fields |-> target'[i]]
        /\ \A i \in DOMAIN fields : IsFieldValue(fields[i], target'[i])
    BY <1>2, <2>1, <2>2, <2>3
  <2> QED  BY <1>1, <2>1, <2>4, EndStructInv
<1> QED  BY <1>3, <1>4

LEMMA CodecNextInv ==
  ASSUME CodecInv, [CodecNext]_codecVars
  PROVE  CodecInv'
<1>1. CASE Decoding
  BY <1>1, DecodingInv
<1>2. CASE Reread
  BY <1>2, RereadInv
<1>3. CASE ReadKnown
  BY <1>3, ReadKnownInv
<1>4. CASE ReadContent
  BY <1>4, ReadContentInv
<1>5. CASE Skip
  BY <1>5, SkipInv
<1>6. CASE ReadBad
  BY <1>6, ReadBadInv
<1>7. CASE ReadEnd
  BY <1>7, EndContentInv
<1>8. CASE ReadEndPlain
  BY <1>8, EndPlainInv
<1>9. CASE ReadEndAlias
  BY <1>9, EndAliasInv
<1>10. CASE ReadEndTracked
  BY <1>10, EndTrackedInv
<1>11. CASE ReadEndBad
  BY <1>11, EndBadInv
<1>12. CASE UNCHANGED codecVars
  <2>1. UNCHANGED <<type, validating, target, local, before, read, rereading, unread, documents, phase>>
    BY <1>12 DEF codecVars
  <2>2. CodecBasics'
    BY <2>1, SameType, SameStructs DEF CodecInv, CodecBasics
  <2>3. /\ \A i : TokensFor(i)' = TokensFor(i) /\ Decoded(i)' = Decoded(i)
        /\ StartsAfresh' = StartsAfresh /\ Filled' = Filled
    BY <2>1, SameType, SameTokens DEF StartsAfresh, Filled
  <2>4. \A value : Filling(value)' = Filling(value)
    BY <2>1, <2>3, SameType, SameStructs DEF Filling
  <2>5. Filling(Filled)' = Filling(Filled)
    <3> PICK value : value = Filled
      OBVIOUS
    <3>1. Filled' = value
      BY <2>3
    <3> QED  BY <2>4, <3>1
  <2>6. StructHeld'
    BY <2>1, <2>5, SameType, SameStructs DEF CodecInv, StructHeld
  <2>7. ContentHeld'
    BY <2>1, SameType, SameStructs DEF CodecInv, ContentHeld
  <2>8. StructDecoded'
    BY <2>1, <2>3, SameType DEF CodecInv, StructDecoded
  <2> QED  BY <2>2, <2>6, <2>7, <2>8 DEF CodecInv
<1> QED  BY <1>1, <1>2, <1>3, <1>4, <1>5, <1>6, <1>7, <1>8, <1>9, <1>10, <1>11, <1>12 DEF CodecNext
-----------------------------------------------------------------------------
(* The texts the property speaks of are those the struct is given.           *)
Kept(tokens) == AtPlaces(tokens, {k \in DOMAIN tokens : tokens[k].kind = "text"})
KeptTexts(tokens) == [k \in DOMAIN Kept(tokens) |-> Kept(tokens)[k].value]

LEMMA TextsFlatten ==
  ASSUME NEW tokens \in Seq(TokenSet)
  PROVE  /\ KeptTexts(tokens) \in Seq(Contents)
         /\ FlattenSeq(TextParts(tokens)) = FlattenSeq(KeptTexts(tokens))
<1> DEFINE Good == {s \in Seq(TokenSet) :
                      /\ KeptTexts(s) \in Seq(Contents)
                      /\ FlattenSeq(TextParts(s)) = FlattenSeq(KeptTexts(s))}
<1>1. << >> \in Good
  <2>1. Kept(<< >>) = << >>
    BY SelectionOfNone DEF Kept
  <2>2. KeptTexts(<< >>) = << >> /\ TextParts(<< >>) = << >>
    BY <2>1 DEF KeptTexts, TextParts
  <2> QED  BY <2>2, EmptySeq
<1>2. ASSUME NEW s \in Seq(TokenSet), NEW e \in TokenSet, s \in Good
      PROVE  Append(s, e) \in Good
  <2> PICK t : t = Append(s, e)
    OBVIOUS
  <2> DEFINE old == {k \in DOMAIN s : s[k].kind = "text"}
             new == {k \in DOMAIN t : t[k].kind = "text"}
  <2>1. /\ t \in Seq(TokenSet) /\ Len(t) = Len(s) + 1 /\ Len(s) \in Nat
        /\ DOMAIN s = 1 .. Len(s) /\ DOMAIN t = 1 .. Len(s) + 1
        /\ \A k \in 1 .. Len(s) : t[k] = s[k]
        /\ t[Len(s) + 1] = e
    BY AppendProperties, LenProperties
  <2>2. /\ \A k \in 1 .. Len(s) : k \in new <=> k \in old
        /\ Len(s) + 1 \in new <=> e.kind = "text"
    BY <2>1
  <2>3. Kept(t) = IF e.kind = "text" THEN Append(Kept(s), e) ELSE Kept(s)
    <3>1. Kept(s) = AtPlaces(s, old) /\ Kept(t) = AtPlaces(Append(s, e), new)
      BY DEF Kept
    <3> HIDE DEF old, new
    <3>2. AtPlaces(Append(s, e), new) =
            IF Len(s) + 1 \in new THEN Append(AtPlaces(s, old), e) ELSE AtPlaces(s, old)
      BY <2>2, SelectionOfOneMore
    <3> QED  BY <2>2, <3>1, <3>2
  <2> HIDE DEF old, new
  <2> PICK v : v = IF e.kind = "text" THEN e.value ELSE << >>
    OBVIOUS
  <2>4. v \in Contents
    <3>1. e.kind = "text" => e.value \in Contents
      BY TextsAreTokens
    <3> QED  BY <3>1, EmptySeq DEF Contents
  <2>5. TextParts(t) = Append(TextParts(s), v)
    <3>1. TextParts(s) = [i \in 1 .. Len(s) |-> IF s[i].kind = "text" THEN s[i].value ELSE << >>]
      BY <2>1 DEF TextParts
    <3>2. TextParts(t) = [i \in 1 .. Len(s) + 1 |->
            IF i = Len(s) + 1 THEN v ELSE IF s[i].kind = "text" THEN s[i].value ELSE << >>]
      BY <2>1 DEF TextParts
    <3> QED  BY <2>1, <3>1, <3>2
  <2>6. FlattenSeq(TextParts(t)) = FlattenSeq(TextParts(s)) \o v
    BY <2>4, <2>5, TextPartsType, FlatOfOneMore DEF Contents
  <2>7. FlattenSeq(TextParts(s)) \in Contents
    BY TextPartsType, FlatType DEF Contents
  <2>8. CASE e.kind # "text"
    <3>1. KeptTexts(t) = KeptTexts(s)
      BY <2>3, <2>8 DEF KeptTexts
    <3>2. FlattenSeq(TextParts(t)) = FlattenSeq(TextParts(s))
      BY <2>6, <2>7, <2>8, ConcatEmptySeq DEF Contents
    <3> QED  BY <2>1, <3>1, <3>2, <1>2
  <2>9. CASE e.kind = "text"
    <3> PICK kept : kept = Kept(s)
      OBVIOUS
    <3>1. kept \in Seq(TokenSet) /\ Len(kept) \in Nat /\ DOMAIN kept = 1 .. Len(kept)
      BY SelectionType, LenProperties DEF Kept
    <3>2. Kept(t) = Append(kept, e)
      BY <2>3, <2>9
    <3>3. /\ DOMAIN Append(kept, e) = 1 .. Len(kept) + 1
          /\ \A k \in 1 .. Len(kept) : Append(kept, e)[k] = kept[k]
          /\ Append(kept, e)[Len(kept) + 1] = e
      BY <3>1, AppendProperties, LenProperties
    <3>4. KeptTexts(s) = [k \in 1 .. Len(kept) |-> kept[k].value]
      BY <3>1 DEF KeptTexts
    <3>5. KeptTexts(t) = [k \in 1 .. Len(kept) + 1 |->
                            IF k = Len(kept) + 1 THEN v ELSE kept[k].value]
      BY <2>9, <3>1, <3>2, <3>3 DEF KeptTexts
    <3>6. KeptTexts(t) = Append(KeptTexts(s), v)
      BY <3>1, <3>4, <3>5
    <3>7. KeptTexts(s) \in Seq(Contents)
      BY <1>2
    <3>8. KeptTexts(t) \in Seq(Contents)
      BY <2>4, <3>6, <3>7, AppendProperties
    <3>9. FlattenSeq(KeptTexts(t)) = FlattenSeq(KeptTexts(s)) \o v
      BY <2>4, <3>6, <3>7, FlatOfOneMore DEF Contents
    <3> QED  BY <1>2, <2>1, <2>6, <3>8, <3>9
  <2> QED  BY <2>8, <2>9
<1>3. Seq(TokenSet) \subseteq Good
  <2> HIDE DEF Good
  <2> QED  BY <1>1, <1>2, ListsByInduction
<1> QED  BY <1>3

(* What the document says of a field, in terms of the tokens read for it.    *)
LEMMA DocumentValueIs ==
  ASSUME read \in Seq(TokenSet), NamesTold, NEW i, NEW f, f = fields[i]
  PROVE  DocumentValue(i) =
           IF f.kind = "text" THEN <<Decode(f.type, ZeroOf(f.type), TextRead)>>
           ELSE IF IsSlice(f) THEN Items(f, TokensFor(i))
           ELSE IF TokensFor(i) # << >> THEN <<Gathered(f, TokensFor(i))>>
           ELSE IF HasDefault(f) /\ ~f.nillable
           THEN <<Decode(f.type, ZeroOf(f.type), DefaultText(f))>>
           ELSE ZeroField(f)
<1>1. TokensOf(i) = TokensFor(i)
  BY TokensToldApart
<1>2. TextRead = FlattenSeq([k \in DOMAIN Texts |-> Texts[k].value])
  <2>1. TextRead = FlattenSeq(TextParts(read))
    BY DEF TextRead, TextParts
  <2>2. FlattenSeq([k \in DOMAIN Texts |-> Texts[k].value]) = FlattenSeq(KeptTexts(read))
    BY DEF Texts, KeptTexts, Kept
  <2> QED  BY <2>1, <2>2, TextsFlatten
<1> QED  BY <1>1, <1>2 DEF DocumentValue, Items

LEMMA DecodedIsDocument ==
  ASSUME CodecInv, NamesTold, DefaultsAgree, ~HasContent, NEW i \in DOMAIN fields,
         NeedsPresenceTracking(fields[i]) => TokensFor(i) # << >>
  PROVE  Decoded(i) = DocumentValue(i)
<1> PICK f : f = fields[i]
  OBVIOUS
<1>1. f \in Field /\ FieldAllowed(f) /\ read \in Seq(TokenSet)
  BY FieldsOfType DEF CodecInv, CodecBasics
<1>2. CASE f.kind = "text"
  BY <1>1, <1>2, DocumentValueIs DEF Decoded
<1>3. CASE f.kind # "text" /\ shape = "tracked" /\ AssignsDefault(f) /\ TokensFor(i) = << >>
  <2>1. Decoded(i) = <<DefaultValue(f)>>
    BY <1>3 DEF Decoded
  <2>2. ~IsSlice(f) /\ ~f.nillable /\ HasDefault(f)
    BY <1>3, DefaultIsValue DEF AppliesDefault
  <2>3. DefaultValue(f) = Decode(f.type, ZeroOf(f.type), DefaultText(f))
    BY <1>3 DEF DefaultsAgree
  <2> QED  BY <1>1, <1>3, <2>1, <2>2, <2>3, DocumentValueIs
<1>4. CASE f.kind # "text" /\ ~(shape = "tracked" /\ AssignsDefault(f) /\ TokensFor(i) = << >>)
  <2>1. Decoded(i) = Collect(f, ZeroField(f), TokensFor(i))
    BY <1>4 DEF Decoded
  <2>2. ~IsSlice(f) /\ HasDefault(f) /\ ~f.nillable => TokensFor(i) # << >>
    <3> SUFFICES ASSUME ~IsSlice(f), HasDefault(f), ~f.nillable PROVE TokensFor(i) # << >>
      OBVIOUS
    <3>1. AppliesDefault(f)
      BY <1>1, <1>4 DEF HasDefault, DefaultText, AppliesDefault, FieldAllowed, IsSlice
    <3>2. shape = "tracked"
      BY <3>1 DEF shape, Shape, fields, HasContent
    <3>3. ~NeedsPresenceTracking(f) => AssignsDefault(f)
      BY <3>1 DEF AppliesDefault, AssignsDefault
    <3> QED  BY <1>4, <3>2, <3>3
  <2> QED  BY <1>1, <1>4, <2>1, <2>2, DocumentValueIs DEF Collect
<1> QED  BY <1>2, <1>3, <1>4

LEMMA InvIsTyped == CodecInv => CodecTypeOK
<1> SUFFICES ASSUME CodecInv PROVE CodecTypeOK
  OBVIOUS
<1> USE DEF CodecInv
<1>1. ASSUME ~HasContent, NEW i \in DOMAIN fields
      PROVE  FieldValueOK(fields[i], target[i])
  <2> PICK f, value : f = fields[i] /\ value = target[i]
    OBVIOUS
  <2>1. IsFieldValue(f, value) /\ f \in Field
    BY <1>1, FieldsOfType DEF CodecBasics, StructHeld, IsStruct
  <2>2. \A k \in DOMAIN value : value[k] \in Held(f)
    BY <2>1, LenProperties, ElementOfSeq DEF IsFieldValue
  <2>3. \A k \in DOMAIN value :
          IF f.kind \in {"any", "anyAttribute"} THEN value[k].name \in {NoName} \cup Names
          ELSE value[k] \in Values \/ (f.nillable /\ value[k] = Nil)
    <3> TAKE k \in DOMAIN value
    <3>1. CASE f.kind = "any"
      <4>1. value[k] \in Caught
        BY <2>2, <3>1 DEF Held
      <4> QED  BY <3>1, <4>1 DEF Caught
    <3>2. CASE f.kind = "anyAttribute"
      <4>1. value[k] \in [name : Names, value : Contents]
        BY <2>2, <3>2 DEF Held
      <4> QED  BY <3>2, <4>1
    <3>3. CASE f.kind \in {"element", "attribute", "text"}
      BY <2>2, <3>3 DEF Held
    <3> QED  BY <2>1, <3>1, <3>2, <3>3, FieldParts
  <2> QED  BY <2>1, <2>3 DEF FieldValueOK, IsFieldValue
<1>2. ASSUME HasContent, NEW i \in DOMAIN target
      PROVE  \/ target[i].kind = "text" /\ shape = "mixed"
             \/ target[i].kind = "child" /\ Named("element", target[i].name) # {}
  <2> PICK e : e = target[i]
    OBVIOUS
  <2>1. e \in Entries /\ type \in Types
    BY <1>2, LenProperties, ElementOfSeq DEF ContentHeld, CodecBasics
  <2>2. CASE e.kind = "text"
    BY <2>1, <2>2, EntryIsText
  <2>3. CASE e.kind # "text"
    <3>1. e.kind = "child" /\ FieldFor(e) \in DOMAIN fields
      BY <2>1, <2>3, EntryIsChild
    <3>2. FieldFor(e) = First(Named("element", e.name)) /\ FieldFor(e) # 0
      BY <1>2, <2>1, <3>1, FieldsOfType DEF FieldFor
    <3> QED  BY <3>1, <3>2 DEF First
  <2> QED  BY <2>2, <2>3
<1> QED  BY <1>1, <1>2 DEF CodecTypeOK, CodecBasics

LEMMA InvHoldsTheDocument == CodecInv => FieldsHoldTheDocument
<1> SUFFICES ASSUME CodecInv, phase = "done", ~HasContent, StartsAfresh, NamesTold, DefaultsAgree,
                    NEW i \in DOMAIN fields
             PROVE  target[i] = DocumentValue(i)
  BY InvIsTyped DEF FieldsHoldTheDocument
<1>1. target[i] = Decoded(i) /\ (NeedsPresenceTracking(fields[i]) => TokensFor(i) # << >>)
  BY DEF CodecInv, StructDecoded
<1> QED  BY <1>1, DecodedIsDocument

(* A struct holds the document: for every type that compiles, whatever the    *)
(* types of its fields read and write, every document and every sequence of   *)
(* calls, each field holds what the document says of it, its default, or      *)
(* nothing -- where the tags tell the names of that document apart and the    *)
(* literals of the defaults are what their texts are decoded as; the property *)
(* says which tags and defaults do not.                                        *)
THEOREM DocumentIsHeld == CodecSpec => []FieldsHoldTheDocument
<1> QED  BY CodecInitInv, CodecNextInv, InvHoldsTheDocument, PTL DEF CodecSpec
-----------------------------------------------------------------------------
(* The order of content.  What was kept of the tokens read, as entries; and  *)
(* what Content is made of all the entries.                                   *)
Unreadable(tok) ==
  /\ FieldFor(tok) # 0
  /\ Parsed(fields[FieldFor(tok)], ZeroItem(fields[FieldFor(tok)]), tok) = Bad
KnownToken(tok) == IsText(tok) \/ (FieldFor(tok) # 0 /\ ~Unreadable(tok))
KnownRead == AtPlaces(read, {k \in DOMAIN read : KnownToken(read[k])})
EntriesRead == [i \in DOMAIN KnownRead |-> EntryOf(KnownRead[i])]

ContentOf(all) == IF shape = "mixed" \/ Repeated(fields[1]) THEN all
                  ELSE IF all = << >> THEN << >> ELSE <<Last(all)>>

(* The content is what the document says, and nothing that it was made of   *)
(* was unreadable.                                                           *)
ContentInv ==
  HasContent =>
    /\ phase # "idle" => before \in Seq(Entries) /\ target = ContentOf(before \o EntriesRead)
    /\ ContentOf(target) = target
    /\ phase \in {"reading", "done"} => \A k \in DOMAIN read : ~Unreadable(read[k])

LEMMA ContentInvOrders == ContentInv => ContentInOrder
<1> SUFFICES ASSUME ContentInv, HasContent, phase # "idle" PROVE ContentInOrder
  BY DEF ContentInOrder
<1>1. \A tok : Fails(tok) <=> Unreadable(tok)
  BY ContentFails DEF Unreadable
<1>2. KnownRead = AtPlaces(read, {k \in DOMAIN read :
                     IsText(read[k]) \/ (FieldFor(read[k]) # 0 /\ ~Fails(read[k]))})
  <2>1. {k \in DOMAIN read : KnownToken(read[k])} =
          {k \in DOMAIN read : IsText(read[k]) \/ (FieldFor(read[k]) # 0 /\ ~Fails(read[k]))}
    BY <1>1 DEF KnownToken
  <2> QED  BY <2>1 DEF KnownRead
<1>3. target = ContentOf(before \o EntriesRead)
  BY DEF ContentInv
<1> QED  BY <1>2, <1>3 DEF ContentInOrder, ContentOf, EntriesRead

LEMMA SameContent ==
  ASSUME UNCHANGED <<type, validating>>
  PROVE  /\ \A all : ContentOf(all)' = ContentOf(all)
         /\ \A tok : KnownToken(tok)' = KnownToken(tok)
         /\ \A tok : Unreadable(tok)' = Unreadable(tok)
         /\ \A tok : EntryOf(tok)' = EntryOf(tok)
<1>1. \A all : ContentOf(all)' = ContentOf(all)
  BY SameType DEF ContentOf
<1>2. \A tok : Unreadable(tok)' = Unreadable(tok)
  BY SameType DEF Unreadable
<1>3. \A tok : KnownToken(tok)' = KnownToken(tok)
  BY SameType, <1>2 DEF KnownToken
<1>4. \A tok : EntryOf(tok)' = EntryOf(tok)
  BY SameType DEF EntryOf
<1> QED  BY <1>1, <1>2, <1>3, <1>4

EntryImages == Entries \cup {EntryOf(tok) : tok \in TokenSet}

LEMMA EntriesReadType ==
  ASSUME read \in Seq(TokenSet)
  PROVE  /\ KnownRead \in Seq(TokenSet)
         /\ EntriesRead \in Seq(EntryImages)
         /\ Len(EntriesRead) = Len(KnownRead)
<1>1. KnownRead \in Seq(TokenSet)
  BY SelectionType DEF KnownRead
<1> PICK tokens : tokens = KnownRead
  OBVIOUS
<1>2. Len(tokens) \in Nat /\ DOMAIN tokens = 1 .. Len(tokens)
      /\ \A k \in 1 .. Len(tokens) : tokens[k] \in TokenSet
  BY <1>1, LenProperties
<1>3. \A k \in 1 .. Len(tokens) : EntryOf(tokens[k]) \in EntryImages
  BY <1>2 DEF EntryImages
<1>4. EntriesRead = [k \in 1 .. Len(tokens) |-> EntryOf(tokens[k])]
  BY <1>2 DEF EntriesRead
<1> QED  BY <1>1, <1>2, <1>3, <1>4

LEMMA OneMoreEntry ==
  ASSUME read \in Seq(TokenSet), NEW tok \in TokenSet, read' = Append(read, tok),
         UNCHANGED <<type, validating>>
  PROVE  EntriesRead' = IF KnownToken(tok) THEN Append(EntriesRead, EntryOf(tok)) ELSE EntriesRead
<1> PICK r, s : r = read /\ s = read'
  OBVIOUS
<1> DEFINE old == {k \in DOMAIN r : KnownToken(r[k])}
           new == {k \in DOMAIN s : KnownToken(s[k])}
<1>1. /\ s \in Seq(TokenSet) /\ Len(s) = Len(r) + 1 /\ Len(r) \in Nat
      /\ DOMAIN r = 1 .. Len(r) /\ DOMAIN s = 1 .. Len(r) + 1
      /\ \A k \in 1 .. Len(r) : s[k] = r[k]
      /\ s[Len(r) + 1] = tok
  BY AppendProperties, LenProperties
<1>2. KnownRead = AtPlaces(r, old)
  BY DEF KnownRead
<1>3. KnownRead' = AtPlaces(s, new)
  BY SameContent DEF KnownRead
<1>4. /\ \A k \in 1 .. Len(r) : k \in new <=> k \in old
      /\ Len(r) + 1 \in new <=> KnownToken(tok)
  BY <1>1
<1>5. KnownRead' = IF KnownToken(tok) THEN Append(KnownRead, tok) ELSE KnownRead
  <2>1. r \in Seq(TokenSet) /\ s = Append(r, tok)
    OBVIOUS
  <2> HIDE DEF old, new
  <2>2. AtPlaces(Append(r, tok), new) =
          IF Len(r) + 1 \in new THEN Append(AtPlaces(r, old), tok) ELSE AtPlaces(r, old)
    BY <1>4, <2>1, SelectionOfOneMore
  <2> QED  BY <1>2, <1>3, <1>4, <2>1, <2>2
<1> PICK ts, us : ts = KnownRead /\ us = KnownRead'
  OBVIOUS
<1>6. ts \in Seq(TokenSet) /\ Len(ts) \in Nat /\ DOMAIN ts = 1 .. Len(ts)
  BY EntriesReadType, LenProperties
<1>7. EntriesRead = [k \in 1 .. Len(ts) |-> EntryOf(ts[k])]
  BY <1>6 DEF EntriesRead
<1>8. EntriesRead' = [k \in DOMAIN us |-> EntryOf(us[k])]
  BY SameContent DEF EntriesRead
<1>9. CASE ~KnownToken(tok)
  BY <1>5, <1>6, <1>7, <1>8, <1>9
<1>10. CASE KnownToken(tok)
  <2>1. us = Append(ts, tok)
    BY <1>5, <1>10
  <2>2. /\ DOMAIN us = 1 .. Len(ts) + 1
        /\ \A k \in 1 .. Len(ts) : us[k] = ts[k]
        /\ us[Len(ts) + 1] = tok
    BY <1>6, <2>1, AppendProperties, LenProperties
  <2>3. EntriesRead' = [k \in 1 .. Len(ts) + 1 |->
          IF k = Len(ts) + 1 THEN EntryOf(tok) ELSE EntryOf(ts[k])]
    BY <1>6, <1>8, <2>2
  <2>4. EntriesRead' = Append(EntriesRead, EntryOf(tok))
    BY <1>6, <1>7, <2>3
  <2> QED  BY <1>10, <2>4
<1> QED  BY <1>9, <1>10

LEMMA LastOfOneMore ==
  ASSUME NEW S, NEW s \in Seq(S), NEW e \in S
  PROVE  Append(s, e) # << >> /\ Last(Append(s, e)) = e
BY AppendProperties DEF Last

LEMMA BeginContent ==
  ASSUME CodecInv, NEW t, Begin(t), HasContent => t \in Seq(Entries) /\ ContentOf(t) = t
  PROVE  ContentInv'
<1>1. UNCHANGED <<type, validating>> /\ read' = << >> /\ target' = t /\ before' = t
  BY DEF Begin
<1> SUFFICES ASSUME HasContent
             PROVE  /\ before' \in Seq(Entries)' /\ target' = ContentOf(before \o EntriesRead)'
                    /\ ContentOf(target)' = target'
  <2>1. (\A k \in DOMAIN read : ~Unreadable(read[k]))'
    <3>1. DOMAIN read' = {}
      BY <1>1
    <3> QED  BY <3>1
  <2> QED  BY <1>1, <2>1, SameType DEF ContentInv
<1>2. EntriesRead' = << >>
  <2>1. KnownRead' = << >>
    BY <1>1, SelectionOfNone DEF KnownRead
  <2> QED  BY <2>1 DEF EntriesRead
<1>3. (before \o EntriesRead)' = t
  BY <1>1, <1>2, ConcatEmptySeq
<1>4. ContentOf(before \o EntriesRead)' = ContentOf(t)
  BY <1>1, <1>3, SameType DEF ContentOf
<1>5. ContentOf(target)' = ContentOf(t)
  BY <1>1, SameType DEF ContentOf
<1> QED  BY <1>1, <1>4, <1>5, SameStructs

(* One more token: none of those read is unreadable if it is not.            *)
LEMMA ReadableOneMore ==
  ASSUME read \in Seq(TokenSet), NEW tok \in TokenSet, read' = Append(read, tok),
         UNCHANGED <<type, validating>>,
         \A k \in DOMAIN read : ~Unreadable(read[k]), ~Unreadable(tok)
  PROVE  (\A k \in DOMAIN read : ~Unreadable(read[k]))'
<1>1. /\ DOMAIN read = 1 .. Len(read) /\ DOMAIN read' = 1 .. Len(read) + 1 /\ Len(read) \in Nat
      /\ \A k \in 1 .. Len(read) : read'[k] = read[k]
      /\ read'[Len(read) + 1] = tok
  BY AppendProperties, LenProperties
<1>2. \A k \in DOMAIN read' : ~Unreadable(read'[k])
  BY <1>1
<1> QED  BY <1>2, SameContent

LEMMA ContentInvNext ==
  ASSUME CodecInv, ContentInv, [CodecNext]_codecVars
  PROVE  ContentInv'
<1>0. HasContent => target \in Seq(Entries) /\ ContentOf(target) = target
  BY DEF CodecInv, ContentHeld, ContentInv
<1>1. CASE Decoding
  BY <1>0, <1>1, BeginContent DEF Decoding
<1>2. CASE Reread
  <2>1. HasContent => ZeroValue = << >>
    BY DEF ZeroValue
  <2>2. HasContent => ZeroValue \in Seq(Entries) /\ ContentOf(ZeroValue) = ZeroValue
    BY <2>1, EmptySeq DEF ContentOf
  <2>3. Begin(ZeroValue)
    BY <1>2 DEF Reread
  <2> QED  BY <2>2, <2>3, BeginContent
<1>3. CASE ReadContent
  <2>1. PICK tok \in Offered :
          /\ HasContent /\ (FieldFor(tok) # 0 \/ IsText(tok)) /\ ~Fails(tok)
          /\ ReadToken(tok) /\ UNCHANGED <<phase, local>>
          /\ target' = IF shape = "choice" /\ ~Repeated(fields[1]) THEN <<EntryOf(tok)>>
                       ELSE Append(target, EntryOf(tok))
    BY <1>3 DEF ReadContent
  <2>2. UNCHANGED <<type, validating, before>> /\ phase = "reading" /\ read' = Append(read, tok)
    BY <2>1 DEF ReadToken
  <2>3. tok \in TokenSet /\ read \in Seq(TokenSet) /\ KnownToken(tok) /\ ~Unreadable(tok)
    BY <2>1, OfferedType, ContentFails DEF CodecInv, CodecBasics, KnownToken, Unreadable
  <2>4. EntriesRead' = Append(EntriesRead, EntryOf(tok))
    BY <2>2, <2>3, OneMoreEntry
  <2> PICK b, es, e, more : b = before /\ es = EntriesRead /\ e = EntryOf(tok) /\ more = before \o EntriesRead'
    OBVIOUS
  <2>5. b \in Seq(EntryImages) /\ es \in Seq(EntryImages) /\ e \in EntryImages
    <3>1. Entries \subseteq EntryImages /\ e \in EntryImages
      BY <2>3 DEF EntryImages
    <3>2. b \in Seq(Entries)
      BY <2>1, <2>2 DEF ContentInv
    <3> QED  BY <2>3, <3>1, <3>2, SeqMonotonic, EntriesReadType
  <2>6. more = Append(b \o es, e)
    BY <2>4, <2>5, ConcatOneMore
  <2>7. more # << >> /\ Last(more) = e
    <3>1. b \o es \in Seq(EntryImages)
      BY <2>5, ConcatProperties
    <3> QED  BY <2>5, <2>6, <3>1, LastOfOneMore
  <2>8. shape = "mixed" \/ shape = "choice"
    BY <2>1 DEF HasContent
  <2>9. target' = ContentOf(more)
    <3>1. CASE shape = "mixed" \/ Repeated(fields[1])
      <4>1. target = b \o es
        BY <2>1, <2>2, <3>1 DEF ContentInv, ContentOf
      <4> QED  BY <2>1, <2>6, <3>1, <4>1 DEF ContentOf
    <3>2. CASE ~(shape = "mixed" \/ Repeated(fields[1]))
      BY <2>1, <2>7, <2>8, <3>2 DEF ContentOf
    <3> QED  BY <3>1, <3>2
  <2>10. ContentOf(target') = target'
    BY <2>9 DEF ContentOf, Last
  <2>11. /\ ContentOf(before \o EntriesRead)' = ContentOf(more)
         /\ ContentOf(target)' = ContentOf(target')
    BY <2>2, SameType DEF ContentOf
  <2>12. before' \in Seq(Entries)'
    BY <2>1, <2>2, SameStructs DEF ContentInv
  <2>13. (\A k \in DOMAIN read : ~Unreadable(read[k]))'
    BY <2>1, <2>2, <2>3, ReadableOneMore DEF ContentInv
  <2> QED  BY <2>9, <2>10, <2>11, <2>12, <2>13 DEF ContentInv
<1>4. ASSUME NEW tok \in Offered, ReadToken(tok), HasContent => UNCHANGED target, ~KnownToken(tok),
             phase' = "failed" \/ FieldFor(tok) = 0
      PROVE  ContentInv'
  <2> SUFFICES ASSUME HasContent PROVE ContentInv'
    BY <1>4, SameType DEF ContentInv, ReadToken
  <2>1. UNCHANGED <<type, validating, before>> /\ phase = "reading" /\ read' = Append(read, tok)
    BY <1>4 DEF ReadToken
  <2>2. tok \in TokenSet /\ read \in Seq(TokenSet)
    BY OfferedType DEF CodecInv, CodecBasics
  <2>3. EntriesRead' = EntriesRead
    BY <1>4, <2>1, <2>2, OneMoreEntry
  <2>4. /\ ContentOf(before \o EntriesRead)' = ContentOf(before \o EntriesRead)
        /\ ContentOf(target)' = ContentOf(target)
    BY <1>4, <2>1, <2>3, SameType DEF ContentOf
  <2>5. phase' # "failed" => (\A k \in DOMAIN read : ~Unreadable(read[k]))'
    <3>1. FieldFor(tok) = 0 => ~Unreadable(tok)
      BY DEF Unreadable
    <3> QED  BY <1>4, <2>1, <2>2, <3>1, ReadableOneMore DEF ContentInv
  <2> QED  BY <1>4, <2>1, <2>4, <2>5, SameType, SameStructs DEF ContentInv
<1>5. CASE Skip
  <2>1. PICK tok \in Offered : FieldFor(tok) = 0 /\ ~IsText(tok) /\ ReadToken(tok) /\ UNCHANGED target
    BY <1>5 DEF Skip
  <2> QED  BY <1>4, <2>1 DEF KnownToken
<1>6. CASE ReadBad
  <2>1. PICK tok \in Offered : Fails(tok) /\ ReadToken(tok) /\ phase' = "failed" /\ LeftBy({FieldFor(tok)})
    BY <1>6 DEF ReadBad
  <2>2. ~IsText(tok)
    BY <2>1 DEF Fails, FieldFor, IsText
  <2>3. HasContent => Unreadable(tok) /\ target' = target
    BY <2>1, ContentFails DEF Unreadable, LeftBy, HasContent
  <2>4. CASE HasContent
    BY <1>4, <2>1, <2>2, <2>3, <2>4 DEF KnownToken
  <2>5. CASE ~HasContent
    BY <2>1, <2>5, SameType DEF ContentInv, ReadToken
  <2> QED  BY <2>4, <2>5
<1>7. CASE ReadKnown \/ ReadEndPlain \/ ReadEndAlias \/ ReadEndTracked \/ ReadEndBad
  <2>1. UNCHANGED <<type, validating>>
    BY <1>7 DEF ReadKnown, ReadToken, ReadEndPlain, ReadEndAlias, ReadEndTracked, ReadEndBad, AtEnd
  <2>2. ~HasContent
    BY <1>7 DEF ReadKnown, ReadEndPlain, ReadEndAlias, ReadEndTracked, ReadEndBad, HasContent
  <2> QED  BY <2>1, <2>2, SameType DEF ContentInv
<1>8. CASE ReadEnd \/ UNCHANGED codecVars
  <2>1. /\ UNCHANGED <<type, validating, target, before, read>> /\ (phase = "idle" => phase' = "idle")
        /\ phase' \in {"reading", "done"} => phase \in {"reading", "done"}
    BY <1>8 DEF ReadEnd, FinishDecoding, AtEnd, codecVars
  <2>2. KnownRead' = KnownRead
    BY <2>1, SameContent DEF KnownRead
  <2>3. EntriesRead' = EntriesRead
    BY <2>1, <2>2, SameContent DEF EntriesRead
  <2>4. /\ ContentOf(before \o EntriesRead)' = ContentOf(before \o EntriesRead)
        /\ ContentOf(target)' = ContentOf(target)
    BY <2>1, <2>3, SameType DEF ContentOf
  <2> QED  BY <2>1, <2>4, SameType, SameStructs, SameContent DEF ContentInv
<1> QED  BY <1>1, <1>2, <1>3, <1>5, <1>6, <1>7, <1>8 DEF CodecNext

LEMMA ContentInvInit == CodecInit => ContentInv
<1> SUFFICES ASSUME CodecInit, HasContent
             PROVE  phase = "idle" /\ ContentOf(target) = target
  BY DEF ContentInv
<1>1. target = << >> /\ phase = "idle"
  BY DEF CodecInit, ZeroValue
<1> QED  BY <1>1 DEF ContentOf

(* Mixed and choice types keep the order of the document, whatever they held  *)
(* before and wherever the decoding stopped.                                   *)
THEOREM OrderIsKept == CodecSpec => []ContentInOrder
<1>1. CodecInit => CodecInv /\ ContentInv
  BY CodecInitInv, ContentInvInit
<1>2. CodecInv /\ ContentInv /\ [CodecNext]_codecVars => (CodecInv /\ ContentInv)'
  BY CodecNextInv, ContentInvNext
<1> QED  BY <1>1, <1>2, ContentInvOrders, PTL DEF CodecSpec
-----------------------------------------------------------------------------
(* Acceptance.  What validation asks of the value of a field, as             *)
(* StructAccepts has it.                                                      *)
Conforms(i, value) ==
  LET f == fields[i] IN
  /\ IsSlice(f) /\ f.kind # "anyAttribute" => Between(f, Count(i))
  /\ f.kind \in {"any", "anyAttribute"} => \A k \in DOMAIN value :
       /\ WildcardNamespaceAllowed(f.namespaces, value[k].name.space)
       /\ f.process = "strict" => value[k].name \in DeclaredNames
  /\ f.kind \notin {"any", "anyAttribute"} /\ ~f.nillable =>
       /\ \A k \in DOMAIN value :
            /\ value[k] \in ValidValues(f.type)
            /\ f.fixed # << >> => Sprint(f.type, value[k]) = f.fixed
       /\ value # << >> \/ IsSlice(f) \/ ~HasValidate(f.type)
  /\ f.nillable /\ f.fixed # << >> => value = << >>

LEMMA AcceptsIfConforms ==
  ASSUME NEW i
  PROVE  StructAccepts(i) <=> /\ Demanded(fields[i]) => Count(i) > 0
                              /\ validating => Conforms(i, DocumentValue(i))
BY DEF StructAccepts, Conforms

LEMMA CountsAgree ==
  ASSUME NEW f \in Field, Repeated(f), NEW n \in Nat
  PROVE  CountAllowed(f, n) <=> Between(f, n)
<1>1. f.min \in Nat /\ f.max \in Nat \cup {Unbounded}
  BY DEF Field
<1>2. f.max = Unbounded \/ f.max > 1
  BY DEF Repeated
<1> QED  BY <1>1, <1>2 DEF CountAllowed, Between

(* What is demanded is what is tracked.                                       *)
LEMMA DemandedIsTracked ==
  ASSUME NEW f \in Field, FieldAllowed(f)
  PROVE  Demanded(f) <=> NeedsPresenceTracking(f)
<1>1. /\ f.min \in Nat /\ f.max \in Nat \cup {Unbounded}
      /\ f.kind \in {"element", "attribute", "text", "any", "anyAttribute"}
      /\ f.choice \in BOOLEAN /\ f.required \in BOOLEAN /\ f.nillable \in BOOLEAN
  BY DEF Field
<1>2. /\ f.max = Unbounded \/ f.min <= f.max
      /\ f.kind \in {"attribute", "text"} => f.max = 1
      /\ f.nillable => f.kind = "element"
      /\ Unbounded # 1 /\ Unbounded \notin Nat
  BY TypesAssumption DEF FieldAllowed
<1>3. CASE f.kind = "attribute"
  BY <1>1, <1>2, <1>3 DEF Demanded, NeedsPresenceTracking, Required, Repeated, IsPointer, Optional
<1>4. CASE f.kind = "element"
  <2>1. Required(f) <=> f.min > 0 /\ ~f.choice
    BY <1>4 DEF Required
  <2>2. IsPointer(f) <=> (f.min = 0 \/ f.choice) /\ ~Repeated(f)
    BY <1>4 DEF IsPointer, Optional
  <2>3. f.min > 0 => (~Repeated(f) <=> f.max = 1)
    BY <1>1, <1>2, <1>4 DEF Repeated
  <2> QED  BY <1>1, <1>4, <2>1, <2>2, <2>3 DEF Demanded, NeedsPresenceTracking
<1>5. CASE f.kind \notin {"element", "attribute"}
  BY <1>5 DEF Demanded, NeedsPresenceTracking
<1> QED  BY <1>3, <1>4, <1>5

(* A slice has an item for each token.                                       *)
LEMMA SliceCounts ==
  ASSUME type \in Types, read \in Seq(TokenSet), NEW i \in DOMAIN fields, IsSlice(fields[i])
  PROVE  Len(DocumentValue(i)) = Count(i) /\ Count(i) \in Nat
<1> PICK tokens, f : tokens = TokensOf(i) /\ f = fields[i]
  OBVIOUS
<1>1. f.kind # "text"
  BY FieldsOfType, TypesAssumption DEF FieldAllowed, IsSlice, Repeated
<1>2. tokens \in Seq(TokenSet)
  BY SelectionType DEF TokensOf
<1>3. Len(tokens) \in Nat /\ DOMAIN tokens = 1 .. Len(tokens)
  BY <1>2, LenProperties
<1>4. DocumentValue(i) = [k \in 1 .. Len(tokens) |-> Parsed(f, ZeroItem(f), tokens[k])]
  BY <1>1, <1>3 DEF DocumentValue
<1>5. Len([k \in 1 .. Len(tokens) |-> Parsed(f, ZeroItem(f), tokens[k])]) = Len(tokens)
  BY <1>3
<1> QED  BY <1>3, <1>4, <1>5 DEF Count

LEMMA ValidIfConforms ==
  ASSUME type \in Types, read \in Seq(TokenSet), NEW i \in DOMAIN fields,
         NEW value, value = DocumentValue(i), IsFieldValue(fields[i], value)
  PROVE  FieldValid(fields[i], value) <=> Conforms(i, value)
<1> PICK f, n : f = fields[i] /\ n = Count(i)
  OBVIOUS
<1>1. f \in Field /\ FieldAllowed(f)
  BY FieldsOfType
<1>2. /\ f.kind \in {"element", "attribute", "text", "any", "anyAttribute"}
      /\ f.nillable \in BOOLEAN /\ HasValidate(f.type) \in BOOLEAN
      /\ f.nillable => f.kind = "element"
      /\ f.kind = "text" => f.fixed = << >>
  BY <1>1, FieldParts, ValuesAssumption DEF FieldAllowed
<1>3. Repeated(f) <=> IsSlice(f) /\ f.kind # "anyAttribute"
  BY DEF Repeated, IsSlice
<1>4. Repeated(f) => (CountAllowed(f, Len(value)) <=> Between(f, n))
  BY <1>1, <1>3, SliceCounts, CountsAgree
<1>5. value \in Seq(Held(f)) /\ (IsSlice(f) \/ Len(value) = 1 \/ (IsPointer(f) /\ value = << >>))
  BY DEF IsFieldValue
<1>6. /\ value = << >> <=> DOMAIN value = {}
      /\ Len(value) = 1 => value # << >>
  BY <1>5, EmptySeq, LenProperties
<1>7. CASE f.kind \in {"any", "anyAttribute"}
  <2>1. ~f.nillable
    BY <1>2, <1>7
  <2> QED  BY <1>3, <1>4, <1>7, <2>1 DEF FieldValid, Conforms, ProcessContentsAllowed
<1>8. CASE f.kind \in {"element", "attribute", "text"} /\ f.nillable
  <2>1. f.kind = "element"
    BY <1>2, <1>8
  <2>2. FixedHeld(f, value) <=> (f.fixed # << >> => value = << >>)
    BY <1>6, <1>8 DEF FixedHeld
  <2>3. ItemsValid(f, value)
    BY <1>8 DEF ItemsValid
  <2> QED  BY <1>3, <1>4, <1>8, <2>1, <2>2, <2>3 DEF FieldValid, Conforms
<1>9. CASE f.kind \in {"element", "attribute", "text"} /\ ~f.nillable
  <2>1. FieldValid(f, value) <=>
          /\ Repeated(f) => CountAllowed(f, Len(value))
          /\ f.kind \in {"element", "attribute"} => FixedHeld(f, value)
          /\ ItemsValid(f, value)
    BY <1>9 DEF FieldValid
  <2>2. FixedHeld(f, value) <=>
          (f.fixed # << >> => \A k \in DOMAIN value : Sprint(f.type, value[k]) = f.fixed)
    BY <1>9 DEF FixedHeld
  <2>3. (f.kind \in {"element", "attribute"} => FixedHeld(f, value)) <=>
          \A k \in DOMAIN value : f.fixed # << >> => Sprint(f.type, value[k]) = f.fixed
    BY <1>2, <1>9, <2>2
  <2>4. IsPointer(f) => ~IsSlice(f)
    BY <1>3, <1>9 DEF IsPointer
  <2>5. (IsPointer(f) /\ HasValidate(f.type) => value # << >>) <=>
          (value # << >> \/ IsSlice(f) \/ ~HasValidate(f.type))
    BY <1>2, <1>5, <1>6, <2>4
  <2>6. ItemsValid(f, value) <=>
          /\ \A k \in DOMAIN value : value[k] \in ValidValues(f.type)
          /\ value # << >> \/ IsSlice(f) \/ ~HasValidate(f.type)
    BY <1>9, <2>5 DEF ItemsValid
  <2>7. Conforms(i, value) <=>
          /\ Repeated(f) => Between(f, n)
          /\ \A k \in DOMAIN value :
               /\ value[k] \in ValidValues(f.type)
               /\ f.fixed # << >> => Sprint(f.type, value[k]) = f.fixed
          /\ value # << >> \/ IsSlice(f) \/ ~HasValidate(f.type)
    BY <1>3, <1>9 DEF Conforms
  <2> QED  BY <1>4, <2>1, <2>3, <2>6, <2>7
<1> QED  BY <1>2, <1>7, <1>8, <1>9

-----------------------------------------------------------------------------
(* The verdict on what was read does not change with the value.              *)
LEMMA SameVerdict ==
  ASSUME UNCHANGED <<type, validating, read, before>>
  PROVE  /\ Acceptable' = Acceptable /\ StartsAfresh' = StartsAfresh /\ TagsConflict' = TagsConflict
         /\ NamesTold' = NamesTold /\ DefaultsAgree' = DefaultsAgree
<1>1. \A i : TokensOf(i)' = TokensOf(i)
  BY SameType DEF TokensOf
<1>2. \A i : Count(i)' = Count(i)
  BY <1>1 DEF Count
<1>3. Texts' = Texts
  BY DEF Texts
<1>4. \A i : DocumentValue(i)' = DocumentValue(i)
  BY <1>1, <1>3, SameType DEF DocumentValue
<1>5. \A i : StructAccepts(i)' = StructAccepts(i)
  BY <1>2, <1>4, SameType DEF StructAccepts
<1>6. \A i : Readable(i)' = Readable(i)
  BY <1>4 DEF Readable
<1>7. KnownChildren' = KnownChildren
  <2>1. {k \in DOMAIN read : FieldNamed(read[k]) # 0}' = {k \in DOMAIN read : FieldNamed(read[k]) # 0}
    BY SameType
  <2> QED  BY <2>1 DEF KnownChildren
<1>8. Acceptable' = Acceptable
  BY <1>5, <1>6, <1>7, SameType DEF Acceptable
<1>9. StartsAfresh' = StartsAfresh /\ TagsConflict' = TagsConflict
  BY SameType DEF StartsAfresh
<1>10. NamesTold' = NamesTold
  BY SameType DEF NamesTold
<1>11. DefaultsAgree' = DefaultsAgree
  BY SameType DEF DefaultsAgree
<1> QED  BY <1>8, <1>9, <1>10, <1>11

LEMMA NotBadIsReadable ==
  ASSUME type \in Types, NEW i \in DOMAIN fields, IsFieldValue(fields[i], DocumentValue(i))
  PROVE  Readable(i)
<1> PICK f, value : f = fields[i] /\ value = DocumentValue(i)
  OBVIOUS
<1>1. value \in Seq(Held(f)) /\ f \in Field
  BY FieldsOfType DEF IsFieldValue
<1>2. \A k \in DOMAIN value : value[k] \in Held(f)
  BY <1>1, LenProperties, ElementOfSeq
<1> QED  BY <1>1, <1>2, HeldIsNotBad DEF Readable

LEMMA CountIsLength ==
  ASSUME NamesTold, read \in Seq(TokenSet), NEW i
  PROVE  Count(i) > 0 <=> TokensFor(i) # << >>
<1>1. TokensFor(i) \in Seq(TokenSet) /\ Count(i) = Len(TokensFor(i))
  BY TokensForType, TokensToldApart DEF Count
<1> QED  BY <1>1, EmptySeq, LenProperties

(* A struct that holds what was read is valid exactly if the document is.    *)
LEMMA ValidIfAccepted ==
  ASSUME CodecInv, ~HasContent, NamesTold, DefaultsAgree, NEW value,
         \A i \in DOMAIN fields :
           /\ IsFieldValue(fields[i], value[i]) /\ value[i] = Decoded(i)
           /\ NeedsPresenceTracking(fields[i]) => TokensFor(i) # << >>
  PROVE  Acceptable <=> (validating => Valid(value))
<1>1. type \in Types /\ read \in Seq(TokenSet)
  BY DEF CodecInv, CodecBasics
<1>2. \A i \in DOMAIN fields : value[i] = DocumentValue(i)
  BY DecodedIsDocument
<1>3. \A i \in DOMAIN fields : FieldValid(fields[i], value[i]) <=> Conforms(i, value[i])
  BY <1>1, <1>2, ValidIfConforms
<1>4. \A i \in DOMAIN fields : Demanded(fields[i]) => Count(i) > 0
  BY <1>1, FieldsOfType, DemandedIsTracked, CountIsLength
<1>5. Valid(value) <=> \A i \in DOMAIN fields : Conforms(i, value[i])
  BY <1>3 DEF Valid
<1>6. \A i \in DOMAIN fields : StructAccepts(i) <=> (validating => Conforms(i, value[i]))
  BY <1>2, <1>4, AcceptsIfConforms
<1>7. \A i \in DOMAIN fields : Readable(i)
  BY <1>1, <1>2, NotBadIsReadable
<1>8. shape # "choice"
  BY DEF HasContent
<1>9. Acceptable <=> \A i \in DOMAIN fields : StructAccepts(i)
  BY <1>7, <1>8 DEF Acceptable
<1> QED  BY <1>5, <1>6, <1>9

LEMMA EndPlainVerdict ==
  ASSUME CodecInv, ReadEndPlain
  PROVE  AcceptedExactly'
<1>1. /\ AtEnd /\ shape = "plain" /\ phase' = "done" /\ phase = "reading" /\ ~HasContent
      /\ ~TextFails
  BY DEF ReadEndPlain, AtEnd, HasContent
<1>2. UNCHANGED <<type, validating, read, before>>
  BY <1>1 DEF AtEnd
<1> SUFFICES ASSUME StartsAfresh, NamesTold, DefaultsAgree PROVE Acceptable
  BY <1>1, <1>2, SameVerdict DEF AcceptedExactly
<1>3. \A i \in DOMAIN fields :
        /\ IsFieldValue(fields[i], WithText[i]) /\ WithText[i] = Decoded(i)
        /\ NeedsPresenceTracking(fields[i]) => TokensFor(i) # << >>
  BY <1>1, WithTextDecodes
<1>4. validating => fields = << >>
  BY <1>1 DEF shape, Shape, fields
<1>5. validating => Valid(WithText)
  BY <1>1, <1>4 DEF Valid
<1> QED  BY <1>1, <1>3, <1>5, ValidIfAccepted

LEMMA EndAliasVerdict ==
  ASSUME CodecInv, ReadEndAlias
  PROVE  AcceptedExactly'
<1>1. /\ AtEnd /\ shape = "alias" /\ phase = "reading" /\ ~HasContent /\ ~TextFails
      /\ phase' = IF validating /\ ~Valid(WithText) THEN "failed" ELSE "done"
  BY DEF ReadEndAlias, AtEnd, HasContent, FinishDecoding
<1>2. UNCHANGED <<type, validating, read, before>>
  BY <1>1 DEF AtEnd
<1> SUFFICES ASSUME StartsAfresh, NamesTold, DefaultsAgree
             PROVE  Acceptable <=> phase' = "done"
  BY <1>1, <1>2, SameVerdict DEF AcceptedExactly
<1>3. \A i \in DOMAIN fields :
        /\ IsFieldValue(fields[i], WithText[i]) /\ WithText[i] = Decoded(i)
        /\ NeedsPresenceTracking(fields[i]) => TokensFor(i) # << >>
  BY <1>1, WithTextDecodes
<1>4. Acceptable <=> (validating => Valid(WithText))
  BY <1>1, <1>3, ValidIfAccepted
<1> QED  BY <1>1, <1>4

LEMMA EndTrackedVerdict ==
  ASSUME CodecInv, ReadEndTracked
  PROVE  AcceptedExactly'
<1>1. AtEnd /\ shape = "tracked" /\ phase = "reading" /\ ~HasContent /\ ~TextFails
  BY DEF ReadEndTracked, AtEnd, HasContent
<1>2. UNCHANGED <<type, validating, read, before>>
  BY <1>1 DEF AtEnd
<1> SUFFICES ASSUME StartsAfresh, NamesTold, DefaultsAgree
             PROVE  phase' \in {"done", "failed"} /\ (Acceptable <=> phase' = "done")
  BY <1>2, SameVerdict DEF AcceptedExactly
<1>3. type \in Types /\ read \in Seq(TokenSet)
  BY DEF CodecInv, CodecBasics
<1>4. CASE Missing = {}
  <2>1. PICK value : value = [i \in DOMAIN fields |-> Assigned(i)]
    OBVIOUS
  <2>2. phase' = IF validating /\ ~Valid(value) THEN "failed" ELSE "done"
    BY <1>4, <2>1 DEF ReadEndTracked, FinishDecoding
  <2>3. \A i \in DOMAIN fields :
          /\ IsFieldValue(fields[i], value[i]) /\ value[i] = Decoded(i)
          /\ NeedsPresenceTracking(fields[i]) => TokensFor(i) # << >>
    BY <1>1, <1>4, <2>1, AssignedDecodes
  <2>4. Acceptable <=> (validating => Valid(value))
    BY <1>1, <2>3, ValidIfAccepted
  <2> QED  BY <2>2, <2>4
<1>5. CASE Missing # {}
  <2>1. phase' = "failed"
    BY <1>5 DEF ReadEndTracked
  <2>2. PICK i \in DOMAIN fields : NeedsPresenceTracking(fields[i]) /\ local[i] = << >>
    BY <1>5 DEF Missing
  <2>3. ~IsSlice(fields[i]) /\ fields[i].kind # "text" /\ Filled = local
    BY <1>1, <2>2 DEF NeedsPresenceTracking, IsSlice, Filled
  <2>4. local[i] = Collect(fields[i], Start(i), TokensFor(i))
    BY <1>1, <2>3 DEF CodecInv, StructHeld, Filling
  <2>5. TokensFor(i) = << >>
    BY <2>2, <2>3, <2>4 DEF Collect
  <2>6. Demanded(fields[i]) /\ ~(Count(i) > 0)
    BY <1>3, <2>2, <2>5, FieldsOfType, DemandedIsTracked, CountIsLength
  <2>7. ~Acceptable
    BY <1>1, <2>6, AcceptsIfConforms DEF Acceptable
  <2> QED  BY <2>1, <2>7
<1> QED  BY <1>4, <1>5

(* Text that is no value.                                                    *)
LEMMA EndBadVerdict ==
  ASSUME CodecInv, ReadEndBad
  PROVE  AcceptedExactly'
<1>1. AtEnd /\ ~HasContent /\ phase = "reading" /\ phase' = "failed" /\ TextFails
  BY DEF ReadEndBad, AtEnd
<1>2. UNCHANGED <<type, validating, read, before>>
  BY <1>1 DEF AtEnd
<1> SUFFICES ASSUME StartsAfresh, NamesTold, DefaultsAgree PROVE ~Acceptable
  BY <1>1, <1>2, SameVerdict DEF AcceptedExactly
<1>3. PICK i \in DOMAIN fields : fields[i].kind = "text" /\ TextValue(i) = Bad
  BY <1>1 DEF TextFails, TextFields
<1>4. <<TextValue(i)>> = Decoded(i)
  BY <1>1, <1>3, TextDecodes
<1>5. ~NeedsPresenceTracking(fields[i])
  BY <1>3 DEF NeedsPresenceTracking
<1>6. DocumentValue(i) = <<Bad>>
  BY <1>1, <1>3, <1>4, <1>5, DecodedIsDocument
<1>7. ~Readable(i)
  BY <1>6 DEF Readable
<1> QED  BY <1>1, <1>7 DEF Acceptable

LEMMA TokensToldApartNext ==
  ASSUME NamesTold', NEW i
  PROVE  TokensOf(i)' = TokensFor(i)'
<1>1. {k \in DOMAIN read : FieldFor(read[k]) = i}' = {k \in DOMAIN read : FieldNamed(read[k]) = i}'
  BY DEF NamesTold
<1> QED  BY <1>1 DEF TokensOf, TokensFor

(* A token whose content is no value.                                        *)
LEMMA ReadBadVerdict ==
  ASSUME CodecInv, ReadBad
  PROVE  AcceptedExactly'
<1>1. PICK tok \in Offered : Fails(tok) /\ ReadToken(tok) /\ phase' = "failed"
  BY DEF ReadBad
<1>2. /\ UNCHANGED <<type, validating, before>> /\ read' = Append(read, tok)
      /\ phase = "reading"
  BY <1>1 DEF ReadToken
<1>3. tok \in TokenSet /\ read \in Seq(TokenSet) /\ type \in Types
  BY OfferedType DEF CodecInv, CodecBasics
<1>4. Len(read) + 1 \in DOMAIN read' /\ read'[Len(read) + 1] = tok
  BY <1>2, <1>3, AppendProperties, LenProperties
<1>5. StartsAfresh' = StartsAfresh
  BY <1>2, SameType DEF StartsAfresh
<1> SUFFICES ASSUME StartsAfresh, NamesTold' PROVE ~Acceptable'
  BY <1>1, <1>5 DEF AcceptedExactly
<1> PICK k, f : k = FieldFor(tok) /\ f = fields[k]
  OBVIOUS
<1>6. k # 0 /\ FieldNamed(tok)' = k
  <2>1. FieldFor(tok)' = FieldNamed(tok)'
    BY <1>4 DEF NamesTold
  <2> QED  BY <1>1, <1>2, <2>1, SameType DEF Fails
<1>7. CASE HasContent
  <2>1. Parsed(f, ZeroItem(f), tok)' = Bad
    BY <1>1, <1>2, <1>7, ContentFails, SameType
  <2>2. HasContent' /\ fields' = fields
    BY <1>2, <1>7, SameType
  <2> QED  BY <1>4, <1>6, <2>1, <2>2 DEF Acceptable
<1>8. CASE ~HasContent
  <2>1. k \in DOMAIN fields /\ f \in Field /\ FieldAllowed(f)
    BY <1>3, <1>6, FieldForToken, TokenKinds, FieldsOfType
  <2>2. Filled[k] = Collect(f, Start(k), TokensFor(k)) /\ Filling(Filled)
    BY <1>2, <1>8, <2>1 DEF CodecInv, StructHeld, Filling
  <2> PICK held, start, tokens : held = Filled[k] /\ start = Start(k) /\ tokens = TokensFor(k)
    OBVIOUS
  <2>3. Parsed(f, Old(f, held), tok) = Bad
    BY <1>1, <1>8 DEF Fails
  <2>4. f.kind \in Gathers \cup {"anyAttribute"} /\ f.kind # "text"
    BY <1>3, <1>6, ParsedType DEF Gathers
  <2>5. start \in {<< >>, ZeroField(f)} /\ tokens \in Seq(TokenSet)
    BY <1>3, TokensForType DEF Start
  <2>6. held \in Seq(Held(f))
    BY <2>1, <2>2, EmptySeq DEF Filling, IsFieldValue
  <2>7. Bad \notin {Collect(f, start, tokens)[m] : m \in DOMAIN Collect(f, start, tokens)}
    <3>1. \A m \in DOMAIN held : held[m] \in Held(f)
      BY <2>6, LenProperties, ElementOfSeq
    <3> QED  BY <2>1, <2>2, <3>1, HeldIsNotBad
  <2> PICK more : more = Append(tokens, tok)
    OBVIOUS
  <2>8. Into(f, held, tok) = Collect(f, start, more)
    BY <1>3, <2>1, <2>2, <2>4, <2>5, <2>7, CollectOneMore
  <2>9. more # << >>
    BY <2>5, AppendProperties
  <2>10. TokensOf(k)' = more
    BY <1>2, <1>3, OneMoreToken, TokensToldApartNext
  <2>11. DocumentValue(k)' = Collect(f, start, more)
    <3>1. fields'[k] = f
      BY <1>2, SameType
    <3>2. CASE IsSlice(f)
      <4>1. DocumentValue(k)' = [m \in DOMAIN more |-> Parsed(f, ZeroItem(f), more[m])']
        BY <2>4, <2>10, <3>1, <3>2 DEF DocumentValue
      <4>2. DocumentValue(k)' = [m \in DOMAIN more |-> Parsed(f, ZeroItem(f), more[m])]
        BY <1>2, <4>1, SameType
      <4> QED  BY <3>2, <4>2 DEF Collect, Items
    <3>3. CASE ~IsSlice(f)
      <4>1. DocumentValue(k)' = <<Gathered(f, more)'>>
        BY <2>4, <2>9, <2>10, <3>1, <3>3 DEF DocumentValue
      <4>2. Gathered(f, more)' = Gathered(f, more)
        BY <1>2, SameType
      <4> QED  BY <2>4, <2>9, <3>3, <4>1, <4>2 DEF Collect
    <3> QED  BY <3>2, <3>3
  <2>12. \E m \in DOMAIN DocumentValue(k)' : DocumentValue(k)'[m] = Bad
    <3>1. CASE IsSlice(f)
      <4>1. DocumentValue(k)' = Append(held, Bad)
        BY <2>3, <2>8, <2>11, <3>1 DEF Into
      <4>2. Len(held) + 1 \in DOMAIN Append(held, Bad) /\ Append(held, Bad)[Len(held) + 1] = Bad
        BY <2>6, LenProperties
      <4> QED  BY <4>1, <4>2
    <3>2. CASE ~IsSlice(f)
      <4>1. DocumentValue(k)' = <<Bad>>
        BY <2>3, <2>8, <2>11, <3>2 DEF Into
      <4> QED  BY <4>1
    <3> QED  BY <3>1, <3>2
  <2>13. ~Readable(k)'
    BY <2>12 DEF Readable
  <2>14. ~HasContent' /\ fields' = fields
    BY <1>2, <1>8, SameType
  <2> QED  BY <2>1, <2>13, <2>14 DEF Acceptable
<1> QED  BY <1>7, <1>8

(* The content of a choice has as many entries as known children were read.  *)
LEMMA EndContentVerdict ==
  ASSUME CodecInv, ContentInv, ReadEnd
  PROVE  AcceptedExactly'
<1>1. /\ AtEnd /\ HasContent /\ phase = "reading"
      /\ phase' = IF validating /\ ~Valid(target) THEN "failed" ELSE "done"
  BY DEF ReadEnd, FinishDecoding, AtEnd
<1>2. UNCHANGED <<type, validating, read, before>>
  BY <1>1 DEF AtEnd
<1> SUFFICES ASSUME StartsAfresh, NamesTold, DefaultsAgree
             PROVE  Acceptable <=> phase' = "done"
  BY <1>1, <1>2, SameVerdict DEF AcceptedExactly
<1>3. type \in Types /\ read \in Seq(TokenSet) /\ \A k \in DOMAIN read : ~Unreadable(read[k])
  BY <1>1 DEF CodecInv, CodecBasics, ContentInv
<1>4. \A k \in DOMAIN read : FieldNamed(read[k]) # 0 =>
        Parsed(fields[FieldNamed(read[k])], ZeroItem(fields[FieldNamed(read[k])]), read[k]) # Bad
  BY <1>3 DEF NamesTold, Unreadable
<1>5. Acceptable <=>
        (shape = "choice" /\ validating =>
           IF Repeated(fields[1]) THEN Between(fields[1], KnownChildren)
           ELSE fields[1].min > 0 => KnownChildren > 0)
  BY <1>1, <1>4 DEF Acceptable
<1>6. Valid(target) <=> ContentValid(target)
  BY <1>1 DEF Valid
<1>7. CASE shape = "mixed"
  BY <1>1, <1>5, <1>6, <1>7 DEF ContentValid
<1>8. CASE shape = "choice"
  <2>1. before = << >>
    BY <1>1, <1>8 DEF StartsAfresh, ZeroValue
  <2>2. target = ContentOf(EntriesRead)
    <3>1. target = ContentOf(before \o EntriesRead)
      BY <1>1 DEF ContentInv
    <3>2. << >> \o EntriesRead = EntriesRead
      BY <1>3, EntriesReadType, ConcatEmptySeq
    <3> QED  BY <2>1, <3>1, <3>2
  <2> PICK n, f : n = KnownChildren /\ f = fields[1]
    OBVIOUS
  <2>3. {k \in DOMAIN read : FieldNamed(read[k]) # 0} = {k \in DOMAIN read : KnownToken(read[k])}
    BY <1>3, <1>8 DEF KnownToken, IsText, NamesTold
  <2>4. n = Len(KnownRead)
    BY <2>3 DEF KnownChildren, KnownRead
  <2>5. n \in Nat /\ Len(EntriesRead) = n /\ (EntriesRead = << >> <=> n = 0)
    <3>1. EntriesRead \in Seq(EntryImages) /\ Len(EntriesRead) = n
      BY <1>3, <2>4, EntriesReadType
    <3> QED  BY <3>1, EmptySeq, LenProperties
  <2>6. f \in Field
    <3>1. Len(fields) >= 2
      BY <1>8 DEF shape, Shape, IsChoice, fields
    <3>2. 1 \in DOMAIN fields
      BY <1>3, <3>1, FieldsOfType
    <3> QED  BY <1>3, <3>2, FieldsOfType
  <2>7. CASE Repeated(f)
    <3>1. target = EntriesRead
      BY <2>2, <2>7 DEF ContentOf
    <3>2. CountAllowed(f, n) <=> Between(f, n)
      BY <2>5, <2>6, <2>7, CountsAgree
    <3>3. ContentValid(target) <=> CountAllowed(f, n)
      BY <1>8, <2>5, <2>7, <3>1 DEF ContentValid
    <3> QED  BY <1>1, <1>5, <1>6, <1>8, <2>7, <3>2, <3>3
  <2>8. CASE ~Repeated(f)
    <3>1. target = << >> <=> n = 0
      BY <1>8, <2>2, <2>5, <2>8 DEF ContentOf
    <3>2. ContentValid(target) <=> (f.min > 0 => n > 0)
      BY <1>8, <2>5, <2>8, <3>1 DEF ContentValid
    <3> QED  BY <1>1, <1>5, <1>6, <1>8, <2>8, <3>2
  <2> QED  BY <2>7, <2>8
<1> QED  BY <1>1, <1>7, <1>8 DEF HasContent

LEMMA VerdictNext ==
  ASSUME CodecInv, ContentInv, AcceptedExactly, [CodecNext]_codecVars
  PROVE  AcceptedExactly'
<1>1. CASE Decoding \/ Reread
  <2>1. PICK t : Begin(t)
    BY <1>1 DEF Decoding, Reread
  <2>2. UNCHANGED <<type, validating>> /\ phase' = IF TagsConflict THEN "failed" ELSE "reading"
    BY <2>1 DEF Begin
  <2>3. TagsConflict' = TagsConflict
    BY <2>2, SameType
  <2> QED  BY <2>2, <2>3 DEF AcceptedExactly
<1>2. CASE ReadKnown \/ ReadContent \/ Skip
  <2>1. phase' = "reading"
    BY <1>2 DEF ReadKnown, ReadContent, Skip, ReadToken
  <2> QED  BY <2>1 DEF AcceptedExactly
<1>3. CASE ReadBad
  BY <1>3, ReadBadVerdict
<1>4. CASE ReadEnd
  BY <1>4, EndContentVerdict
<1>5. CASE ReadEndBad
  BY <1>5, EndBadVerdict
<1>6. CASE ReadEndPlain
  BY <1>6, EndPlainVerdict
<1>7. CASE ReadEndAlias
  BY <1>7, EndAliasVerdict
<1>8. CASE ReadEndTracked
  BY <1>8, EndTrackedVerdict
<1>9. CASE UNCHANGED codecVars
  <2>1. UNCHANGED <<type, validating, read, before, phase, rereading>>
    BY <1>9 DEF codecVars
  <2> QED  BY <2>1, SameVerdict DEF AcceptedExactly
<1> QED  BY <1>1, <1>2, <1>3, <1>4, <1>5, <1>6, <1>7, <1>8, <1>9 DEF CodecNext

(* A document is accepted exactly if it is one the fields allow: for every    *)
(* type that compiles, whatever the types of its fields read, print and       *)
(* accept, and every document, no value that is missing, unreadable or, where *)
(* the code validates, not as the field says gets through, and none that is   *)
(* as the field says is refused -- for a value that starts from zero, where   *)
(* the tags are no two the same and tell the names of the document apart and  *)
(* the literals of the defaults are what their texts are decoded as.          *)
THEOREM AcceptanceIsExact == CodecSpec => []AcceptedExactly
<1> DEFINE Inv == CodecInv /\ ContentInv /\ AcceptedExactly
<1>1. CodecInit => Inv
  <2>1. CodecInit => AcceptedExactly
    BY DEF CodecInit, AcceptedExactly
  <2> QED  BY <2>1, CodecInitInv, ContentInvInit
<1>2. Inv /\ [CodecNext]_codecVars => Inv'
  BY CodecNextInv, ContentInvNext, VerdictNext
<1>3. Inv => AcceptedExactly
  OBVIOUS
<1> QED  BY <1>1, <1>2, <1>3, PTL DEF CodecSpec
=============================================================================
