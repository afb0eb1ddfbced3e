-------------------------- MODULE Optimizer_proofs --------------------------
(***************************************************************************)
(* What the optimizer does to any list of types: no pass drops, adds or    *)
(* renames a type or turns a duplicate into anything else, and in every    *)
(* round of removeDuplicates a type equals at most one canonical type.     *)
(* Every pass keeps the variables in their types.  Where no type is made   *)
(* of itself, types have ranks, every reference leads to a lower rank, and *)
(* so duplicates lead to types and resolved references to none of them.    *)
(***************************************************************************)
EXTENDS OptimizerValues, IndexLemmas, FiniteSetTheorems

Parts == {"kind", "key", "plain", "alias", "list", "union", "fields", "dup"}

(* u is t, maybe with another body; a duplicate is still the same one. *)
Keeps(t, u) ==
  /\ DOMAIN u = DOMAIN t
  /\ u.kind = t.kind
  /\ u.key = t.key
  /\ t.dup # None => u.dup = t.dup

(* All that the proofs need of the variables' types: the types form a list, *)
(* each of them has all its parts and the name it was interpreted with.      *)
Shape ==
  /\ input \in Inputs
  /\ DOMAIN types = DOMAIN input
  /\ \A i \in DOMAIN types : /\ DOMAIN types[i] = Parts
                             /\ types[i].kind = input[i].kind
                             /\ types[i].key = input[i].key

StepKeeps ==
  /\ input' = input
  /\ DOMAIN types' = DOMAIN types
  /\ \A i \in DOMAIN types : Keeps(types[i], types'[i])

LEMMA InputShape ==
  ASSUME NEW ts \in Inputs
  PROVE  /\ DOMAIN ts \subseteq Nat \ {0}
         /\ \A i \in DOMAIN ts : DOMAIN ts[i] = Parts
<1>1. ts \in Seq(MetaType)
  BY InputAssumption
<1>2. DOMAIN ts = 1 .. Len(ts) /\ Len(ts) \in Nat /\ \A i \in DOMAIN ts : ts[i] \in MetaType
  BY <1>1
<1>3. \A t \in MetaType : DOMAIN t = Parts
  BY DEF MetaType, Parts
<1> QED  BY <1>2, <1>3

LEMMA KeepsItself == \A t : Keeps(t, t)
BY DEF Keeps

LEMMA ReplaceKeeps ==
  ASSUME Shape, input' = input, at \in DOMAIN types,
         NEW u, Replace(u), Keeps(types[at], u)
  PROVE  StepKeeps
BY DEF Replace, StepKeeps, Keeps

LEMMA StutterKeeps ==
  ASSUME UNCHANGED <<input, types>>
  PROVE  StepKeeps
BY KeepsItself DEF StepKeeps

(* Marking is for types that are no duplicates. *)
LEMMA MarkKeeps ==
  ASSUME NEW t, DOMAIN t = Parts, t.dup = None, NEW target
  PROVE  Keeps(t, MarkDuplicate(t, target))
BY DEF Keeps, MarkDuplicate, Parts

(* The first type of a name is at the first of the indices with that name. *)
LEMMA FoundFirst ==
  ASSUME NEW ts, DOMAIN ts \subseteq Nat, NEW q, FindMetaType(ts, q) # None
  PROVE  \E i \in DOMAIN ts : /\ ts[i].key = q
                              /\ \A j \in DOMAIN ts : ts[j].key = q => i <= j
                              /\ FindMetaType(ts, q) = ts[i]
<1> DEFINE hits == {i \in DOMAIN ts : ts[i].key = q}
           first == CHOOSE i \in hits : \A j \in hits : i <= j
<1>1. hits # {}
  BY DEF FindMetaType
<1>2. \E i \in hits : \A j \in hits : i <= j
  <2> hits \subseteq Nat
    OBVIOUS
  <2> HIDE DEF hits
  <2> QED  BY <1>1, SmallestIndex
<1>3. first \in hits /\ \A j \in hits : first <= j
  BY <1>2
<1>4. FindMetaType(ts, q) = ts[first]
  BY <1>1 DEF FindMetaType
<1> QED  BY <1>3, <1>4
(* And what is at the first index of its name is found. *)
LEMMA FoundAtFirst ==
  ASSUME NEW ts, DOMAIN ts \subseteq Nat, NEW i \in DOMAIN ts,
         \A j \in DOMAIN ts : ts[j].key = ts[i].key => i <= j
  PROVE  FindMetaType(ts, ts[i].key) = ts[i]
<1> DEFINE hits == {n \in DOMAIN ts : ts[n].key = ts[i].key}
           first == CHOOSE n \in hits : \A j \in hits : n <= j
<1>1. i \in hits /\ \A j \in hits : i <= j
  OBVIOUS
<1>2. first \in hits /\ \A j \in hits : first <= j
  BY <1>1
<1>3. first = i
  BY <1>1, <1>2
<1> QED  BY <1>1, <1>3 DEF FindMetaType
-----------------------------------------------------------------------------
LEMMA UseUnrestrictedBaseKeeps ==
  ASSUME Shape, UseUnrestrictedBaseType
  PROVE  StepKeeps
<1> DEFINE t == types[at]
<1>1. at \in DOMAIN types /\ input' = input
  BY DEF UseUnrestrictedBaseType, Within
<1>2. CASE UnrestrictedBase(t) = None
  <2>1. Replace(t)
    BY <1>2 DEF UseUnrestrictedBaseType
  <2> QED  BY <1>1, <2>1, ReplaceKeeps, KeepsItself
<1>3. CASE UnrestrictedBase(t) # None
  <2>1. Replace(MarkDuplicate(t, UnrestrictedBase(t)))
    BY <1>3 DEF UseUnrestrictedBaseType
  <2>2. t.dup = None
    BY <1>3 DEF UnrestrictedBase, ClimbsFrom
  <2>3. Keeps(t, MarkDuplicate(t, UnrestrictedBase(t)))
    BY <1>1, <2>2, MarkKeeps DEF Shape
  <2> QED  BY <1>1, <2>1, <2>3, ReplaceKeeps
<1> QED  BY <1>2, <1>3

LEMMA RemoveEmptyEnumVariantsKeeps ==
  ASSUME Shape, RemoveEmptyEnumVariants
  PROVE  StepKeeps
<1> DEFINE t == types[at]
<1>1. at \in DOMAIN types /\ input' = input
  BY DEF RemoveEmptyEnumVariants, Within
<1>2. PICK a : Replace(t) \/ Replace([t EXCEPT !.alias = a])
  BY DEF RemoveEmptyEnumVariants
<1>3. Keeps(t, [t EXCEPT !.alias = a])
  BY <1>1 DEF Keeps, Shape, Parts
<1> QED  BY <1>1, <1>2, <1>3, ReplaceKeeps, KeepsItself

LEMMA RemoveEmptyEnumsKeeps ==
  ASSUME Shape, RemoveEmptyEnums
  PROVE  StepKeeps
<1> DEFINE t == types[at]
<1>1. at \in DOMAIN types /\ input' = input
  BY DEF RemoveEmptyEnums, Within
<1>2. CASE IsEmptyEnum(t)
  <2>1. Replace(MarkDuplicate(t, t.alias.base))
    BY <1>2 DEF RemoveEmptyEnums
  <2>2. Keeps(t, MarkDuplicate(t, t.alias.base))
    BY <1>1, <1>2, MarkKeeps DEF Shape, IsEmptyEnum
  <2> QED  BY <1>1, <2>1, <2>2, ReplaceKeeps
<1>3. CASE ~ IsEmptyEnum(t)
  <2>1. Replace(t)
    BY <1>3 DEF RemoveEmptyEnums
  <2> QED  BY <1>1, <2>1, ReplaceKeeps, KeepsItself
<1> QED  BY <1>2, <1>3

LEMMA RemoveDuplicateUnionVariantsKeeps ==
  ASSUME Shape, RemoveDuplicateUnionVariants
  PROVE  StepKeeps
<1> DEFINE t == types[at]
<1>1. at \in DOMAIN types /\ input' = input
  BY DEF RemoveDuplicateUnionVariants, Within
<1>2. PICK u : Replace(t) \/ Replace([t EXCEPT !.union = u])
  BY DEF RemoveDuplicateUnionVariants
<1>3. Keeps(t, [t EXCEPT !.union = u])
  BY <1>1 DEF Keeps, Shape, Parts
<1> QED  BY <1>1, <1>2, <1>3, ReplaceKeeps, KeepsItself

LEMMA RemoveEmptyUnionsKeeps ==
  ASSUME Shape, RemoveEmptyUnions
  PROVE  StepKeeps
<1> DEFINE t == types[at]
           one == LiveUnion(t) /\ Len(t.union.members) = 1
<1>1. at \in DOMAIN types /\ input' = input
  BY DEF RemoveEmptyUnions, Within
<1>2. CASE one
  <2>1. Replace(MarkDuplicate(t, t.union.members[1]))
    BY <1>2 DEF RemoveEmptyUnions
  <2>2. Keeps(t, MarkDuplicate(t, t.union.members[1]))
    BY <1>1, <1>2, MarkKeeps DEF Shape, LiveUnion
  <2> QED  BY <1>1, <2>1, <2>2, ReplaceKeeps
<1>3. CASE ~ one
  <2>1. Replace(t)
    BY <1>3 DEF RemoveEmptyUnions
  <2> QED  BY <1>1, <2>1, ReplaceKeeps, KeepsItself
<1> QED  BY <1>2, <1>3

LEMMA ResolveTypedefsKeeps ==
  ASSUME Shape, ResolveTypedefs
  PROVE  StepKeeps
<1> DEFINE t == types[at]
<1>1. at \in DOMAIN types /\ input' = input
  BY DEF ResolveTypedefs, Within
<1>2. PICK a, l, u, f :
        Resolved(t) = [t EXCEPT !.alias = a, !.list = l, !.union = u, !.fields = f]
  BY DEF Resolved
<1>3. Keeps(t, [t EXCEPT !.alias = a, !.list = l, !.union = u, !.fields = f])
  BY <1>1 DEF Keeps, Shape, Parts
<1>4. Replace(Resolved(t))
  BY DEF ResolveTypedefs
<1> QED  BY <1>1, <1>2, <1>3, <1>4, ReplaceKeeps

LEMMA RemoveDuplicatesKeeps ==
  ASSUME Shape, RemoveDuplicates
  PROVE  StepKeeps
<1> DEFINE t == types[at]
<1>1. at \in DOMAIN types /\ input' = input
  BY DEF RemoveDuplicates, Within
<1>2. CASE Replace(t)
  BY <1>1, <1>2, ReplaceKeeps, KeepsItself
<1>3. CASE IsDuplicateCandidate(t) /\ \E k \in EqualCanonicals : Replace(MarkDuplicate(t, k))
  <2>1. PICK k \in EqualCanonicals : Replace(MarkDuplicate(t, k))
    BY <1>3
  <2>2. Keeps(t, MarkDuplicate(t, k))
    BY <1>1, <1>3, MarkKeeps DEF Shape, IsDuplicateCandidate
  <2> QED  BY <1>1, <2>1, <2>2, ReplaceKeeps
<1> QED  BY <1>2, <1>3 DEF RemoveDuplicates

(* The enumeration that is merged is no duplicate: the walk only stops at    *)
(* types that are none.                                                       *)
LEMMA MergeEnumKeeps ==
  ASSUME Shape, MergeEnum
  PROVE  StepKeeps
<1> DEFINE e == CHOOSE i \in DOMAIN types :
                  /\ types[i].key = Visited
                  /\ \A j \in 1..(i - 1) : types[j].key # Visited
<1>1. input' = input
  BY DEF MergeEnum
<1>2. CASE types' = types
  BY <1>1, <1>2, StutterKeeps
<1>3. CASE types' = [types EXCEPT ![e] = MarkDuplicate(@, types[at].key)]
  <2>1. VisitedType # None /\ VisitedType.dup = None
    BY DEF MergeEnum, IsEnumLeaf, IsLeaf, HasAlias
  <2>2. DOMAIN types = 1 .. Len(input) /\ Len(input) \in Nat
    BY InputAssumption DEF Shape
  <2>3. PICK i \in DOMAIN types : /\ types[i].key = Visited
                                  /\ \A j \in DOMAIN types : types[j].key = Visited => i <= j
                                  /\ VisitedType = types[i]
    BY <2>1, <2>2, FoundFirst DEF VisitedType
  <2>4. \A j \in 1..(i - 1) : types[j].key # Visited
    BY <2>2, <2>3
  <2>5. /\ e \in DOMAIN types
        /\ types[e].key = Visited
        /\ \A j \in 1..(e - 1) : types[j].key # Visited
    <3> HIDE DEF Visited
    <3> QED  BY <2>3, <2>4
  <2>6. e = i
    BY <2>2, <2>3, <2>4, <2>5
  <2>7. Keeps(types[e], MarkDuplicate(types[e], types[at].key))
    BY <2>1, <2>3, <2>5, <2>6, MarkKeeps DEF Shape
  <2> HIDE DEF e
  <2> QED  BY <1>1, <1>3, <2>5, <2>7, KeepsItself DEF StepKeeps
<1> QED  BY <1>2, <1>3 DEF MergeEnum

LEMMA EndFlattenKeeps ==
  ASSUME Shape, EndFlatten
  PROVE  StepKeeps
<1> DEFINE t == types[at]
<1>1. at \in DOMAIN types /\ input' = input
  BY DEF EndFlatten, WalkEnds, InWalk, Within
<1>2. PICK u : Replace([t EXCEPT !.union = u])
  BY DEF EndFlatten
<1>3. Keeps(t, [t EXCEPT !.union = u])
  BY <1>1 DEF Keeps, Shape, Parts
<1> QED  BY <1>1, <1>2, <1>3, ReplaceKeeps

LEMMA EndMergeKeeps ==
  ASSUME Shape, EndMerge
  PROVE  StepKeeps
<1> DEFINE t == types[at]
<1>1. at \in DOMAIN types /\ input' = input
  BY DEF EndMerge, WalkEnds, InWalk, Within
<1>2. PICK u, a : Merged(t) = t \/ Merged(t) = [t EXCEPT !.union = u, !.alias = a]
  BY DEF Merged
<1>3. Keeps(t, [t EXCEPT !.union = u, !.alias = a])
  BY <1>1 DEF Keeps, Shape, Parts
<1>4. Replace(Merged(t))
  BY DEF EndMerge
<1> QED  BY <1>1, <1>2, <1>3, <1>4, ReplaceKeeps, KeepsItself

(* Every step keeps every type. *)
LEMMA NextKeeps ==
  ASSUME Shape, [Next]_vars
  PROVE  StepKeeps
<1>1. CASE \/ SkipPass \/ EnterPass \/ LeavePass \/ AnotherRound \/ Finish
           \/ StartWalk \/ SkipWalk \/ Descend \/ Overflow \/ FlattenLeaf \/ MergeLeaf
           \/ UNCHANGED vars
  <2>1. UNCHANGED <<input, types>>
    BY <1>1 DEF SkipPass, EnterPass, LeavePass, AnotherRound, Finish, StartWalk,
                SkipWalk, Descend, Overflow, FlattenLeaf, MergeLeaf, vars
  <2> QED  BY <2>1, StutterKeeps
<1> QED
  BY <1>1, UseUnrestrictedBaseKeeps, RemoveEmptyEnumVariantsKeeps, RemoveEmptyEnumsKeeps,
     RemoveDuplicateUnionVariantsKeeps, RemoveEmptyUnionsKeeps, ResolveTypedefsKeeps,
     RemoveDuplicatesKeeps, MergeEnumKeeps, EndFlattenKeeps, EndMergeKeeps
  DEF Next

LEMMA InitShape == Init => Shape
BY InputShape DEF Init, Shape

LEMMA NextShape == Shape /\ [Next]_vars => Shape'
BY NextKeeps DEF Shape, StepKeeps, Keeps

(* The list of types keeps its names and kinds, whatever passes are enabled. *)
THEOREM TypesKeepNames == Spec => []Shape
BY InitShape, NextShape, PTL DEF Spec

(* A duplicate stays a duplicate of the same type, for every list of types   *)
(* and every choice of passes.                                                *)
THEOREM DuplicatesAreKept == Spec => DuplicatesStay
<1>1. Shape /\ [Next]_vars =>
        [\A i \in DOMAIN types : types[i].dup # None => types'[i].dup = types[i].dup]_vars
  BY NextKeeps DEF StepKeeps, Keeps
<1> QED  BY <1>1, TypesKeepNames, PTL DEF Spec, DuplicatesStay
-----------------------------------------------------------------------------
(* The rounds of removeDuplicates.  A type at an index before `at' that is   *)
(* canonical, and that its name leads to, differs from all canonical types   *)
(* after it.  Were it not for the first part, an equal type could have been  *)
(* added to the canonical ones when it was compared with an element only.    *)

IsType(i) == i \in DOMAIN types /\ types[i].kind # "element"

Canonical(i) == IsType(i) /\ i < at /\ types[i].key \in canonical

FirstOfName(i) == \A j \in DOMAIN types : types[j].key = types[i].key => i <= j

InRound == /\ outcome = "running"
           /\ pass <= Len(Pipeline)
           /\ Pipeline[pass] = "removeDuplicates"
           /\ at # 0

CanonicalsKnown == \A k \in canonical : \E i \in DOMAIN types : Canonical(i) /\ types[i].key = k

CanonicalsDiffer ==
  \A i, j \in DOMAIN types :
    Canonical(i) /\ Canonical(j) /\ i < j /\ FirstOfName(i)
      => ~ MetaTypesEqual(types[j], types[i])

RoundInv == InRound => CanonicalsKnown /\ CanonicalsDiffer

IInv == Shape /\ RoundInv

LEMMA Indices ==
  ASSUME Shape
  PROVE  DOMAIN types \subseteq Nat \ {0}
BY InputShape DEF Shape

LEMMA WithinRound ==
  ASSUME Shape, Within("removeDuplicates")
  PROVE  InRound
BY Indices DEF Within, InRound

LEMMA TypeNamesUnique ==
  ASSUME UniqueTypeNames, Shape, NEW i, NEW j, IsType(i), IsType(j),
         types[i].key = types[j].key
  PROVE  i = j
BY DEF UniqueTypeNames, Shape, IsType

(* Two types that are equal to a third one are equal. *)
LEMMA EqualToBoth ==
  ASSUME NEW a, NEW b, NEW c, MetaTypesEqual(a, b), MetaTypesEqual(a, c), b.key # c.key
  PROVE  MetaTypesEqual(c, b)
BY DEF MetaTypesEqual

(* A canonical type that equals the current one stands at the first index    *)
(* of its name.                                                               *)
LEMMA EqualCanonicalIndex ==
  ASSUME UniqueTypeNames, IInv, Within("removeDuplicates"), IsDuplicateCandidate(types[at]),
         NEW k \in EqualCanonicals
  PROVE  \E i \in DOMAIN types : /\ Canonical(i)
                                 /\ FirstOfName(i)
                                 /\ types[i].key = k
                                 /\ FindMetaType(types, k) = types[i]
<1>1. k \in canonical /\ MetaTypesEqual(types[at], FindMetaType(types, k))
  BY DEF EqualCanonicals
<1>2. PICK i \in DOMAIN types : /\ types[i].key = k
                                /\ \A j \in DOMAIN types : types[j].key = k => i <= j
                                /\ FindMetaType(types, k) = types[i]
  BY <1>1, Indices, FoundFirst DEF MetaTypesEqual, IInv
<1>3. IsType(i)
  BY <1>1, <1>2 DEF IsType, MetaTypesEqual, IsDuplicateCandidate
<1>4. PICK n \in DOMAIN types : Canonical(n) /\ types[n].key = k
  BY <1>1, WithinRound DEF IInv, RoundInv, CanonicalsKnown
<1>5. n = i
  BY <1>2, <1>3, <1>4, TypeNamesUnique DEF Canonical, IInv
<1> QED  BY <1>2, <1>4, <1>5 DEF FirstOfName

LEMMA InvOneCanonical ==
  ASSUME UniqueTypeNames, IInv
  PROVE  OneCanonical
<1> SUFFICES ASSUME Within("removeDuplicates"), IsDuplicateCandidate(types[at]),
                    NEW j \in EqualCanonicals, NEW k \in EqualCanonicals, j # k
             PROVE  FALSE
  BY DEF OneCanonical
<1>1. PICK m \in DOMAIN types : /\ Canonical(m) /\ FirstOfName(m) /\ types[m].key = j
                                /\ FindMetaType(types, j) = types[m]
  BY EqualCanonicalIndex
<1>2. PICK n \in DOMAIN types : /\ Canonical(n) /\ FirstOfName(n) /\ types[n].key = k
                                /\ FindMetaType(types, k) = types[n]
  BY EqualCanonicalIndex
<1>3. MetaTypesEqual(types[at], types[m]) /\ MetaTypesEqual(types[at], types[n])
  BY <1>1, <1>2 DEF EqualCanonicals
<1>4. MetaTypesEqual(types[n], types[m]) /\ MetaTypesEqual(types[m], types[n])
  BY <1>1, <1>2, <1>3, EqualToBoth
<1>5. m < n \/ n < m
  BY <1>1, <1>2, Indices DEF IInv
<1>6. CanonicalsDiffer
  BY WithinRound DEF IInv, RoundInv
<1> QED  BY <1>1, <1>2, <1>4, <1>5, <1>6 DEF CanonicalsDiffer

(* A step of the pass: only the type it is at may change, and it becomes      *)
(* canonical only if nothing canonical equals it.                             *)
LEMMA RemoveDuplicatesRound ==
  ASSUME UniqueTypeNames, IInv, Shape', RemoveDuplicates
  PROVE  RoundInv'
<1> DEFINE t == types[at]
<1>1. /\ Within("removeDuplicates") /\ at \in DOMAIN types /\ at \in Nat
      /\ CanonicalsKnown /\ CanonicalsDiffer
  BY Indices, WithinRound DEF RemoveDuplicates, Within, IInv, RoundInv
<1>2. /\ DOMAIN types' = DOMAIN types
      /\ at' = at + 1
      /\ \A i \in DOMAIN types : i # at => types'[i] = types[i]
      /\ \A i \in DOMAIN types : types'[i].kind = types[i].kind /\ types'[i].key = types[i].key
  <2>1. PICK u : Replace(u)
    BY DEF RemoveDuplicates
  <2>2. StepKeeps
    BY RemoveDuplicatesKeeps DEF IInv
  <2> QED  BY <2>1, <2>2 DEF Replace, StepKeeps, Keeps
<1>3. ASSUME t.key \in canonical, IsType(at) PROVE FALSE
  <2>1. PICK i \in DOMAIN types : Canonical(i) /\ types[i].key = t.key
    BY <1>1, <1>3 DEF CanonicalsKnown
  <2>2. i = at
    BY <1>3, <2>1, TypeNamesUnique DEF Canonical, IInv
  <2> QED  BY <1>1, <2>1, <2>2 DEF Canonical
<1>4. \A i \in DOMAIN types : FirstOfName(i)' => FirstOfName(i)
  BY <1>2 DEF FirstOfName
<1>5. CASE canonical' = canonical
  <2>1. \A i \in DOMAIN types : Canonical(i)' <=> Canonical(i)
    BY <1>1, <1>2, <1>3, <1>5, Indices DEF Canonical, IsType, IInv
  <2>2. \A i \in DOMAIN types : Canonical(i) => i # at
    BY <1>1 DEF Canonical
  <2>3. CanonicalsKnown'
    BY <1>1, <1>2, <1>5, <2>1 DEF CanonicalsKnown
  <2>4. CanonicalsDiffer'
    BY <1>1, <1>2, <1>4, <2>1, <2>2 DEF CanonicalsDiffer
  <2> QED  BY <2>3, <2>4 DEF RoundInv
<1>6. CASE /\ IsDuplicateCandidate(t)
           /\ EqualCanonicals = {}
           /\ canonical' = canonical \cup {t.key}
           /\ Replace(t)
  <2>1. \A i \in DOMAIN types : types'[i] = types[i]
    BY <1>1, <1>2, <1>6 DEF Replace
  <2>2. IsType(at)
    BY <1>1, <1>6 DEF IsType, IsDuplicateCandidate
  <2>3. \A i \in DOMAIN types : Canonical(i)' <=> Canonical(i) \/ i = at
    <3> TAKE i \in DOMAIN types
    <3>1. Canonical(i) => Canonical(i)'
      BY <1>1, <1>2, <1>6, <2>1, Indices DEF Canonical, IsType, IInv
    <3>2. i = at => Canonical(i)'
      BY <1>1, <1>2, <1>6, <2>1, <2>2 DEF Canonical, IsType
    <3>3. ASSUME Canonical(i)', i # at PROVE Canonical(i)
      <4>1. i < at /\ IsType(i)
        BY <1>1, <1>2, <2>1, <3>3, Indices DEF Canonical, IsType, IInv
      <4>2. types[i].key # t.key
        BY <2>2, <3>3, <4>1, TypeNamesUnique DEF IInv
      <4> QED  BY <1>1, <1>6, <2>1, <3>3, <4>1, <4>2 DEF Canonical
    <3> QED  BY <3>1, <3>2, <3>3
  <2>4. CanonicalsKnown'
    BY <1>1, <1>2, <1>6, <2>1, <2>3 DEF CanonicalsKnown
  <2>5. ASSUME NEW i \in DOMAIN types, Canonical(i), FirstOfName(i)
        PROVE  ~ MetaTypesEqual(t, types[i])
    <3>1. types[i].key \in canonical /\ FindMetaType(types, types[i].key) = types[i]
      BY <2>5, Indices, FoundAtFirst DEF Canonical, FirstOfName, IInv
    <3> QED  BY <1>6, <3>1 DEF EqualCanonicals
  <2>6. CanonicalsDiffer'
    BY <1>1, <1>2, <1>4, <2>1, <2>3, <2>5, Indices DEF CanonicalsDiffer, Canonical, IInv
  <2> QED  BY <2>4, <2>6 DEF RoundInv
<1> QED  BY <1>5, <1>6 DEF RemoveDuplicates

LEMMA NextRound ==
  ASSUME UniqueTypeNames, IInv, [Next]_vars
  PROVE  RoundInv'
<1>1. Shape'
  BY NextShape DEF IInv
<1>2. CASE RemoveDuplicates
  BY <1>1, <1>2, RemoveDuplicatesRound
<1>3. CASE EnterPass \/ AnotherRound
  BY <1>3 DEF EnterPass, AnotherRound, RoundInv, CanonicalsKnown, CanonicalsDiffer, Canonical
<1>4. CASE SkipPass \/ LeavePass \/ Finish \/ Overflow
  BY <1>4 DEF SkipPass, Between, LeavePass, Finish, Overflow, RoundInv, InRound
<1>5. CASE UNCHANGED vars
  BY <1>5 DEF vars, IInv, RoundInv, InRound, CanonicalsKnown, CanonicalsDiffer, Canonical,
              IsType, FirstOfName
<1>6. CASE \/ UseUnrestrictedBaseType \/ RemoveEmptyEnumVariants \/ RemoveEmptyEnums
           \/ RemoveDuplicateUnionVariants \/ RemoveEmptyUnions \/ ResolveTypedefs
  <2>1. Pipeline[pass] # "removeDuplicates" /\ pass' = pass
    BY <1>6 DEF UseUnrestrictedBaseType, RemoveEmptyEnumVariants, RemoveEmptyEnums, Within,
                RemoveDuplicateUnionVariants, RemoveEmptyUnions, ResolveTypedefs
  <2> QED  BY <2>1 DEF RoundInv, InRound
<1>7. CASE \/ StartWalk \/ SkipWalk \/ Descend \/ FlattenLeaf \/ MergeEnum \/ MergeLeaf
           \/ EndFlatten \/ EndMerge
  <2>1. Pipeline[pass] # "removeDuplicates" /\ pass' = pass
    BY <1>7 DEF StartWalk, SkipWalk, Descend, FlattenLeaf, MergeEnum, MergeLeaf, EndFlatten,
                EndMerge, Walking, WalkEnds, InWalk, Within
  <2> QED  BY <2>1 DEF RoundInv, InRound
<1> QED  BY <1>2, <1>3, <1>4, <1>5, <1>6, <1>7 DEF Next

(* Where no two types share a name, a type equals at most one canonical      *)
(* type: the order in which Go iterates over its map of canonical types      *)
(* does not show in what removeDuplicates does.                               *)
THEOREM CanonicalIsUnique == UniqueTypeNames => (Spec => []OneCanonical)
<1> SUFFICES ASSUME UniqueTypeNames PROVE Spec => []OneCanonical
  OBVIOUS
<1>1. Init => IInv
  BY InitShape DEF Init, IInv, RoundInv, InRound
<1>2. IInv /\ [Next]_vars => IInv'
  BY NextShape, NextRound DEF IInv
<1>3. IInv => OneCanonical
  BY InvOneCanonical
<1> QED  BY <1>1, <1>2, <1>3, PTL DEF Spec

-----------------------------------------------------------------------------
(* The end of a chain of names *)

Follow(next, x) == IF x \in DOMAIN next THEN next[x] ELSE x

IsChainOf(c, next, q) == c[0] = q /\ \A n \in Nat : c[n + 1] = Follow(next, c[n])

(* The chain leaves the map at n, or comes back. *)
Stops(c, next, n) == c[n] \notin DOMAIN next \/ \E m \in 0..(n - 1) : c[m] = c[n]

LEMMA ChainStops ==
  ASSUME NEW L \in Nat, NEW next, IsFiniteSet(DOMAIN next), Cardinality(DOMAIN next) <= L, NEW c
  PROVE  \E n \in 0..L + 1 : Stops(c, next, n)
<1> SUFFICES ASSUME \A n \in 0..L + 1 : ~ Stops(c, next, n) PROVE FALSE
  OBVIOUS
<1> DEFINE D == DOMAIN next
           f == [n \in 0..L |-> c[n]]
<1>1. \A n \in 0..L : c[n] \in D
  <2> TAKE n \in 0..L
  <2>1. n \in 0..L + 1
    OBVIOUS
  <2> QED  BY <2>1 DEF Stops
<1>2. f \in [0..L -> D]
  BY <1>1
<1>3. IsFiniteSet(0..L) /\ Cardinality(0..L) = L + 1
  BY FS_Interval
<1>4. IsFiniteSet(D) /\ Cardinality(D) \in Nat /\ Cardinality(D) < L + 1
  BY FS_CardinalityType
<1>5. \E m, n \in 0..L : m # n /\ f[m] = f[n]
  <2>1. PICK S, E, g : S = 0..L /\ E = D /\ g = f
    OBVIOUS
  <2>2. /\ IsFiniteSet(S) /\ IsFiniteSet(E) /\ Cardinality(E) < Cardinality(S) /\ g \in [S -> E]
    <3> HIDE DEF f, D
    <3> QED  BY <1>2, <1>3, <1>4, <2>1
  <2>3. \E x, y \in S : x # y /\ g[x] = g[y]
    BY ONLY <2>2, FS_PigeonHole
  <2> HIDE DEF f, D
  <2> QED  BY <2>1, <2>3
<1>a. PICK m \in 0..L, n \in 0..L : m # n /\ f[m] = f[n]
  BY <1>5
<1>6. c[m] = c[n]
  BY <1>a
<1>7. CASE m < n
  BY <1>6, <1>7 DEF Stops
<1>8. CASE n < m
  BY <1>6, <1>8 DEF Stops
<1> QED  BY <1>a, <1>7, <1>8

LEMMA ChainExists ==
  ASSUME NEW next, NEW q
  PROVE  \E c : IsChainOf(c, next, q)
<1> DEFINE X == {q} \cup {next[x] : x \in DOMAIN next}
           step == [n \in Nat |-> [x \in X |-> Follow(next, x)]]
<1>1. step \in Steps(X)
  BY DEF Steps, Follow
<1>2. q \in X
  OBVIOUS
<1>3. PICK c : IsRecursion(c, X, q, step)
  <2> HIDE DEF step, X
  <2> QED  BY <1>1, <1>2, RecursionExists
<1>4. c[0] = q /\ \A n \in Nat : c[n] \in X /\ c[n + 1] = step[n][c[n]]
  <2> HIDE DEF step, X
  <2> QED  BY <1>3 DEF IsRecursion
<1> QED  BY <1>4 DEF IsChainOf

LEMMA EndIsOnChain ==
  ASSUME NEW next, IsFiniteSet(DOMAIN next), Len(types) \in Nat, Cardinality(DOMAIN next) <= Len(types), NEW q
  PROVE  \E c, e : IsChainOf(c, next, q) /\ e \in Nat /\ EndOfChain(next, q) = c[e] /\ Stops(c, next, e)
<1>a. PICK L : L = Len(types)
  OBVIOUS
<1> DEFINE IsChain(d) == d = [n \in Nat |-> IF n = 0 THEN q
                                ELSE LET here == d[n - 1]
                                     IN  IF here \in DOMAIN next THEN next[here] ELSE here]
           EndIndex(d) == CHOOSE n \in 0..(L + 1) :
               /\ \/ d[n] \notin DOMAIN next
                  \/ \E m \in 0..(n - 1) : d[m] = d[n]
               /\ \A k \in 0..(n - 1) :
                    /\ d[k] \in DOMAIN next
                    /\ \A m \in 0..(k - 1) : d[m] # d[k]
           c == CHOOSE d : IsChain(d)
<1>1. EndOfChain(next, q) = c[EndIndex(c)]
  BY <1>a DEF EndOfChain
<1>2. PICK b : IsChainOf(b, next, q)
  BY ChainExists
<1>3. IsChain([n \in Nat |-> b[n]])
  <2> PICK u : u = [n \in Nat |-> b[n]]
    OBVIOUS
  <2>1. u[0] = q /\ \A n \in Nat : n # 0 => u[n] = Follow(next, u[n - 1])
    <3>1. \A n \in Nat : n # 0 => n - 1 \in Nat /\ (n - 1) + 1 = n
      OBVIOUS
    <3> QED  BY <1>2, <3>1 DEF IsChainOf
  <2>2. u = [n \in Nat |-> IF n = 0 THEN q ELSE Follow(next, u[n - 1])]
    BY <2>1
  <2> QED  BY <2>2 DEF Follow
<1>4. IsChain(c)
  <2> HIDE DEF IsChain
  <2> QED  BY <1>3
<1>5. IsChainOf(c, next, q)
  <2> HIDE DEF c
  <2> DEFINE rest(d, n) == IF n = 0 THEN q ELSE Follow(next, d[n - 1])
  <2>1. c = [n \in Nat |-> rest(c, n)]
    BY <1>4 DEF Follow
  <2> HIDE DEF rest
  <2>2. c[0] = rest(c, 0) /\ \A n \in Nat : c[n + 1] = rest(c, n + 1)
    BY <2>1
  <2>3. \A n \in Nat : n + 1 # 0 /\ (n + 1) - 1 = n
    OBVIOUS
  <2> QED  BY <2>2, <2>3 DEF IsChainOf, rest
<1> HIDE DEF c
<1>6. PICK n \in 0..L + 1 : Stops(c, next, n) /\ \A k \in 0..L + 1 : Stops(c, next, k) => n <= k
  <2> DEFINE S == {n \in 0..L + 1 : Stops(c, next, n)}
  <2>1. S \subseteq Nat /\ S # {}
    BY <1>a, ChainStops
  <2>2. PICK n \in S : \A k \in S : n <= k
    <3> HIDE DEF S
    <3> QED  BY <2>1, SmallestIndex
  <2> QED  BY <2>2
<1>7. \A k \in 0..(n - 1) : c[k] \in DOMAIN next /\ \A m \in 0..(k - 1) : c[m] # c[k]
  <2> TAKE k \in 0..(n - 1)
  <2>1. k \in 0..L + 1 /\ ~ (n <= k)
    BY <1>a
  <2>2. ~ Stops(c, next, k)
    BY <1>6, <2>1
  <2> QED  BY <2>2 DEF Stops
<1>8. EndIndex(c) \in 0..L + 1 /\ Stops(c, next, EndIndex(c))
  <2>1. c[n] \notin DOMAIN next \/ \E m \in 0..(n - 1) : c[m] = c[n]
    BY <1>6 DEF Stops
  <2> QED  BY <1>7, <2>1 DEF Stops
<1>9. EndIndex(c) \in Nat
  BY <1>8, <1>a
<1> HIDE DEF EndIndex
<1> QED  BY <1>1, <1>5, <1>8, <1>9

LEMMA ChainStaysIn ==
  ASSUME NEW next, NEW q, NEW c, IsChainOf(c, next, q),
         NEW R, q \in R, \A x \in R : x \in DOMAIN next => next[x] \in R
  PROVE  \A n \in Nat : c[n] \in R
<1> DEFINE In == {n \in Nat : c[n] \in R}
<1>1. 0 \in In
  BY DEF IsChainOf
<1>2. ASSUME NEW n \in Nat, n \in In PROVE n + 1 \in In
  <2>1. c[n + 1] = Follow(next, c[n]) /\ c[n] \in R
    BY <1>2 DEF IsChainOf
  <2>2. c[n + 1] \in R
    BY <2>1 DEF Follow
  <2> QED  BY <2>2
<1>3. Nat \subseteq In
  <2> HIDE DEF In
  <2> QED  BY <1>1, <1>2, NumbersByInduction
<1> QED  BY <1>3

(* What is closed under the map holds all that it leads to. *)
LEMMA EndStaysIn ==
  ASSUME NEW next, IsFiniteSet(DOMAIN next), Len(types) \in Nat, Cardinality(DOMAIN next) <= Len(types), NEW q,
         NEW R, q \in R, \A x \in R : x \in DOMAIN next => next[x] \in R
  PROVE  EndOfChain(next, q) \in R
<1>1. PICK c, e : IsChainOf(c, next, q) /\ e \in Nat /\ EndOfChain(next, q) = c[e]
  BY EndIsOnChain
<1>2. \A n \in Nat : c[n] \in R
  BY ONLY <1>1, ChainStaysIn, q \in R, \A x \in R : x \in DOMAIN next => next[x] \in R
<1> QED  BY <1>1, <1>2

(* A map that leads downwards is left in the end. *)
LEMMA EndIsOutside ==
  ASSUME NEW next, IsFiniteSet(DOMAIN next), Len(types) \in Nat, Cardinality(DOMAIN next) <= Len(types), NEW q,
         NEW R, q \in R, NEW rank, \A x \in R : rank[x] \in Nat,
         \A x \in R : x \in DOMAIN next => next[x] \in R /\ rank[next[x]] < rank[x]
  PROVE  EndOfChain(next, q) \notin DOMAIN next
<1>1. PICK c, e : IsChainOf(c, next, q) /\ e \in Nat /\ EndOfChain(next, q) = c[e] /\ Stops(c, next, e)
  BY EndIsOnChain
<1>a. \A n \in Nat : c[n] \in R
  BY ONLY <1>1, ChainStaysIn, q \in R, \A x \in R : x \in DOMAIN next => next[x] \in R /\ rank[next[x]] < rank[x]
<1> DEFINE In == {n \in Nat : c[n] \in R /\ \A m \in 0..n : rank[c[n]] <= rank[c[m]]}
<1>2. 0 \in In
  <2>1. c[0] \in R /\ rank[c[0]] \in Nat
    BY <1>1 DEF IsChainOf
  <2>2. \A m \in 0..0 : m = 0
    OBVIOUS
  <2> QED  BY <2>1, <2>2
<1>3. ASSUME NEW n \in Nat, n \in In PROVE n + 1 \in In
  <2>1. c[n + 1] = Follow(next, c[n]) /\ c[n] \in R
    BY <1>1, <1>3 DEF IsChainOf
  <2>2. c[n + 1] \in R /\ rank[c[n + 1]] <= rank[c[n]] /\ rank[c[n + 1]] \in Nat /\ rank[c[n]] \in Nat
    BY <2>1 DEF Follow
  <2>3. ASSUME NEW m \in 0..n + 1 PROVE rank[c[n + 1]] <= rank[c[m]]
    <3>1. CASE m = n + 1
      BY <2>2, <3>1
    <3>2. CASE m \in 0..n
      <4>1. c[m] \in R
        BY <1>a, <3>2
      <4>2. rank[c[n]] <= rank[c[m]] /\ rank[c[m]] \in Nat
        BY <1>3, <3>2, <4>1
      <4> QED  BY <2>2, <4>2
    <3>3. m = n + 1 \/ m \in 0..n
      OBVIOUS
    <3> QED  BY <3>1, <3>2, <3>3
  <2> QED  BY <2>2, <2>3
<1>4. Nat \subseteq In
  <2> HIDE DEF In
  <2> QED  BY <1>2, <1>3, NumbersByInduction
<1>5. SUFFICES ASSUME c[e] \in DOMAIN next PROVE FALSE
  BY <1>1
<1>6. PICK m \in 0..(e - 1) : c[m] = c[e]
  BY <1>1, <1>5 DEF Stops
<1>7. m \in Nat /\ m + 1 \in 0..e
  BY <1>1
<1>8. c[m + 1] = next[c[m]] /\ c[m] \in R /\ c[m + 1] \in R
  BY <1>1, <1>4, <1>5, <1>6, <1>7 DEF IsChainOf, Follow
<1>9. rank[c[e]] <= rank[c[m + 1]] /\ rank[c[m + 1]] < rank[c[m]]
  BY <1>1, <1>4, <1>5, <1>6, <1>7, <1>8
<1>10. rank[c[m + 1]] \in Nat /\ rank[c[m]] \in Nat
  BY <1>8
<1> QED  BY <1>6, <1>9, <1>10

(* The types and the maps of typedefs are in their types; elements have      *)
(* nothing but their field.                                                  *)
Names == {types[i].key : i \in DOMAIN types}

Fine(t) ==
  /\ t \in MetaType
  /\ t.kind = "element" => t.alias = None /\ t.list = None /\ t.union = None /\ t.dup = None

TypesFine == types \in Seq(MetaType) /\ \A i \in DOMAIN types : Fine(types[i])

GoodMap(map) == DOMAIN map \subseteq Names /\ \A q \in DOMAIN map : map[q] \in QName

LEMMA NamesFinite ==
  ASSUME types \in Seq(MetaType)
  PROVE  Len(types) \in Nat /\ IsFiniteSet(Names) /\ Cardinality(Names) <= Len(types)
<1>1. PICK L \in Nat : Len(types) = L /\ DOMAIN types = 1..L
  OBVIOUS
<1>2. PICK f : f = [i \in 1..L |-> types[i].key]
  OBVIOUS
<1>3. f \in Surjection(1..L, Names)
  BY <1>1, <1>2 DEF Surjection, Names
<1>4. IsFiniteSet(1..L) /\ Cardinality(1..L) = L
  BY FS_Interval
<1>5. PICK N : N = Names
  OBVIOUS
<1>6. IsFiniteSet(N) /\ Cardinality(N) <= Cardinality(1..L)
  <2>1. f \in Surjection(1..L, N)
    BY <1>3, <1>5
  <2> QED  BY ONLY <1>4, <2>1, FS_Surjection
<1> QED  BY <1>1, <1>4, <1>5, <1>6

LEMMA MapFinite ==
  ASSUME types \in Seq(MetaType), NEW map, DOMAIN map \subseteq Names
  PROVE  IsFiniteSet(DOMAIN map) /\ Len(types) \in Nat /\ Cardinality(DOMAIN map) <= Len(types)
<1>1. Len(types) \in Nat /\ IsFiniteSet(Names) /\ Cardinality(Names) <= Len(types)
  BY NamesFinite
<1>2. PICK N, D : N = Names /\ D = DOMAIN map
  OBVIOUS
<1>3. IsFiniteSet(N) /\ D \in SUBSET N
  BY <1>1, <1>2
<1>4. IsFiniteSet(D) /\ Cardinality(D) <= Cardinality(N)
  BY ONLY <1>3, FS_Subset
<1>5. Cardinality(D) \in Nat /\ Cardinality(N) \in Nat
  BY <1>3, <1>4, FS_CardinalityType
<1> QED  BY <1>1, <1>2, <1>4, <1>5

LEMMA EndIn ==
  ASSUME types \in Seq(MetaType), NEW map, DOMAIN map \subseteq Names, NEW q,
         NEW R, q \in R, \A x \in R : x \in DOMAIN map => map[x] \in R
  PROVE  EndOfChain(map, q) \in R
BY MapFinite, EndStaysIn

LEMMA EndOut ==
  ASSUME types \in Seq(MetaType), NEW map, DOMAIN map \subseteq Names, NEW q,
         NEW R, q \in R, NEW rank, \A x \in R : rank[x] \in Nat,
         \A x \in R : x \in DOMAIN map => map[x] \in R /\ rank[map[x]] < rank[x]
  PROVE  EndOfChain(map, q) \notin DOMAIN map
BY MapFinite, EndIsOutside

LEMMA Found ==
  ASSUME types \in Seq(MetaType), NEW q, FindMetaType(types, q) # None
  PROVE  \E i \in DOMAIN types : types[i].key = q /\ FindMetaType(types, q) = types[i]
<1>1. DOMAIN types \subseteq Nat
  OBVIOUS
<1> QED  BY <1>1, FoundFirst

TypedefTarget(t) == IF t.dup # None THEN t.dup ELSE t.alias.base

LEMMA TypedefMap ==
  ASSUME types \in Seq(MetaType)
  PROVE  LET map == BuildTypedefMap(types)
         IN  /\ DOMAIN map = {types[i].key : i \in {j \in DOMAIN types : IsTypedef(types[j])}}
             /\ \A q \in DOMAIN map : \E i \in DOMAIN types :
                  IsTypedef(types[i]) /\ types[i].key = q /\ map[q] = TypedefTarget(types[i])
<1> DEFINE defs == {i \in DOMAIN types : IsTypedef(types[i])}
           last(q) == CHOOSE i \in defs : /\ types[i].key = q
                                          /\ \A j \in defs : types[j].key = q => j <= i
           map == [q \in {types[i].key : i \in defs} |->
                     IF types[last(q)].dup # None THEN types[last(q)].dup ELSE types[last(q)].alias.base]
<1>1. BuildTypedefMap(types) = map
  BY DEF BuildTypedefMap
<1>2. PICK L \in Nat : DOMAIN types = 1..L
  OBVIOUS
<1>3. ASSUME NEW q \in DOMAIN map
      PROVE  last(q) \in defs /\ types[last(q)].key = q
  <2>1. PICK D : D = {i \in defs : types[i].key = q}
    OBVIOUS
  <2>2. D # {} /\ D \subseteq 1..L
    <3> HIDE DEF last
    <3> QED  BY <1>2, <2>1
  <2>3. \E i \in D : \A j \in D : j <= i
    BY <2>2, LargestIndex
  <2>4. \E i \in defs : types[i].key = q /\ \A j \in defs : types[j].key = q => j <= i
    BY <2>1, <2>3
  <2> QED  BY <2>4
<1>4. ASSUME NEW q \in DOMAIN map
      PROVE  \E i \in DOMAIN types :
               IsTypedef(types[i]) /\ types[i].key = q /\ map[q] = TypedefTarget(types[i])
  BY <1>3 DEF TypedefTarget
<1>5. DOMAIN map = {types[i].key : i \in defs}
  OBVIOUS
<1> HIDE DEF map
<1> QED  BY <1>1, <1>4, <1>5

LEMMA TargetsAreNames ==
  ASSUME NEW t, Fine(t), IsTypedef(t)
  PROVE  TypedefTarget(t) \in QName
BY DEF Fine, IsTypedef, HasAlias, TypedefTarget, MetaType, MetaAlias

LEMMA TypedefMapGood ==
  ASSUME TypesFine
  PROVE  GoodMap(BuildTypedefMap(types))
<1>1. PICK map : map = BuildTypedefMap(types)
  OBVIOUS
<1>2. /\ DOMAIN map = {types[i].key : i \in {j \in DOMAIN types : IsTypedef(types[j])}}
      /\ \A q \in DOMAIN map : \E i \in DOMAIN types :
           IsTypedef(types[i]) /\ types[i].key = q /\ map[q] = TypedefTarget(types[i])
  BY <1>1, TypedefMap DEF TypesFine
<1> QED  BY <1>1, <1>2, TargetsAreNames DEF GoodMap, Names, TypesFine

(* What a type refers to as an alias, a union or a duplicate is in R. *)
RefersInto(t, R) ==
  /\ t.dup # None => t.dup \in R
  /\ t.alias # None => t.alias.base \in R
  /\ t.union # None => \A i \in DOMAIN t.union.members : t.union.members[i] \in R

(* R holds what its names lead to. *)
ClosedIn(R, map) ==
  /\ \A x \in R : x \in DOMAIN map => map[x] \in R
  /\ \A i \in DOMAIN types : types[i].key \in R => RefersInto(types[i], R)

LEMMA UnrestrictedIn ==
  ASSUME types \in Seq(MetaType), NEW map, DOMAIN map \subseteq Names,
         NEW R, ClosedIn(R, map), NEW q \in R
  PROVE  UnrestrictedQName(map, q) \in R
<1>1. \A x \in R : ResolveQName(map, x) \in R
  BY EndIn DEF ResolveQName, ClosedIn
<1>2. DOMAIN NextBase(map) \subseteq Names
  BY DEF NextBase, Names
<1>3. ASSUME NEW x \in R, x \in DOMAIN NextBase(map) PROVE NextBase(map)[x] \in R
  <2>1. HasAlias(FindMetaType(types, x)) /\ NextBase(map)[x] = ResolvedBase(map, x)
    BY <1>3 DEF NextBase
  <2>2. PICK i \in DOMAIN types : types[i].key = x /\ FindMetaType(types, x) = types[i]
    BY <2>1, Found DEF HasAlias
  <2>3. types[i].alias.base \in R
    BY <2>1, <2>2 DEF HasAlias, ClosedIn, RefersInto
  <2> QED  BY <1>1, <2>1, <2>2, <2>3 DEF ResolvedBase
<1> QED  BY <1>1, <1>2, <1>3, EndIn DEF UnrestrictedQName

LEMMA UnrestrictedBaseIn ==
  ASSUME types \in Seq(MetaType), DOMAIN local \subseteq Names,
         NEW R, ClosedIn(R, local), NEW t \in MetaType, RefersInto(t, R),
         UnrestrictedBase(t) # None
  PROVE  UnrestrictedBase(t) \in R
<1>1. ClimbsFrom(t) # None /\ UnrestrictedBase(t) = UnrestrictedQName(local, ClimbsFrom(t))
  BY DEF UnrestrictedBase, ClimbsFrom
<1>2. ClimbsFrom(t) \in R
  <2>1. CASE t.union # None
    <3>1. t.union.members # << >> /\ ClimbsFrom(t) = t.union.members[1]
      BY <1>1, <2>1 DEF ClimbsFrom
    <3>2. t.union.members \in Seq(QName)
      BY <2>1 DEF MetaType, MetaUnion
    <3>3. 1 \in DOMAIN t.union.members
      BY <3>1, <3>2
    <3> QED  BY <2>1, <3>1, <3>3 DEF RefersInto
  <2>2. CASE t.union = None
    <3>1. t.alias # None /\ ClimbsFrom(t) = t.alias.base
      BY <1>1, <2>2 DEF ClimbsFrom
    <3> QED  BY <3>1 DEF RefersInto
  <2> QED  BY <2>1, <2>2
<1> QED  BY <1>1, <1>2, UnrestrictedIn

-----------------------------------------------------------------------------
(* Changed types are types. *)

LEMMA MarkFine ==
  ASSUME NEW t, Fine(t), t.kind # "element", NEW q \in QName
  PROVE  Fine(MarkDuplicate(t, q))
<1>1. << >> \in Seq(MetaField)
  OBVIOUS
<1> QED  BY <1>1 DEF Fine, MarkDuplicate, MetaType

LEMMA FacetsFine ==
  ASSUME NEW t, Fine(t), t.alias # None, NEW facets \in Seq(Facet)
  PROVE  Fine([t EXCEPT !.alias.facets = facets])
<1>1. t.alias \in MetaAlias
  BY DEF Fine, MetaType
<1>2. [t.alias EXCEPT !.facets = facets] \in MetaAlias
  BY <1>1 DEF MetaAlias
<1>3. [t EXCEPT !.alias.facets = facets] = [t EXCEPT !.alias = [t.alias EXCEPT !.facets = facets]]
  OBVIOUS
<1> QED  BY <1>2, <1>3 DEF Fine, MetaType

LEMMA MembersFine ==
  ASSUME NEW t, Fine(t), t.union # None, NEW names \in Seq(QName)
  PROVE  Fine([t EXCEPT !.union.members = names])
<1>1. t.union \in MetaUnion
  BY DEF Fine, MetaType
<1>2. [t.union EXCEPT !.members = names] \in MetaUnion
  BY <1>1 DEF MetaUnion
<1>3. [t EXCEPT !.union.members = names] = [t EXCEPT !.union = [t.union EXCEPT !.members = names]]
  OBVIOUS
<1> QED  BY <1>2, <1>3 DEF Fine, MetaType

LEMMA ResolvedFine ==
  ASSUME TypesFine, GoodMap(local), NEW t, Fine(t)
  PROVE  Fine(Resolved(t))
<1> DEFINE to(q) == ResolveQName(local, q)
           names == t.union.members
           field(f) == IF f.chardata THEN f ELSE [f EXCEPT !.type = to(f.type)]
           alias == IF t.alias = None THEN None ELSE [t.alias EXCEPT !.base = to(t.alias.base)]
           list == IF t.list = None THEN None ELSE [t.list EXCEPT !.item = to(t.list.item)]
           union == IF t.union = None THEN None
                    ELSE [t.union EXCEPT !.members = [i \in DOMAIN names |-> to(names[i])]]
           fields == [i \in DOMAIN t.fields |-> field(t.fields[i])]
<1>1. Resolved(t) = [t EXCEPT !.alias = alias, !.list = list, !.union = union, !.fields = fields]
  BY DEF Resolved
<1>2. \A q \in QName : to(q) \in QName
  BY EndIn DEF ResolveQName, GoodMap, TypesFine
<1> HIDE DEF to
<1>3. alias \in MetaAlias \cup {None} /\ (t.alias = None => alias = None)
  <2>1. CASE t.alias # None
    <3>1. t.alias \in MetaAlias /\ t.alias.base \in QName
      BY <2>1 DEF Fine, MetaType, MetaAlias
    <3>2. [t.alias EXCEPT !.base = to(t.alias.base)] \in MetaAlias
      BY <1>2, <3>1 DEF MetaAlias
    <3> QED  BY <2>1, <3>2
  <2> QED  BY <2>1
<1>4. list \in MetaList \cup {None} /\ (t.list = None => list = None)
  BY <1>2 DEF Fine, MetaType, MetaList
<1>5. union \in MetaUnion \cup {None} /\ (t.union = None => union = None)
  <2>1. CASE t.union # None
    <3>1. t.union \in MetaUnion /\ t.union.members \in Seq(QName)
      BY <2>1 DEF Fine, MetaType, MetaUnion
    <3>2. [i \in DOMAIN t.union.members |-> to(t.union.members[i])] \in Seq(QName)
      BY <1>2, <3>1
    <3> QED  BY <2>1, <3>1, <3>2 DEF MetaUnion
  <2> QED  BY <2>1
<1>6. fields \in Seq(MetaField)
  <2>1. t.fields \in Seq(MetaField)
    BY DEF Fine, MetaType
  <2>2. \A f \in MetaField : field(f) \in MetaField
    BY <1>2 DEF MetaField
  <2> HIDE DEF field
  <2> QED  BY <2>1, <2>2
<1> HIDE DEF alias, list, union, fields
<1> QED  BY <1>1, <1>3, <1>4, <1>5, <1>6 DEF Fine, MetaType

LEMMA ReplaceFine ==
  ASSUME TypesFine, at \in DOMAIN types, NEW u, Fine(u), Replace(u)
  PROVE  TypesFine' /\ Len(types') = Len(types)
<1>1. types' = [types EXCEPT ![at] = u] /\ u \in MetaType /\ types \in Seq(MetaType)
  BY DEF Replace, TypesFine, Fine
<1>2. types' \in Seq(MetaType) /\ Len(types') = Len(types) /\ DOMAIN types' = DOMAIN types
  BY <1>1
<1>3. \A i \in DOMAIN types : types'[i] = IF i = at THEN u ELSE types[i]
  BY <1>1
<1>4. \A i \in DOMAIN types' : Fine(types'[i])
  BY <1>2, <1>3 DEF TypesFine
<1> QED  BY <1>2, <1>4 DEF TypesFine, Fine

Typed ==
  /\ TypesFine
  /\ Len(types) = Len(input)
  /\ members \in Seq(QName)
  /\ pass \in 1..(Len(Pipeline) + 1)
  /\ at \in 0..(Len(types) + 1)
  /\ typedefs # None => GoodMap(typedefs)
  /\ local # None => GoodMap(local)
  /\ enumOnly \subseteq QName
  /\ canonical \subseteq QName
  /\ changed => at # 0 /\ Pipeline[pass] = "removeDuplicates"
  /\ outcome \in {"running", "done", "overflow"}

(* Inside a pass that resolves names its map of typedefs is there. *)
PassInv ==
  at # 0 => /\ pass <= Len(Pipeline)
            /\ Enabled(Pipeline[pass])
            /\ Pipeline[pass] \in {"useUnrestrictedBaseType", "removeDuplicateUnionVariants",
                                   "resolveTypedefs"} => GoodMap(local)

Call == [name : QName, depth : Nat]

(* A walk goes over the members of a union that is still one. *)
WalkInv ==
  walk # None =>
    /\ at \in DOMAIN types
    /\ Pipeline[pass] \in {"flattenUnions", "mergeEnumUnions"}
    /\ LiveUnion(types[at])
    /\ GoodMap(typedefs)
    /\ DOMAIN walk = {"todo", "facets", "leaves", "keys"}
    /\ walk.todo \in Seq(Call)
    /\ walk.facets \in Seq(Facet)
    /\ walk.leaves \in Seq(QName)

(* The inductive invariant of the types.                                      *)
TInv == Shape /\ Typed /\ PassInv /\ WalkInv

LEMMA TypedIndices ==
  ASSUME Typed
  PROVE  Len(types) \in Nat /\ DOMAIN types = 1..Len(types)
BY DEF Typed, TypesFine

LEMMA NamesStay ==
  ASSUME Shape, Shape', input' = input
  PROVE  Names' = Names
BY DEF Shape, Names

LEMMA GetTypedefsGood ==
  ASSUME Typed
  PROVE  GoodMap(GetTypedefs)
BY TypedefMapGood DEF Typed, GetTypedefs

LEMMA InitTyped == Init => TInv
<1> SUFFICES ASSUME Init PROVE TInv
  OBVIOUS
<1>1. Shape
  BY InitShape
<1>2. types = input /\ input \in Seq(MetaType)
  BY InputAssumption DEF Init
<1>3. TypesFine
  BY <1>2, InputAssumption DEF TypesFine, Fine, Init
<1>4. Len(types) \in Nat
  BY <1>2
<1> QED  BY <1>1, <1>2, <1>3, <1>4, InputAssumption DEF Init, TInv, Typed, PassInv, WalkInv, Pipeline

(* A step of a pass that puts u in place of the type it is at. *)
LEMMA ReplaceTyped ==
  ASSUME TInv, Shape', input' = input, at \in DOMAIN types, NEW u, Fine(u), Replace(u),
         members' = members, pass' = pass, local' = local, outcome' = outcome,
         typedefs' = typedefs \/ typedefs' = None, walk' = None,
         enumOnly' \subseteq QName, canonical' \subseteq QName,
         changed' => Pipeline[pass] = "removeDuplicates"
  PROVE  TInv'
<1>1. TypesFine' /\ Len(types') = Len(types)
  BY ReplaceFine DEF TInv, Typed
<1>2. Names' = Names
  BY NamesStay DEF TInv
<1>3. /\ Len(types) \in Nat /\ at \in 1..Len(types) /\ at' = at + 1
  BY TypedIndices DEF TInv, Replace
<1>4. at' \in 0..(Len(types) + 1) /\ at' # 0 /\ at # 0
  BY <1>3
<1>5. Typed'
  BY <1>1, <1>2, <1>4 DEF TInv, Typed, GoodMap
<1>6. PassInv'
  BY <1>2, <1>4 DEF TInv, PassInv, GoodMap, Enabled
<1>7. WalkInv'
  BY DEF WalkInv
<1> QED  BY <1>5, <1>6, <1>7 DEF TInv

LEMMA NoWalk ==
  ASSUME TInv, Pipeline[pass] \notin {"flattenUnions", "mergeEnumUnions"}
  PROVE  walk = None
BY DEF TInv, WalkInv

LEMMA NewShape ==
  ASSUME TInv, Next
  PROVE  Shape'
BY NextShape DEF TInv

LEMMA EveryName ==
  ASSUME TypesFine, NEW map, GoodMap(map)
  PROVE  ClosedIn(QName, map) /\ \A t : Fine(t) => RefersInto(t, QName)
<1>1. \A t : Fine(t) => RefersInto(t, QName)
  BY DEF Fine, RefersInto, MetaType, MetaAlias, MetaUnion
<1> QED  BY <1>1 DEF ClosedIn, GoodMap, TypesFine

LEMMA UseUnrestrictedBaseTyped ==
  ASSUME TInv, UseUnrestrictedBaseType
  PROVE  TInv'
<1>1. Shape'
  BY NewShape DEF Next
<1>2. /\ at \in DOMAIN types /\ input' = input /\ members' = members /\ pass' = pass
      /\ local' = local /\ outcome' = outcome /\ enumOnly' = enumOnly /\ canonical' = canonical
      /\ changed' = changed /\ walk' = walk /\ Pipeline[pass] = "useUnrestrictedBaseType"
  BY DEF UseUnrestrictedBaseType, Within
<1>3. walk' = None
  BY <1>2, NoWalk
<1>4. GoodMap(local) /\ TypesFine /\ Fine(types[at]) /\ enumOnly \subseteq QName
      /\ canonical \subseteq QName /\ (changed => Pipeline[pass] = "removeDuplicates")
  BY <1>2, TypedIndices DEF TInv, PassInv, Typed, TypesFine
<1>5. PICK u : Replace(u) /\ Fine(u) /\ (typedefs' = typedefs \/ typedefs' = None)
  <2>1. CASE UnrestrictedBase(types[at]) = None
    BY <1>4, <2>1 DEF UseUnrestrictedBaseType
  <2>2. CASE UnrestrictedBase(types[at]) # None
    <3>1. UnrestrictedBase(types[at]) \in QName
      <4>1. ClosedIn(QName, local) /\ RefersInto(types[at], QName)
        BY <1>4, EveryName
      <4> QED  BY <1>4, <2>2, <4>1, UnrestrictedBaseIn DEF TypesFine, Fine, GoodMap
    <3>2. types[at].kind # "element"
      BY <2>2 DEF UnrestrictedBase, ClimbsFrom
    <3>3. Fine(MarkDuplicate(types[at], UnrestrictedBase(types[at])))
      BY <1>4, <3>1, <3>2, MarkFine
    <3> QED  BY <2>2, <3>3 DEF UseUnrestrictedBaseType
  <2> QED  BY <2>1, <2>2
<1> QED  BY <1>1, <1>2, <1>3, <1>4, <1>5, ReplaceTyped

LEMMA RemoveEmptyEnumVariantsTyped ==
  ASSUME TInv, RemoveEmptyEnumVariants
  PROVE  TInv'
<1> DEFINE t == types[at]
<1>1. Shape'
  BY NewShape DEF Next
<1>2. /\ at \in DOMAIN types /\ input' = input /\ members' = members /\ pass' = pass
      /\ local' = local /\ outcome' = outcome /\ typedefs' = typedefs /\ canonical' = canonical
      /\ changed' = changed /\ walk' = walk /\ Pipeline[pass] = "removeEmptyEnumVariants"
  BY DEF RemoveEmptyEnumVariants, Within
<1>3. walk' = None
  BY <1>2, NoWalk
<1>4. TypesFine /\ Fine(t) /\ enumOnly \subseteq QName
      /\ canonical \subseteq QName /\ (changed => Pipeline[pass] = "removeDuplicates")
  BY <1>2 DEF TInv, Typed, TypesFine
<1>5. t.key \in QName
  BY <1>4 DEF Fine, MetaType
<1>6. enumOnly' \subseteq QName
  BY <1>4, <1>5 DEF RemoveEmptyEnumVariants
<1>7. PICK u : Replace(u) /\ Fine(u)
  <2>1. CASE t.kind = "simpleType" /\ t.alias # None
    <3>1. PICK kept : Replace([t EXCEPT !.alias.facets = AtPlaces(t.alias.facets, kept)])
      BY <2>1 DEF RemoveEmptyEnumVariants
    <3>2. t.alias.facets \in Seq(Facet)
      BY <1>4, <2>1 DEF Fine, MetaType, MetaAlias
    <3>3. AtPlaces(t.alias.facets, kept) \in Seq(Facet)
      BY <3>2, SelectionType
    <3>4. Fine([t EXCEPT !.alias.facets = AtPlaces(t.alias.facets, kept)])
      BY <1>4, <2>1, <3>3, FacetsFine
    <3> QED  BY <3>1, <3>4
  <2>2. CASE ~ (t.kind = "simpleType" /\ t.alias # None)
    BY <1>4, <2>2 DEF RemoveEmptyEnumVariants
  <2> QED  BY <2>1, <2>2
<1> QED  BY <1>1, <1>2, <1>3, <1>4, <1>6, <1>7, ReplaceTyped

LEMMA RemoveEmptyEnumsTyped ==
  ASSUME TInv, RemoveEmptyEnums
  PROVE  TInv'
<1> DEFINE t == types[at]
<1>1. Shape'
  BY NewShape DEF Next
<1>2. /\ at \in DOMAIN types /\ input' = input /\ members' = members /\ pass' = pass
      /\ local' = local /\ outcome' = outcome /\ enumOnly' = enumOnly /\ canonical' = canonical
      /\ changed' = changed /\ walk' = walk /\ Pipeline[pass] = "removeEmptyEnums"
  BY DEF RemoveEmptyEnums, Within
<1>3. walk' = None
  BY <1>2, NoWalk
<1>4. TypesFine /\ Fine(t) /\ enumOnly \subseteq QName
      /\ canonical \subseteq QName /\ (changed => Pipeline[pass] = "removeDuplicates")
  BY <1>2 DEF TInv, Typed, TypesFine
<1>5. PICK u : Replace(u) /\ Fine(u) /\ (typedefs' = typedefs \/ typedefs' = None)
  <2>1. CASE IsEmptyEnum(t)
    <3>1. t.alias.base \in QName /\ t.kind # "element"
      BY <1>4, <2>1 DEF Fine, MetaType, MetaAlias, IsEmptyEnum
    <3>2. Fine(MarkDuplicate(t, t.alias.base))
      BY <1>4, <3>1, MarkFine
    <3> QED  BY <2>1, <3>2 DEF RemoveEmptyEnums
  <2>2. CASE ~ IsEmptyEnum(t)
    BY <1>4, <2>2 DEF RemoveEmptyEnums
  <2> QED  BY <2>1, <2>2
<1> QED  BY <1>1, <1>2, <1>3, <1>4, <1>5, ReplaceTyped

LEMMA RemoveDuplicateUnionVariantsTyped ==
  ASSUME TInv, RemoveDuplicateUnionVariants
  PROVE  TInv'
<1> DEFINE t == types[at]
<1>1. Shape'
  BY NewShape DEF Next
<1>2. /\ at \in DOMAIN types /\ input' = input /\ members' = members /\ pass' = pass
      /\ local' = local /\ outcome' = outcome /\ enumOnly' = enumOnly /\ canonical' = canonical
      /\ changed' = changed /\ walk' = walk /\ Pipeline[pass] = "removeDuplicateUnionVariants"
      /\ typedefs' = typedefs
  BY DEF RemoveDuplicateUnionVariants, Within
<1>3. walk' = None
  BY <1>2, NoWalk
<1>4. TypesFine /\ Fine(t) /\ enumOnly \subseteq QName
      /\ canonical \subseteq QName /\ (changed => Pipeline[pass] = "removeDuplicates")
  BY <1>2 DEF TInv, Typed, TypesFine
<1>5. PICK u : Replace(u) /\ Fine(u)
  <2>1. CASE LiveUnion(t)
    <3>1. PICK kept : Replace([t EXCEPT !.union.members = AtPlaces(t.union.members, kept)])
      BY <2>1 DEF RemoveDuplicateUnionVariants, FirstOfEachKey
    <3>2. t.union.members \in Seq(QName) /\ t.union # None
      BY <1>4, <2>1 DEF Fine, MetaType, MetaUnion, LiveUnion
    <3>3. AtPlaces(t.union.members, kept) \in Seq(QName)
      BY <3>2, SelectionType
    <3>4. Fine([t EXCEPT !.union.members = AtPlaces(t.union.members, kept)])
      BY <1>4, <3>2, <3>3, MembersFine
    <3> QED  BY <3>1, <3>4
  <2>2. CASE ~ LiveUnion(t)
    BY <1>4, <2>2 DEF RemoveDuplicateUnionVariants
  <2> QED  BY <2>1, <2>2
<1> QED  BY <1>1, <1>2, <1>3, <1>4, <1>5, ReplaceTyped

LEMMA RemoveEmptyUnionsTyped ==
  ASSUME TInv, RemoveEmptyUnions
  PROVE  TInv'
<1> DEFINE t == types[at]
           one == LiveUnion(t) /\ Len(t.union.members) = 1
<1>1. Shape'
  BY NewShape DEF Next
<1>2. /\ at \in DOMAIN types /\ input' = input /\ members' = members /\ pass' = pass
      /\ local' = local /\ outcome' = outcome /\ enumOnly' = enumOnly /\ canonical' = canonical
      /\ changed' = changed /\ walk' = walk /\ Pipeline[pass] = "removeEmptyUnions"
  BY DEF RemoveEmptyUnions, Within
<1>3. walk' = None
  BY <1>2, NoWalk
<1>4. TypesFine /\ Fine(t) /\ enumOnly \subseteq QName
      /\ canonical \subseteq QName /\ (changed => Pipeline[pass] = "removeDuplicates")
  BY <1>2 DEF TInv, Typed, TypesFine
<1>5. PICK u : Replace(u) /\ Fine(u) /\ (typedefs' = typedefs \/ typedefs' = None)
  <2>1. CASE one
    <3>1. t.union.members \in Seq(QName) /\ t.kind # "element"
      BY <1>4, <2>1 DEF Fine, MetaType, MetaUnion, LiveUnion
    <3>2. t.union.members[1] \in QName
      BY <2>1, <3>1
    <3>3. Fine(MarkDuplicate(t, t.union.members[1]))
      BY <1>4, <3>1, <3>2, MarkFine
    <3> QED  BY <2>1, <3>3 DEF RemoveEmptyUnions
  <2>2. CASE ~ one
    BY <1>4, <2>2 DEF RemoveEmptyUnions
  <2> QED  BY <2>1, <2>2
<1> QED  BY <1>1, <1>2, <1>3, <1>4, <1>5, ReplaceTyped

LEMMA ResolveTypedefsTyped ==
  ASSUME TInv, ResolveTypedefs
  PROVE  TInv'
<1>1. Shape'
  BY NewShape DEF Next
<1>2. /\ at \in DOMAIN types /\ input' = input /\ members' = members /\ pass' = pass
      /\ local' = local /\ outcome' = outcome /\ enumOnly' = enumOnly /\ canonical' = canonical
      /\ changed' = changed /\ walk' = walk /\ Pipeline[pass] = "resolveTypedefs"
      /\ typedefs' = typedefs /\ Replace(Resolved(types[at]))
  BY DEF ResolveTypedefs, Within
<1>3. walk' = None
  BY <1>2, NoWalk
<1>4. GoodMap(local) /\ TypesFine /\ Fine(types[at]) /\ enumOnly \subseteq QName
      /\ canonical \subseteq QName /\ (changed => Pipeline[pass] = "removeDuplicates")
  BY <1>2, TypedIndices DEF TInv, PassInv, Typed, TypesFine
<1>5. Fine(Resolved(types[at]))
  BY <1>4, ResolvedFine
<1> QED  BY <1>1, <1>2, <1>3, <1>4, <1>5, ReplaceTyped

LEMMA RemoveDuplicatesTyped ==
  ASSUME TInv, RemoveDuplicates
  PROVE  TInv'
<1> DEFINE t == types[at]
<1>1. Shape'
  BY NewShape DEF Next
<1>2. /\ at \in DOMAIN types /\ input' = input /\ members' = members /\ pass' = pass
      /\ local' = local /\ outcome' = outcome /\ enumOnly' = enumOnly
      /\ walk' = walk /\ Pipeline[pass] = "removeDuplicates"
      /\ typedefs' = typedefs
  BY DEF RemoveDuplicates, Within
<1>3. walk' = None
  BY <1>2, NoWalk
<1>4. TypesFine /\ Fine(t) /\ enumOnly \subseteq QName /\ canonical \subseteq QName
  BY <1>2 DEF TInv, Typed, TypesFine
<1>5. t.key \in QName
  BY <1>4 DEF Fine, MetaType
<1>6. canonical' \subseteq QName
  BY <1>4, <1>5 DEF RemoveDuplicates
<1>7. PICK u : Replace(u) /\ Fine(u)
  <2>1. CASE Replace(t)
    BY <1>4, <2>1
  <2>2. CASE IsDuplicateCandidate(t) /\ \E k \in EqualCanonicals : Replace(MarkDuplicate(t, k))
    <3>1. PICK k \in EqualCanonicals : Replace(MarkDuplicate(t, k))
      BY <2>2
    <3>2. k \in QName /\ t.kind # "element"
      BY <1>4, <2>2 DEF EqualCanonicals, IsDuplicateCandidate
    <3>3. Fine(MarkDuplicate(t, k))
      BY <1>4, <3>2, MarkFine
    <3> QED  BY <3>1, <3>3
  <2> QED  BY <2>1, <2>2 DEF RemoveDuplicates
<1> QED  BY <1>1, <1>2, <1>3, <1>4, <1>6, <1>7, ReplaceTyped

(* A step that leaves the types alone. *)
LEMMA SameTypes ==
  ASSUME TInv, UNCHANGED <<input, types>>
  PROVE  TypesFine' /\ Len(types') = Len(types) /\ Names' = Names /\ Shape'
BY DEF TInv, Typed, TypesFine, Fine, Names, Shape

LEMMA PassesTyped ==
  ASSUME TInv, SkipPass \/ EnterPass \/ LeavePass \/ AnotherRound \/ Finish
  PROVE  TInv'
<1>1. UNCHANGED <<input, types>>
  BY DEF SkipPass, EnterPass, LeavePass, AnotherRound, Finish
<1>2. TypesFine' /\ Len(types') = Len(types) /\ Names' = Names /\ Shape'
  BY <1>1, SameTypes
<1>3. Len(types) \in Nat /\ DOMAIN types = 1..Len(types) /\ Len(Pipeline) = 14
  BY TypedIndices DEF TInv, Pipeline
<1>4. \A map : GoodMap(map) => (DOMAIN map \subseteq Names' /\ \A q \in DOMAIN map : map[q] \in QName)
  BY <1>2 DEF GoodMap
<1>5. CASE SkipPass
  <2>1. at = 0 /\ at' = 0 /\ pass' = pass + 1 /\ pass <= 14 /\ ~ changed /\ walk = None
        /\ walk' = walk
    BY <1>3, <1>5 DEF SkipPass, Between, TInv, Typed, WalkInv
  <2>2. Typed'
    BY <1>1, <1>2, <1>3, <1>4, <1>5, <2>1 DEF SkipPass, TInv, Typed, GoodMap
  <2> QED  BY <1>2, <2>1, <2>2 DEF TInv, PassInv, WalkInv
<1>6. CASE EnterPass
  <2>1. at = 0 /\ at' = 1 /\ pass' = pass /\ pass <= 14 /\ Enabled(Pipeline[pass]) /\ walk = None
        /\ walk' = walk /\ changed' = FALSE /\ canonical' = {}
    BY <1>3, <1>6 DEF EnterPass, Between, TInv, WalkInv
  <2>2. GoodMap(GetTypedefs) /\ GoodMap(BuildTypedefMap(types))
    BY GetTypedefsGood, TypedefMapGood DEF TInv, Typed
  <2>3. /\ typedefs' = GetTypedefs \/ typedefs' = typedefs
        /\ local' = GetTypedefs \/ local' = BuildTypedefMap(types) \/ local' = local
        /\ Pipeline[pass] \in {"useUnrestrictedBaseType", "removeDuplicateUnionVariants",
                               "resolveTypedefs"} =>
             local' = GetTypedefs \/ local' = BuildTypedefMap(types)
    <3> HIDE DEF GetTypedefs, BuildTypedefMap
    <3> QED  BY <1>6 DEF EnterPass
  <2>4. Typed'
    BY <1>1, <1>2, <1>3, <1>4, <1>6, <2>1, <2>2, <2>3 DEF EnterPass, TInv, Typed, GoodMap
  <2>5. PassInv'
    BY <1>2, <1>3, <1>4, <2>1, <2>2, <2>3 DEF PassInv, GoodMap, Enabled
  <2> QED  BY <1>2, <2>1, <2>4, <2>5 DEF TInv, WalkInv
<1>7. CASE LeavePass
  <2>1. at > Len(types) /\ at' = 0 /\ pass' = pass + 1 /\ ~ changed /\ changed' = changed
        /\ walk' = walk
    BY <1>7 DEF LeavePass
  <2>2. walk = None /\ pass <= 14 /\ pass \in Nat
    BY <1>3, <2>1 DEF TInv, Typed, WalkInv, PassInv
  <2>3. members' \in Seq(QName)
    <3>1. CASE Pipeline[pass] = "resolveTypedefs"
      <4>1. GoodMap(local)
        BY <1>3, <2>1, <3>1 DEF TInv, Typed, PassInv
      <4>2. \A q \in QName : ResolveQName(local, q) \in QName
        BY <4>1, EndIn DEF ResolveQName, GoodMap, TypesFine, TInv, Typed
      <4>3. members \in Seq(QName)
        BY DEF TInv, Typed
      <4>4. members' = [i \in DOMAIN members |-> ResolveQName(local, members[i])]
        BY <1>7, <3>1 DEF LeavePass
      <4> QED  BY <4>2, <4>3, <4>4
    <3>2. CASE Pipeline[pass] # "resolveTypedefs"
      BY <1>7, <3>2 DEF LeavePass, TInv, Typed
    <3> QED  BY <3>1, <3>2
  <2>4. typedefs' = typedefs \/ typedefs' = None
    BY <1>7 DEF LeavePass
  <2>5. Typed'
    <3>1. /\ local' = local /\ enumOnly' = enumOnly /\ canonical' = canonical
          /\ outcome' = outcome /\ ~ changed'
      BY <1>7, <2>1 DEF LeavePass
    <3>2. pass' \in 1..(Len(Pipeline) + 1) /\ at' \in 0..(Len(types) + 1)
      BY <1>3, <2>1, <2>2
    <3>3. /\ typedefs' # None => GoodMap(typedefs)'
          /\ local' # None => GoodMap(local)'
      BY <1>4, <2>4, <3>1 DEF TInv, Typed, GoodMap
    <3> QED  BY <1>1, <1>2, <2>3, <3>1, <3>2, <3>3 DEF TInv, Typed
  <2> QED  BY <1>2, <2>1, <2>2, <2>5 DEF TInv, PassInv, WalkInv
<1>8. CASE AnotherRound
  <2>1. at' = 1 /\ pass' = pass /\ walk' = walk /\ changed' = FALSE /\ canonical' = {} /\ at # 0
        /\ local' = local /\ walk = None
    BY <1>3, <1>8 DEF AnotherRound, TInv, WalkInv, Typed
  <2>2. Typed'
    BY <1>1, <1>2, <1>3, <1>4, <1>8, <2>1 DEF AnotherRound, TInv, Typed, GoodMap
  <2>3. PassInv'
    BY <1>4, <2>1 DEF TInv, PassInv, GoodMap, Enabled
  <2> QED  BY <1>2, <2>1, <2>2, <2>3 DEF TInv, WalkInv
<1>9. CASE Finish
  <2>1. at' = at /\ pass' = pass /\ walk' = walk /\ local' = local /\ pass > 14 /\ outcome' = "done"
    BY <1>3, <1>9 DEF Finish
  <2>2. at = 0 /\ walk = None
    BY <1>3, <2>1 DEF TInv, PassInv, WalkInv, Typed
  <2>3. Typed'
    BY <1>1, <1>2, <1>3, <1>4, <1>9, <2>1 DEF Finish, TInv, Typed, GoodMap
  <2> QED  BY <1>2, <2>1, <2>2, <2>3 DEF TInv, PassInv, WalkInv
<1> QED  BY <1>5, <1>6, <1>7, <1>8, <1>9

(* A step of a walk that changes nothing but where the walk is. *)
LEMMA WalkTyped ==
  ASSUME TInv, UNCHANGED <<input, types, members, pass, at, local, enumOnly, canonical, changed>>,
         outcome' \in {"running", "overflow"}, typedefs' = typedefs, WalkInv'
  PROVE  TInv'
<1>1. TypesFine' /\ Len(types') = Len(types) /\ Names' = Names /\ Shape'
  BY SameTypes
<1>2. Typed'
  BY <1>1 DEF TInv, Typed, GoodMap
<1>3. PassInv'
  BY <1>1 DEF TInv, PassInv, GoodMap, Enabled
<1> QED  BY <1>1, <1>2, <1>3 DEF TInv

LEMMA CallsTyped ==
  ASSUME NEW names \in Seq(QName), NEW depth \in Nat
  PROVE  Calls(names, depth) \in Seq(Call)
<1>1. Len(names) \in Nat /\ DOMAIN names = 1..Len(names) /\ \A i \in DOMAIN names : names[i] \in QName
  OBVIOUS
<1>2. PICK L \in Nat : L = Len(names)
  BY <1>1
<1>3. \A f : f \in [1..L -> Call] => f \in Seq(Call)
  OBVIOUS
<1>4. Calls(names, depth) \in [1..L -> Call]
  BY <1>1, <1>2 DEF Calls, Call
<1> QED  BY <1>3, <1>4

LEMMA Walks ==
  ASSUME TInv, Walking
  PROVE  /\ walk # None /\ WalkInv /\ at \in DOMAIN types
         /\ LiveUnion(types[at]) /\ GoodMap(typedefs)
         /\ DOMAIN walk = {"todo", "facets", "leaves", "keys"}
         /\ walk.todo \in Seq(Call) /\ walk.facets \in Seq(Facet) /\ walk.leaves \in Seq(QName)
         /\ Head(walk.todo) \in Call /\ Tail(walk.todo) \in Seq(Call)
         /\ Visited \in QName
         /\ VisitedType # None => \E i \in DOMAIN types : types[i].key = Visited /\ VisitedType = types[i]
<1>1. /\ walk # None /\ WalkInv /\ at \in DOMAIN types
      /\ LiveUnion(types[at]) /\ GoodMap(typedefs)
      /\ DOMAIN walk = {"todo", "facets", "leaves", "keys"}
      /\ walk.todo \in Seq(Call) /\ walk.facets \in Seq(Facet) /\ walk.leaves \in Seq(QName)
      /\ walk.todo # << >>
  BY DEF TInv, WalkInv, Walking
<1>2. Head(walk.todo) \in Call /\ Tail(walk.todo) \in Seq(Call)
  BY <1>1
<1>3. TypesFine
  BY DEF TInv, Typed
<1>4. Visited \in QName
  <2>1. Head(walk.todo).name \in QName
    BY <1>2 DEF Call
  <2> QED  BY <1>1, <1>3, <2>1, EndIn DEF Visited, ResolveQName, GoodMap, TypesFine
<1>5. VisitedType # None => \E i \in DOMAIN types : types[i].key = Visited /\ VisitedType = types[i]
  BY <1>3, Found DEF VisitedType, TypesFine
<1> QED  BY <1>1, <1>2, <1>4, <1>5

LEMMA StartWalkTyped ==
  ASSUME TInv, StartWalk
  PROVE  TInv'
<1>1. /\ UNCHANGED <<input, types, members, pass, at, local, enumOnly, canonical, changed, outcome>>
      /\ outcome = "running" /\ at \in DOMAIN types
      /\ Pipeline[pass] \in {"flattenUnions", "mergeEnumUnions"}
      /\ LiveUnion(types[at]) /\ typedefs' = GetTypedefs
      /\ walk' = [todo |-> Calls(types[at].union.members, 1),
                  facets |-> << >>, leaves |-> << >>, keys |-> {}]
  BY DEF StartWalk, Within
<1>2. TypesFine' /\ Len(types') = Len(types) /\ Names' = Names /\ Shape'
  BY <1>1, SameTypes
<1>3. GoodMap(GetTypedefs)
  BY GetTypedefsGood DEF TInv
<1>4. GoodMap(typedefs)'
  BY <1>1, <1>2, <1>3 DEF GoodMap
<1>5. types[at].union.members \in Seq(QName)
  BY <1>1 DEF TInv, Typed, TypesFine, Fine, MetaType, MetaUnion, LiveUnion
<1>6. Calls(types[at].union.members, 1) \in Seq(Call)
  BY <1>5, CallsTyped
<1>7. Typed'
  BY <1>1, <1>2, <1>4 DEF TInv, Typed, GoodMap
<1>8. PassInv'
  BY <1>1, <1>2 DEF TInv, PassInv, GoodMap, Enabled
<1>9. WalkInv'
  BY <1>1, <1>4, <1>6 DEF WalkInv, LiveUnion
<1> QED  BY <1>2, <1>7, <1>8, <1>9 DEF TInv

LEMMA SkipWalkTyped ==
  ASSUME TInv, SkipWalk
  PROVE  TInv'
<1>1. /\ UNCHANGED <<input, types, members, pass, local, typedefs, enumOnly, canonical, changed,
                     outcome, walk>>
      /\ walk = None /\ at \in DOMAIN types /\ at' = at + 1
  BY DEF SkipWalk, Within
<1>2. TypesFine' /\ Len(types') = Len(types) /\ Names' = Names /\ Shape'
  BY <1>1, SameTypes
<1>3. at \in 1..Len(types) /\ Len(types) \in Nat
  BY <1>1, TypedIndices DEF TInv
<1>4. at # 0 /\ at' # 0 /\ at' \in 0..(Len(types) + 1)
  BY <1>1, <1>3
<1>5. Typed'
  BY <1>1, <1>2, <1>4 DEF TInv, Typed, GoodMap
<1>6. PassInv'
  BY <1>1, <1>2, <1>4 DEF TInv, PassInv, GoodMap, Enabled
<1> QED  BY <1>1, <1>2, <1>5, <1>6 DEF TInv, WalkInv

LEMMA WalkStepTyped ==
  ASSUME TInv, Descend \/ FlattenLeaf \/ MergeLeaf
  PROVE  TInv'
<1>1. Walking
  BY DEF Descend, FlattenLeaf, MergeLeaf
<1>2. UNCHANGED <<input, types, members, pass, at, local, typedefs, enumOnly, canonical, changed,
                  outcome>>
  BY DEF Descend, FlattenLeaf, MergeLeaf
<1>3. outcome = "running"
  BY <1>1 DEF Walking, InWalk, Within
<1>4. /\ walk # None /\ WalkInv /\ at \in DOMAIN types
      /\ LiveUnion(types[at]) /\ GoodMap(typedefs)
      /\ DOMAIN walk = {"todo", "facets", "leaves", "keys"}
      /\ walk.todo \in Seq(Call) /\ walk.facets \in Seq(Facet) /\ walk.leaves \in Seq(QName)
      /\ Head(walk.todo) \in Call /\ Tail(walk.todo) \in Seq(Call)
      /\ Visited \in QName
      /\ VisitedType # None => \E i \in DOMAIN types : types[i].key = Visited /\ VisitedType = types[i]
  BY <1>1, Walks
<1>5. /\ DOMAIN walk' = {"todo", "facets", "leaves", "keys"}
      /\ walk'.todo \in Seq(Call) /\ walk'.facets \in Seq(Facet) /\ walk'.leaves \in Seq(QName)
  <2>1. CASE Descend
    <3>1. PICK below, depth : /\ below = IF IsDuplicate(VisitedType) THEN <<VisitedType.dup>>
                                         ELSE VisitedType.union.members
                              /\ depth = Head(walk.todo).depth + 1
                              /\ walk' = [walk EXCEPT !.todo = Calls(below, depth) \o Tail(walk.todo)]
      BY <2>1 DEF Descend
    <3>2. VisitedType # None /\ (VisitedType.dup # None \/ VisitedType.union # None)
      BY <2>1 DEF Descend, IsLeaf
    <3>3. PICK i \in DOMAIN types : VisitedType = types[i]
      BY <1>4, <3>2
    <3>4. Fine(types[i])
      BY DEF TInv, Typed, TypesFine
    <3>5. below \in Seq(QName)
      <4>1. types[i].dup # None => types[i].dup \in QName
        BY <3>4 DEF Fine, MetaType
      <4>2. types[i].union # None => types[i].union.members \in Seq(QName)
        BY <3>4 DEF Fine, MetaType, MetaUnion
      <4>3. IsDuplicate(VisitedType) <=> types[i].dup # None
        BY <3>2, <3>3 DEF IsDuplicate
      <4> QED  BY <3>1, <3>2, <3>3, <4>1, <4>2, <4>3
    <3>6. depth \in Nat
      BY <1>4, <3>1 DEF Call
    <3>7. Calls(below, depth) \in Seq(Call)
      BY <3>5, <3>6, CallsTyped
    <3>8. Calls(below, depth) \o Tail(walk.todo) \in Seq(Call)
      BY <1>4, <3>7
    <3> QED  BY <1>4, <3>1, <3>8
  <2>2. CASE FlattenLeaf
    BY <1>4, <2>2 DEF FlattenLeaf
  <2>3. CASE MergeLeaf
    <3>1. PICK leaves, keys : /\ leaves = walk.leaves \/ leaves = Append(walk.leaves, Visited)
                              /\ walk' = [walk EXCEPT !.todo = Tail(walk.todo), !.leaves = leaves, !.keys = keys]
      BY <2>3 DEF MergeLeaf
    <3>2. leaves \in Seq(QName)
      <4>1. walk.leaves \in Seq(QName) /\ Append(walk.leaves, Visited) \in Seq(QName)
        BY <1>4, AppendProperties
      <4> QED  BY <3>1, <4>1
    <3> QED  BY <1>4, <3>1, <3>2
  <2> QED  BY <2>1, <2>2, <2>3
<1>6. Names' = Names
  BY <1>2, SameTypes
<1>7. WalkInv'
  BY <1>2, <1>4, <1>5, <1>6 DEF WalkInv, LiveUnion, GoodMap
<1> QED  BY <1>2, <1>3, <1>7, WalkTyped

LEMMA OverflowTyped ==
  ASSUME TInv, Overflow
  PROVE  TInv'
<1>1. UNCHANGED <<input, types, members, pass, at, local, typedefs, enumOnly, canonical, changed, walk>>
      /\ outcome' = "overflow"
  BY DEF Overflow
<1>2. Names' = Names
  BY <1>1, SameTypes
<1>3. WalkInv'
  BY <1>1, <1>2 DEF TInv, WalkInv, LiveUnion, GoodMap
<1> QED  BY <1>1, <1>3, WalkTyped

LEMMA MergeEnumTyped ==
  ASSUME TInv, MergeEnum
  PROVE  TInv'
<1>1. Walking /\ IsEnumLeaf
  BY DEF MergeEnum
<1>2. UNCHANGED <<input, members, pass, at, local, typedefs, enumOnly, canonical, changed, outcome>>
      /\ walk' = [walk EXCEPT !.todo = Tail(walk.todo),
                              !.facets = walk.facets \o VisitedType.alias.facets]
  BY DEF MergeEnum
<1>3. outcome = "running"
  BY <1>1 DEF Walking, InWalk, Within
<1>4. /\ walk # None /\ WalkInv /\ at \in DOMAIN types
      /\ LiveUnion(types[at]) /\ GoodMap(typedefs)
      /\ DOMAIN walk = {"todo", "facets", "leaves", "keys"}
      /\ walk.todo \in Seq(Call) /\ walk.facets \in Seq(Facet) /\ walk.leaves \in Seq(QName)
      /\ Head(walk.todo) \in Call /\ Tail(walk.todo) \in Seq(Call)
      /\ Visited \in QName
      /\ VisitedType # None => \E i \in DOMAIN types : types[i].key = Visited /\ VisitedType = types[i]
  BY <1>1, Walks
<1>5. /\ VisitedType # None /\ VisitedType.dup = None /\ VisitedType.alias # None
  BY <1>1 DEF IsEnumLeaf, IsLeaf, HasAlias
<1>6. PICK n \in DOMAIN types : types[n].key = Visited /\ VisitedType = types[n]
                                /\ \A j \in DOMAIN types : types[j].key = Visited => n <= j
  <2>1. DOMAIN types \subseteq Nat
    BY TypedIndices DEF TInv
  <2> QED  BY <1>5, <2>1, FoundFirst DEF VisitedType
<1>7. Fine(types[n]) /\ types[n].kind # "element"
  BY <1>5, <1>6 DEF TInv, Typed, TypesFine, Fine
<1>8. walk.facets \o VisitedType.alias.facets \in Seq(Facet)
  <2>1. VisitedType.alias.facets \in Seq(Facet)
    BY <1>5, <1>6, <1>7 DEF Fine, MetaType, MetaAlias
  <2> QED  BY <1>4, <2>1
<1>9. Shape'
  BY NewShape DEF Next
<1>10. types' = types \/ types' = [types EXCEPT ![n] = MarkDuplicate(types[n], types[at].key)]
  <2> DEFINE e == CHOOSE i \in DOMAIN types :
                    /\ types[i].key = Visited
                    /\ \A j \in 1..(i - 1) : types[j].key # Visited
  <2>1. Len(types) \in Nat /\ DOMAIN types = 1..Len(types)
    BY TypedIndices DEF TInv
  <2>2. \A j \in 1..(n - 1) : types[j].key # Visited
    <3> TAKE j \in 1..(n - 1)
    <3>1. j \in DOMAIN types /\ ~ (n <= j)
      BY <2>1
    <3> QED  BY <1>6, <3>1
  <2>3. /\ e \in DOMAIN types
        /\ types[e].key = Visited
        /\ \A j \in 1..(e - 1) : types[j].key # Visited
    <3> HIDE DEF Visited
    <3> QED  BY <1>6, <2>2
  <2>4. e = n
    <3> HIDE DEF e
    <3>1. n <= e
      BY <1>6, <2>3
    <3>2. ~ (n < e)
      <4> SUFFICES ASSUME n < e PROVE FALSE
        OBVIOUS
      <4>1. n \in 1..(e - 1)
        BY <2>1, <2>3
      <4> QED  BY <1>6, <2>3, <4>1
    <3> QED  BY <2>1, <2>3, <3>1, <3>2
  <2>5. types' = types \/ types' = [types EXCEPT ![e] = MarkDuplicate(types[e], types[at].key)]
    BY DEF MergeEnum
  <2> HIDE DEF e
  <2> QED  BY <2>4, <2>5
<1>11. /\ Len(types') = Len(types) /\ DOMAIN types' = DOMAIN types
       /\ TypesFine'
       /\ types'[at] = types[at]
  <2>1. CASE types' = types
    BY <2>1 DEF TInv, Typed, TypesFine, Fine
  <2>2. CASE types' # types
    <3>1. types' = [types EXCEPT ![n] = MarkDuplicate(types[n], types[at].key)]
      BY <1>10, <2>2
    <3>2. types[at].key \in QName
      BY <1>4 DEF TInv, Typed, TypesFine, Fine, MetaType
    <3>3. PICK u : u = MarkDuplicate(types[n], types[at].key) /\ Fine(u)
      BY <1>7, <3>2, MarkFine
    <3>4. types \in Seq(MetaType) /\ u \in MetaType
      BY <3>3 DEF TInv, Typed, TypesFine, Fine
    <3>5. types' = [types EXCEPT ![n] = u]
      BY <3>1, <3>3
    <3>6. types' \in Seq(MetaType) /\ Len(types') = Len(types) /\ DOMAIN types' = DOMAIN types
      BY <3>4, <3>5
    <3>7. \A i \in DOMAIN types : types'[i] = IF i = n THEN u ELSE types[i]
      BY <3>4, <3>5
    <3>8. \A i \in DOMAIN types' : Fine(types'[i])
      BY <3>3, <3>6, <3>7 DEF TInv, Typed, TypesFine
    <3>9. n # at
      <4>1. Visited # types[at].key
        BY <2>2 DEF MergeEnum
      <4> QED  BY <1>6, <4>1
    <3> QED  BY <1>4, <3>6, <3>7, <3>8, <3>9 DEF TypesFine, Fine
  <2> QED  BY <2>1, <2>2
<1>12. Names' = Names
  BY <1>2, <1>9, NamesStay DEF TInv
<1>13. Typed'
  BY <1>2, <1>11, <1>12 DEF TInv, Typed, GoodMap
<1>14. PassInv'
  BY <1>2, <1>12 DEF TInv, PassInv, GoodMap, Enabled
<1>15. WalkInv'
  <2>1. /\ DOMAIN walk' = {"todo", "facets", "leaves", "keys"}
        /\ walk'.todo \in Seq(Call) /\ walk'.facets \in Seq(Facet) /\ walk'.leaves \in Seq(QName)
    BY <1>2, <1>4, <1>8
  <2>2. LiveUnion(types'[at]) /\ at' = at /\ pass' = pass
    BY <1>2, <1>4, <1>11
  <2>3. GoodMap(typedefs)' /\ Pipeline[pass] \in {"flattenUnions", "mergeEnumUnions"}
    BY <1>2, <1>4, <1>12 DEF GoodMap, WalkInv
  <2> QED  BY <1>4, <1>11, <2>1, <2>2, <2>3 DEF WalkInv, LiveUnion
<1> QED  BY <1>9, <1>13, <1>14, <1>15 DEF TInv

LEMMA EndFlattenTyped ==
  ASSUME TInv, EndFlatten
  PROVE  TInv'
<1>1. Shape'
  BY NewShape DEF Next
<1>2. /\ at \in DOMAIN types /\ input' = input /\ members' = members /\ pass' = pass
      /\ local' = local /\ outcome' = outcome /\ enumOnly' = enumOnly /\ canonical' = canonical
      /\ changed' = changed /\ walk' = None /\ walk # None /\ typedefs' = typedefs
      /\ Replace([types[at] EXCEPT !.union.members = walk.leaves])
  BY DEF EndFlatten, WalkEnds, InWalk, Within
<1>3. Fine(types[at]) /\ enumOnly \subseteq QName
      /\ canonical \subseteq QName /\ (changed => Pipeline[pass] = "removeDuplicates")
      /\ types[at].union # None /\ walk.leaves \in Seq(QName)
  BY <1>2 DEF TInv, Typed, TypesFine, WalkInv, LiveUnion
<1>4. Fine([types[at] EXCEPT !.union.members = walk.leaves])
  BY <1>3, MembersFine
<1> QED  BY <1>1, <1>2, <1>3, <1>4, ReplaceTyped

LEMMA MergedBaseIn ==
  ASSUME TypesFine, NEW names \in Seq(QName)
  PROVE  MergedBase(names) \in QName
<1> DEFINE type(i) == FindMetaType(types, ResolveQName(typedefs, names[i]))
           aliases == {i \in DOMAIN names : HasAlias(type(i))}
           first == CHOOSE i \in aliases : \A j \in aliases : i <= j
<1>1. MergedBase(names) = IF aliases = {} THEN StringName ELSE type(first).alias.base
  BY DEF MergedBase
<1>2. CASE aliases = {}
  BY <1>1, <1>2, NameAssumption
<1>3. CASE aliases # {}
  <2>1. aliases \subseteq Nat
    OBVIOUS
  <2>2. \E i \in aliases : \A j \in aliases : i <= j
    <3> HIDE DEF aliases
    <3> QED  BY <1>3, <2>1, SmallestIndex
  <2>3. HasAlias(type(first))
    BY <2>2
  <2>4. \A q : HasAlias(FindMetaType(types, q)) => FindMetaType(types, q).alias.base \in QName
    <3> TAKE q
    <3> SUFFICES ASSUME HasAlias(FindMetaType(types, q))
                 PROVE  FindMetaType(types, q).alias.base \in QName
      OBVIOUS
    <3>1. PICK n \in DOMAIN types : FindMetaType(types, q) = types[n]
      BY Found DEF HasAlias, TypesFine
    <3> QED  BY <3>1 DEF HasAlias, TypesFine, Fine, MetaType, MetaAlias
  <2> HIDE DEF first
  <2> QED  BY <1>1, <1>3, <2>3, <2>4
<1> QED  BY <1>2, <1>3

LEMMA EndMergeTyped ==
  ASSUME TInv, EndMerge
  PROVE  TInv'
<1> DEFINE t == types[at]
<1>1. Shape'
  BY NewShape DEF Next
<1>2. /\ at \in DOMAIN types /\ input' = input /\ members' = members /\ pass' = pass
      /\ local' = local /\ outcome' = outcome /\ enumOnly' = enumOnly /\ canonical' = canonical
      /\ changed' = changed /\ walk' = None /\ walk # None /\ typedefs' = typedefs
      /\ Replace(Merged(t))
  BY DEF EndMerge, WalkEnds, InWalk, Within
<1>3. Fine(t) /\ enumOnly \subseteq QName
      /\ canonical \subseteq QName /\ (changed => Pipeline[pass] = "removeDuplicates")
      /\ t.union # None /\ walk.leaves \in Seq(QName) /\ walk.facets \in Seq(Facet)
      /\ t.kind # "element" /\ TypesFine
  BY <1>2 DEF TInv, Typed, TypesFine, WalkInv, LiveUnion
<1>4. t.union \in MetaUnion /\ t.union.members \in Seq(QName)
  BY <1>3 DEF Fine, MetaType, MetaUnion
<1>5. MergedBase(t.union.members) \in QName /\ StringName \in QName
  BY <1>3, <1>4, MergedBaseIn, NameAssumption
<1> DEFINE enum(base) == [ref |-> None, base |-> base, facets |-> walk.facets]
<1>6. \A base \in QName : enum(base) \in MetaAlias
  BY <1>3 DEF MetaAlias
<1> HIDE DEF enum
<1>7. Merged(t) \in {t, [t EXCEPT !.union = None, !.alias = enum(MergedBase(t.union.members))],
                     [t EXCEPT !.union.members = walk.leaves, !.alias = enum(StringName)]}
  BY DEF Merged, enum
<1>8. Fine([t EXCEPT !.union = None, !.alias = enum(MergedBase(t.union.members))])
  BY <1>3, <1>5, <1>6 DEF Fine, MetaType
<1>9. Fine([t EXCEPT !.union.members = walk.leaves, !.alias = enum(StringName)])
  <2>1. Fine([t EXCEPT !.union.members = walk.leaves])
    BY <1>3, MembersFine
  <2>2. PICK u : u = [t EXCEPT !.union.members = walk.leaves]
    OBVIOUS
  <2>3. [t EXCEPT !.union.members = walk.leaves, !.alias = enum(StringName)]
          = [u EXCEPT !.alias = enum(StringName)]
    BY <2>2
  <2>4. u.kind # "element"
    BY <1>3, <2>2 DEF Fine, MetaType
  <2>5. Fine([u EXCEPT !.alias = enum(StringName)])
    BY <1>5, <1>6, <2>1, <2>2, <2>4 DEF Fine, MetaType
  <2> QED  BY <2>3, <2>5
<1>10. Fine(Merged(t))
  BY <1>3, <1>7, <1>8, <1>9
<1> QED  BY <1>1, <1>2, <1>3, <1>10, ReplaceTyped

LEMMA NextTyped == TInv /\ [Next]_vars => TInv'
<1> SUFFICES ASSUME TInv, [Next]_vars PROVE TInv'
  OBVIOUS
<1>1. CASE UNCHANGED vars
  <2>1. TypesFine' /\ Len(types') = Len(types) /\ Names' = Names /\ Shape'
    BY <1>1, SameTypes DEF vars
  <2>2. Typed'
    BY <1>1, <2>1 DEF vars, TInv, Typed, GoodMap
  <2>3. PassInv'
    BY <1>1, <2>1 DEF vars, TInv, PassInv, GoodMap, Enabled
  <2>4. WalkInv'
    BY <1>1, <2>1 DEF vars, TInv, WalkInv, GoodMap, LiveUnion
  <2> QED  BY <2>1, <2>2, <2>3, <2>4 DEF TInv
<1> QED
  BY <1>1, PassesTyped, UseUnrestrictedBaseTyped, RemoveEmptyEnumVariantsTyped, RemoveEmptyEnumsTyped,
     RemoveDuplicateUnionVariantsTyped, RemoveEmptyUnionsTyped, ResolveTypedefsTyped,
     RemoveDuplicatesTyped, StartWalkTyped, SkipWalkTyped, WalkStepTyped, OverflowTyped,
     MergeEnumTyped, EndFlattenTyped, EndMergeTyped DEF Next

LEMMA TypedIsTypeOK == TInv => OptimizerTypeOK
<1> SUFFICES ASSUME TInv PROVE OptimizerTypeOK
  OBVIOUS
<1>1. \A map \in {typedefs, local} \ {None} :
        DOMAIN map \subseteq QName /\ \A q \in DOMAIN map : map[q] \in QName
  <2>1. Names \subseteq QName
    BY DEF TInv, Typed, TypesFine, Fine, MetaType, Names
  <2> QED  BY <2>1 DEF TInv, Typed, GoodMap
<1> QED  BY <1>1 DEF TInv, Typed, WalkInv, TypesFine, OptimizerTypeOK

(* Every pass keeps every variable in its type, for every list of types and  *)
(* whatever passes are enabled.                                               *)
THEOREM OptimizerTypes == Spec => []OptimizerTypeOK
BY InitTyped, NextTyped, TypedIsTypeOK, PTL DEF Spec

(* B[x] is what a type of the name x may refer to. *)
Transitive(B) == \A x \in QName : B[x] \subseteq QName /\ \A y \in B[x] : B[y] \subseteq B[x]

TypesBelow(B) == \A i \in DOMAIN types : RefersInto(types[i], B[types[i].key])

MapBelow(map, B) == \A q \in DOMAIN map : map[q] \in B[q]

WalkBelow(B) ==
  walk # None =>
    /\ MapBelow(typedefs, B)
    /\ \A i \in DOMAIN walk.todo : walk.todo[i].name \in B[types[at].key]
    /\ \A i \in DOMAIN walk.leaves : walk.leaves[i] \in B[types[at].key]

Resolving == at # 0 /\ Pipeline[pass] \in {"useUnrestrictedBaseType", "resolveTypedefs"}

(* The typedefs that are cached when removeDuplicates is entered are of no   *)
(* use to the passes after it but to compare members.                        *)
Bounded(B) ==
  /\ TypesBelow(B)
  /\ Resolving => MapBelow(local, B)
  /\ pass <= 8 /\ typedefs # None => MapBelow(typedefs, B)
  /\ WalkBelow(B)

(* While mergeEnumUnions merges, an enumeration becomes a duplicate of the    *)
(* union it was a member of, and no order of the names is left.               *)
NotMerging == "mergeEnumUnions" \notin Flags

LEMMA KeysAreNames ==
  ASSUME TypesFine
  PROVE  \A i \in DOMAIN types : types[i] \in MetaType /\ types[i].key \in QName
BY DEF TypesFine, Fine, MetaType

LEMMA ClosedBelow ==
  ASSUME TypesFine, NEW B, Transitive(B), TypesBelow(B), NEW map, MapBelow(map, B), NEW k \in QName
  PROVE  ClosedIn(B[k], map)
<1>1. \A x \in B[k] : x \in QName /\ B[x] \subseteq B[k]
  BY DEF Transitive
<1>2. \A x \in B[k] : x \in DOMAIN map => map[x] \in B[k]
  BY <1>1 DEF MapBelow
<1>3. ASSUME NEW i \in DOMAIN types, types[i].key \in B[k] PROVE RefersInto(types[i], B[k])
  <2>1. RefersInto(types[i], B[types[i].key])
    BY DEF TypesBelow
  <2>2. B[types[i].key] \subseteq B[k]
    BY <1>1, <1>3
  <2> QED  BY <2>1, <2>2 DEF RefersInto
<1> QED  BY <1>2, <1>3 DEF ClosedIn

LEMMA ResolvedBelow ==
  ASSUME TypesFine, NEW B, Transitive(B), NEW map, DOMAIN map \subseteq Names, MapBelow(map, B),
         NEW k \in QName, NEW q \in B[k]
  PROVE  ResolveQName(map, q) \in B[k]
<1>1. \A x \in B[k] : x \in DOMAIN map => map[x] \in B[k]
  BY DEF MapBelow, Transitive
<1> QED  BY <1>1, EndIn DEF ResolveQName, TypesFine

LEMMA TypedefsBelow ==
  ASSUME TypesFine, NEW B, TypesBelow(B)
  PROVE  MapBelow(BuildTypedefMap(types), B)
<1>1. PICK map : map = BuildTypedefMap(types)
  OBVIOUS
<1>2. \A q \in DOMAIN map : \E i \in DOMAIN types :
        IsTypedef(types[i]) /\ types[i].key = q /\ map[q] = TypedefTarget(types[i])
  BY <1>1, TypedefMap DEF TypesFine
<1>3. \A i \in DOMAIN types : IsTypedef(types[i]) => TypedefTarget(types[i]) \in B[types[i].key]
  BY DEF TypesBelow, RefersInto, IsTypedef, HasAlias, TypedefTarget
<1> QED  BY <1>1, <1>2, <1>3 DEF MapBelow

LEMMA MarkBelow ==
  ASSUME NEW t, Fine(t), NEW R, NEW q \in R
  PROVE  RefersInto(MarkDuplicate(t, q), R)
<1>1. DOMAIN t = Parts
  BY DEF Fine, MetaType, Parts
<1> QED  BY <1>1 DEF RefersInto, MarkDuplicate, Parts

(* A step that puts u in place of the type it is at. *)
LEMMA ReplaceBelow ==
  ASSUME TInv, NEW B, Bounded(B), StepKeeps, at \in DOMAIN types,
         NEW u, RefersInto(u, B[types[at].key]), Replace(u),
         pass' = pass, local' = local, typedefs' = typedefs \/ typedefs' = None, walk' = None
  PROVE  Bounded(B)'
<1>1. DOMAIN types' = DOMAIN types /\ \A i \in DOMAIN types : types'[i].key = types[i].key
  BY DEF StepKeeps, Keeps
<1>2. \A i \in DOMAIN types : types'[i] = IF i = at THEN u ELSE types[i]
  BY DEF Replace
<1>3. TypesBelow(B)'
  BY <1>1, <1>2 DEF TypesBelow, Bounded
<1>4. at # 0
  BY TypedIndices DEF TInv
<1> QED  BY <1>3, <1>4 DEF Bounded, Resolving, MapBelow, WalkBelow

LEMMA PassBelow ==
  ASSUME TInv, NEW B, Transitive(B), Bounded(B),
         \/ UseUnrestrictedBaseType \/ RemoveEmptyEnumVariants \/ RemoveEmptyEnums
         \/ RemoveDuplicateUnionVariants \/ RemoveEmptyUnions \/ ResolveTypedefs
  PROVE  Bounded(B)'
<1> DEFINE t == types[at]
           R == B[t.key]
<1>1. StepKeeps
  BY UseUnrestrictedBaseKeeps, RemoveEmptyEnumVariantsKeeps, RemoveEmptyEnumsKeeps,
     RemoveDuplicateUnionVariantsKeeps, RemoveEmptyUnionsKeeps, ResolveTypedefsKeeps DEF TInv
<1>2. /\ at \in DOMAIN types /\ pass' = pass /\ local' = local /\ walk' = walk
      /\ typedefs' = typedefs \/ typedefs' = None
      /\ Pipeline[pass] \notin {"flattenUnions", "mergeEnumUnions"}
  BY DEF UseUnrestrictedBaseType, RemoveEmptyEnumVariants, RemoveEmptyEnums, Within,
         RemoveDuplicateUnionVariants, RemoveEmptyUnions, ResolveTypedefs
<1>3. walk' = None
  BY <1>2, NoWalk
<1>4. TypesFine /\ Fine(t) /\ t \in MetaType /\ t.key \in QName /\ RefersInto(t, R) /\ at # 0
  BY <1>2, KeysAreNames, TypedIndices DEF TInv, Typed, TypesFine, Bounded, TypesBelow
<1> SUFFICES \E u : Replace(u) /\ RefersInto(u, R)
  BY <1>1, <1>2, <1>3, ReplaceBelow
<1>5. CASE UseUnrestrictedBaseType
  <2>1. CASE UnrestrictedBase(t) = None
    BY <1>4, <1>5, <2>1 DEF UseUnrestrictedBaseType
  <2>2. CASE UnrestrictedBase(t) # None
    <3>1. GoodMap(local) /\ MapBelow(local, B)
      BY <1>4, <1>5 DEF UseUnrestrictedBaseType, Within, TInv, PassInv, Bounded, Resolving
    <3>2. ClosedIn(R, local)
      BY <1>4, <3>1, ClosedBelow DEF Bounded
    <3>3. UnrestrictedBase(t) \in R
      BY <1>4, <2>2, <3>1, <3>2, UnrestrictedBaseIn DEF TypesFine, GoodMap
    <3>4. RefersInto(MarkDuplicate(t, UnrestrictedBase(t)), R)
      BY <1>4, <3>3, MarkBelow
    <3> QED  BY <1>5, <2>2, <3>4 DEF UseUnrestrictedBaseType
  <2> QED  BY <2>1, <2>2
<1>6. CASE RemoveEmptyEnumVariants
  <2>1. CASE t.kind = "simpleType" /\ t.alias # None
    <3>1. PICK f : Replace([t EXCEPT !.alias.facets = f])
      BY <1>6, <2>1 DEF RemoveEmptyEnumVariants
    <3>2. t.alias \in MetaAlias
      BY <1>4, <2>1 DEF MetaType
    <3>a. PICK a : a = [t.alias EXCEPT !.facets = f]
      OBVIOUS
    <3>3. a = [t.alias EXCEPT !.facets = f] /\ a.base = t.alias.base
      BY <3>2, <3>a DEF MetaAlias
    <3>4. Replace([t EXCEPT !.alias = a])
      BY <3>1, <3>3
    <3>5. RefersInto([t EXCEPT !.alias = a], R)
      BY <1>4, <2>1, <3>3 DEF RefersInto, MetaType
    <3> QED  BY <3>4, <3>5
  <2>2. CASE ~ (t.kind = "simpleType" /\ t.alias # None)
    BY <1>4, <1>6, <2>2 DEF RemoveEmptyEnumVariants
  <2> QED  BY <2>1, <2>2
<1>7. CASE RemoveEmptyEnums
  <2>1. CASE IsEmptyEnum(t)
    <3>1. t.alias.base \in R
      BY <1>4, <2>1 DEF IsEmptyEnum, RefersInto
    <3>2. RefersInto(MarkDuplicate(t, t.alias.base), R)
      BY <1>4, <3>1, MarkBelow
    <3> QED  BY <1>7, <2>1, <3>2 DEF RemoveEmptyEnums
  <2>2. CASE ~ IsEmptyEnum(t)
    BY <1>4, <1>7, <2>2 DEF RemoveEmptyEnums
  <2> QED  BY <2>1, <2>2
<1>8. CASE RemoveDuplicateUnionVariants
  <2>1. CASE LiveUnion(t)
    <3>1. PICK kept : Replace([t EXCEPT !.union.members = AtPlaces(t.union.members, kept)])
      BY <1>8, <2>1 DEF RemoveDuplicateUnionVariants, FirstOfEachKey
    <3>2. t.union \in MetaUnion /\ t.union.members \in Seq(QName) /\ t.union # None
      BY <1>4, <2>1 DEF MetaType, MetaUnion, LiveUnion
    <3>3. t.union.members \in Seq(R)
      <4>1. \A i \in DOMAIN t.union.members : t.union.members[i] \in R
        BY <1>4, <3>2 DEF RefersInto
      <4> HIDE DEF R
      <4>2. \A s \in Seq(QName) : (\A i \in DOMAIN s : s[i] \in R) => s \in Seq(R)
        BY ONLY TRUE
      <4> QED  BY <3>2, <4>1, <4>2
    <3>4. PICK names : names = AtPlaces(t.union.members, kept) /\ names \in Seq(R)
      <4> HIDE DEF R
      <4> QED  BY <3>3, SelectionType
    <3>5. \A i \in DOMAIN names : names[i] \in R
      BY <3>4
    <3>a. PICK x : x = [t.union EXCEPT !.members = names]
      OBVIOUS
    <3>6. x = [t.union EXCEPT !.members = names] /\ x.members = names
      BY <3>2, <3>a DEF MetaUnion
    <3>7. Replace([t EXCEPT !.union = x])
      BY <3>1, <3>4, <3>6
    <3>8. RefersInto([t EXCEPT !.union = x], R)
      <4> HIDE DEF R
      <4> QED  BY <1>4, <3>5, <3>6 DEF RefersInto, MetaType
    <3> QED  BY <3>7, <3>8
  <2>2. CASE ~ LiveUnion(t)
    BY <1>4, <1>8, <2>2 DEF RemoveDuplicateUnionVariants
  <2> QED  BY <2>1, <2>2
<1>9. CASE RemoveEmptyUnions
  <2>1. CASE LiveUnion(t) /\ Len(t.union.members) = 1
    <3>1. t.union.members \in Seq(QName) /\ t.union # None
      BY <1>4, <2>1 DEF MetaType, MetaUnion, LiveUnion
    <3>2. 1 \in DOMAIN t.union.members
      BY <2>1, <3>1
    <3>3. t.union.members[1] \in R
      BY <1>4, <3>1, <3>2 DEF RefersInto
    <3>4. RefersInto(MarkDuplicate(t, t.union.members[1]), R)
      BY <1>4, <3>3, MarkBelow
    <3> QED  BY <1>9, <2>1, <3>4 DEF RemoveEmptyUnions
  <2>2. CASE ~ (LiveUnion(t) /\ Len(t.union.members) = 1)
    BY <1>4, <1>9, <2>2 DEF RemoveEmptyUnions
  <2> QED  BY <2>1, <2>2
<1>10. CASE ResolveTypedefs
  <2>1. GoodMap(local) /\ MapBelow(local, B)
    BY <1>4, <1>10 DEF ResolveTypedefs, Within, TInv, PassInv, Bounded, Resolving
  <2>2. \A q \in R : ResolveQName(local, q) \in R
    BY <1>4, <2>1, ResolvedBelow DEF GoodMap
  <2>3. RefersInto(Resolved(t), R)
    <3> DEFINE to(q) == ResolveQName(local, q)
               names == t.union.members
               alias == [t.alias EXCEPT !.base = to(t.alias.base)]
               union == [t.union EXCEPT !.members = [i \in DOMAIN names |-> to(names[i])]]
    <3>1. PICK l, f : Resolved(t) =
            [t EXCEPT !.alias = IF t.alias = None THEN None ELSE alias, !.list = l,
                      !.union = IF t.union = None THEN None ELSE union, !.fields = f]
      BY DEF Resolved
    <3>2. PICK a : a = (IF t.alias = None THEN None ELSE alias)
      OBVIOUS
    <3>3. PICK x : x = (IF t.union = None THEN None ELSE union)
      OBVIOUS
    <3>4. Resolved(t) = [t EXCEPT !.alias = a, !.list = l, !.union = x, !.fields = f]
      BY <3>1, <3>2, <3>3
    <3>5. a # None => a.base \in R
      <4> SUFFICES ASSUME t.alias # None PROVE alias.base \in R
        BY <3>2
      <4>1. t.alias \in MetaAlias /\ t.alias.base \in R
        BY <1>4 DEF MetaType, RefersInto
      <4>2. alias.base = to(t.alias.base)
        BY <4>1 DEF MetaAlias
      <4> QED  BY <2>2, <4>1, <4>2
    <3>6. x # None => \A i \in DOMAIN x.members : x.members[i] \in R
      <4> SUFFICES ASSUME t.union # None PROVE \A i \in DOMAIN union.members : union.members[i] \in R
        BY <3>3
      <4>1. t.union \in MetaUnion /\ \A i \in DOMAIN names : names[i] \in R
        BY <1>4 DEF MetaType, RefersInto
      <4>2. union.members = [i \in DOMAIN names |-> to(names[i])]
        BY <4>1 DEF MetaUnion
      <4> QED  BY <2>2, <4>1, <4>2
    <3> HIDE DEF R
    <3> QED  BY <1>4, <3>4, <3>5, <3>6 DEF RefersInto, MetaType
  <2> QED  BY <1>10, <2>3 DEF ResolveTypedefs
<1> QED  BY <1>5, <1>6, <1>7, <1>8, <1>9, <1>10

LEMMA ControlBelow ==
  ASSUME TInv, NEW B, Transitive(B), Bounded(B),
         SkipPass \/ EnterPass \/ LeavePass \/ AnotherRound \/ Finish
  PROVE  Bounded(B)'
<1>1. UNCHANGED <<types, walk>>
  BY DEF SkipPass, EnterPass, LeavePass, AnotherRound, Finish
<1>2. TypesBelow(B)'
  BY <1>1 DEF Bounded, TypesBelow
<1>3. Len(types) \in Nat /\ DOMAIN types = 1..Len(types) /\ Len(Pipeline) = 14 /\ pass \in Nat
  BY TypedIndices DEF TInv, Pipeline, Typed
<1>4. walk = None
  BY <1>3 DEF SkipPass, EnterPass, LeavePass, AnotherRound, Finish, Between, TInv, WalkInv, PassInv
<1>5. WalkBelow(B)'
  BY <1>1, <1>4 DEF WalkBelow
<1>6. TypesFine /\ TypesBelow(B)
  BY DEF TInv, Typed, Bounded
<1>7. CASE EnterPass
  <2>1. pass' = pass
    BY <1>7 DEF EnterPass
  <2>2. MapBelow(BuildTypedefMap(types), B)
    BY <1>6, TypedefsBelow
  <2>3. pass <= 8 => MapBelow(GetTypedefs, B)
    BY <2>2 DEF GetTypedefs, Bounded
  <2>4. typedefs' = typedefs \/ typedefs' = GetTypedefs
    <3> HIDE DEF GetTypedefs
    <3> QED  BY <1>7 DEF EnterPass
  <2>5. pass <= 8 /\ typedefs' # None => MapBelow(typedefs', B)
    BY <2>3, <2>4 DEF Bounded
  <2>6. /\ Pipeline[pass] = "useUnrestrictedBaseType" => pass = 1 /\ local' = GetTypedefs
        /\ Pipeline[pass] = "resolveTypedefs" => local' = BuildTypedefMap(types)
    <3>1. pass \in 1..14
      BY <1>3, <1>7 DEF EnterPass, Between, TInv, Typed
    <3>2. Pipeline[pass] = "useUnrestrictedBaseType" => pass = 1
      BY <3>1 DEF Pipeline
    <3> HIDE DEF GetTypedefs, BuildTypedefMap
    <3> QED  BY <1>7, <3>2 DEF EnterPass
  <2>7. Pipeline[pass] \in {"useUnrestrictedBaseType", "resolveTypedefs"} => MapBelow(local', B)
    BY <1>3, <2>2, <2>3, <2>6
  <2> QED  BY <1>2, <1>5, <2>1, <2>5, <2>7 DEF Bounded, Resolving, MapBelow
<1>8. CASE SkipPass \/ LeavePass
  <2>1. at' = 0 /\ pass' = pass + 1 /\ (typedefs' = typedefs \/ typedefs' = None)
    BY <1>8 DEF SkipPass, LeavePass, Between
  <2> QED  BY <1>2, <1>3, <1>5, <2>1 DEF Bounded, Resolving, MapBelow
<1>9. CASE AnotherRound
  <2>1. pass' = pass /\ typedefs' = typedefs /\ Pipeline[pass] = "removeDuplicates"
    BY <1>9 DEF AnotherRound, TInv, Typed
  <2> QED  BY <1>2, <1>5, <2>1 DEF Bounded, Resolving, MapBelow
<1>10. CASE Finish
  <2>1. pass' = pass /\ typedefs' = typedefs /\ at' = at /\ local' = local
    BY <1>10 DEF Finish
  <2> QED  BY <1>2, <1>5, <2>1 DEF Bounded, Resolving, MapBelow
<1> QED  BY <1>7, <1>8, <1>9, <1>10

LEMMA OnlyFlattening ==
  ASSUME TInv, NotMerging
  PROVE  /\ ~ Within("mergeEnumUnions")
         /\ walk # None => Pipeline[pass] = "flattenUnions"
<1>1. ASSUME Pipeline[pass] = "mergeEnumUnions", at \in DOMAIN types PROVE FALSE
  <2>1. at # 0
    BY <1>1, TypedIndices DEF TInv
  <2>2. Enabled("mergeEnumUnions")
    BY <1>1, <2>1 DEF TInv, PassInv
  <2> QED  BY <2>2 DEF Enabled, NotMerging
<1> QED  BY <1>1 DEF Within, TInv, WalkInv

LEMMA NoMerges ==
  ASSUME TInv, NotMerging
  PROVE  ~ MergeEnum /\ ~ MergeLeaf /\ ~ EndMerge
<1>1. ASSUME Walking PROVE Pipeline[pass] # "mergeEnumUnions"
  BY <1>1, OnlyFlattening DEF Walking
<1>2. ~ EndMerge
  BY OnlyFlattening DEF EndMerge, WalkEnds, InWalk
<1> QED  BY <1>1, <1>2 DEF MergeEnum, MergeLeaf

LEMMA FlattenPass ==
  ASSUME pass \in 1..14, Pipeline[pass] = "flattenUnions"
  PROVE  pass = 4
BY DEF Pipeline

LEMMA StartBelow ==
  ASSUME TInv, NotMerging, NEW B, Transitive(B), Bounded(B), StartWalk
  PROVE  Bounded(B)'
<1>1. /\ types' = types /\ pass' = pass /\ at' = at /\ local' = local
      /\ at \in DOMAIN types /\ LiveUnion(types[at]) /\ typedefs' = GetTypedefs
      /\ walk' = [todo |-> Calls(types[at].union.members, 1),
                  facets |-> << >>, leaves |-> << >>, keys |-> {}]
      /\ Pipeline[pass] = "flattenUnions" /\ pass \in 1..14
  BY OnlyFlattening DEF StartWalk, Within, TInv, Typed, Pipeline
<1>2. pass = 4
  BY <1>1, FlattenPass
<1>3. TypesFine /\ TypesBelow(B)
  BY DEF TInv, Typed, Bounded
<1>4. MapBelow(GetTypedefs, B)
  BY <1>2, <1>3, TypedefsBelow DEF GetTypedefs, Bounded
<1>5. TypesBelow(B)'
  BY <1>1, <1>3 DEF TypesBelow
<1>6. MapBelow(typedefs, B)'
  BY <1>1, <1>4 DEF MapBelow
<1>7. types[at].union.members \in Seq(QName)
  BY <1>1, <1>3 DEF TypesFine, Fine, MetaType, MetaUnion, LiveUnion
<1>8. \A i \in DOMAIN walk'.todo : walk'.todo[i].name \in B[types[at].key]
  <2>1. walk'.todo = Calls(types[at].union.members, 1)
    BY <1>1
  <2>2. \A i \in DOMAIN types[at].union.members : types[at].union.members[i] \in B[types[at].key]
    BY <1>1, <1>3 DEF TypesBelow, RefersInto, LiveUnion
  <2> QED  BY <2>1, <2>2 DEF Calls
<1>9. walk'.leaves = << >>
  BY <1>1
<1>10. WalkBelow(B)'
  BY <1>1, <1>6, <1>8, <1>9 DEF WalkBelow
<1>11. ~ Resolving'
  BY <1>1 DEF Resolving
<1> QED  BY <1>5, <1>6, <1>10, <1>11 DEF Bounded

LEMMA WalkStepBelow ==
  ASSUME TInv, NotMerging, NEW B, Transitive(B), Bounded(B), Descend \/ FlattenLeaf
  PROVE  Bounded(B)'
<1> DEFINE k == types[at].key
<1>1. Walking
  BY DEF Descend, FlattenLeaf
<1>2. UNCHANGED <<types, pass, at, local, typedefs>>
  BY DEF Descend, FlattenLeaf
<1>3. /\ walk # None /\ at \in DOMAIN types
      /\ GoodMap(typedefs)
      /\ DOMAIN walk = {"todo", "facets", "leaves", "keys"}
      /\ walk.todo \in Seq(Call) /\ walk.leaves \in Seq(QName)
      /\ VisitedType # None => \E i \in DOMAIN types : types[i].key = Visited /\ VisitedType = types[i]
  BY <1>1, Walks
<1>4. walk.todo # << >>
  BY <1>1 DEF Walking
<1>5. /\ MapBelow(typedefs, B) /\ TypesBelow(B)
      /\ \A i \in DOMAIN walk.todo : walk.todo[i].name \in B[k]
      /\ \A i \in DOMAIN walk.leaves : walk.leaves[i] \in B[k]
  BY <1>3 DEF Bounded, WalkBelow
<1>6. k \in QName /\ TypesFine
  BY <1>3, KeysAreNames DEF TInv, Typed
<1>7. Head(walk.todo).name \in B[k]
  BY <1>3, <1>4, <1>5
<1>8. Visited \in B[k]
  BY <1>3, <1>5, <1>6, <1>7, ResolvedBelow DEF Visited, GoodMap
<1>9. TypesBelow(B)' /\ MapBelow(typedefs, B)'
  BY <1>2, <1>5 DEF TypesBelow, MapBelow
<1>10. /\ \A i \in DOMAIN walk'.todo : walk'.todo[i].name \in B[k]
       /\ \A i \in DOMAIN walk'.leaves : walk'.leaves[i] \in B[k]
  <2> DEFINE C == {c \in Call : c.name \in B[k]}
  <2>1. \A s \in Seq(Call) : (\A i \in DOMAIN s : s[i].name \in B[k]) <=> s \in Seq(C)
    BY ONLY TRUE
  <2>2. Tail(walk.todo) \in Seq(C)
    <3>1. walk.todo \in Seq(C)
      BY <1>3, <1>5, <2>1
    <3> HIDE DEF C
    <3> QED  BY <1>4, <3>1
  <2>3. CASE Descend
    <3>1. PICK below, depth : /\ below = IF IsDuplicate(VisitedType) THEN <<VisitedType.dup>>
                                         ELSE VisitedType.union.members
                              /\ depth = Head(walk.todo).depth + 1
                              /\ walk' = [walk EXCEPT !.todo = Calls(below, depth) \o Tail(walk.todo)]
      BY <2>3 DEF Descend
    <3>2. VisitedType # None /\ (VisitedType.dup # None \/ VisitedType.union # None)
      BY <2>3 DEF Descend, IsLeaf
    <3>3. PICK i \in DOMAIN types : VisitedType = types[i] /\ types[i].key = Visited
      BY <1>3, <3>2
    <3>4. RefersInto(types[i], B[Visited]) /\ B[Visited] \subseteq B[k] /\ B[k] \subseteq QName
      BY <1>5, <1>6, <1>8, <3>3 DEF TypesBelow, Transitive
    <3>5. Fine(types[i])
      BY <1>6 DEF TypesFine
    <3>6. below \in Seq(QName) /\ \A j \in DOMAIN below : below[j] \in B[k]
      <4>1. types[i].dup # None => types[i].dup \in QName /\ types[i].dup \in B[k]
        BY <3>4, <3>5 DEF Fine, MetaType, RefersInto
      <4>2. types[i].union # None =>
              /\ types[i].union.members \in Seq(QName)
              /\ \A j \in DOMAIN types[i].union.members : types[i].union.members[j] \in B[k]
        BY <3>4, <3>5 DEF Fine, MetaType, MetaUnion, RefersInto
      <4>3. IsDuplicate(VisitedType) <=> types[i].dup # None
        BY <3>2, <3>3 DEF IsDuplicate
      <4>4. CASE types[i].dup # None
        BY <3>1, <3>3, <4>1, <4>3, <4>4
      <4>5. CASE types[i].dup = None
        BY <3>1, <3>2, <3>3, <4>2, <4>3, <4>5
      <4> QED  BY <4>4, <4>5
    <3>7. depth \in Nat
      <4>1. Head(walk.todo) \in Call
        BY <1>3, <1>4
      <4> QED  BY <3>1, <4>1 DEF Call
    <3>8. Calls(below, depth) \in Seq(Call)
      BY <3>6, <3>7, CallsTyped
    <3>9. Calls(below, depth) \in Seq(C)
      <4>1. \A j \in DOMAIN Calls(below, depth) : Calls(below, depth)[j].name \in B[k]
        BY <3>6 DEF Calls
      <4> QED  BY <2>1, <3>8, <4>1
    <3>10. Calls(below, depth) \o Tail(walk.todo) \in Seq(C)
      <4> HIDE DEF C
      <4> QED  BY <2>2, <3>9
    <3>11. walk'.todo \in Seq(C) /\ walk'.leaves = walk.leaves
      <4> HIDE DEF C
      <4> QED  BY <1>3, <3>1, <3>10
    <3> QED  BY <1>5, <3>11
  <2>4. CASE FlattenLeaf
    <3>1. walk'.todo = Tail(walk.todo) /\ walk'.leaves = Append(walk.leaves, Visited)
      BY <1>3, <2>4 DEF FlattenLeaf
    <3>2. \A s \in Seq(QName) : (\A i \in DOMAIN s : s[i] \in B[k]) => s \in Seq(B[k])
      BY ONLY TRUE
    <3>3. walk.leaves \in Seq(B[k])
      BY <1>3, <1>5, <3>2
    <3>4. Append(walk.leaves, Visited) \in Seq(B[k])
      BY <1>8, <3>3, AppendProperties
    <3>5. \A i \in DOMAIN walk'.leaves : walk'.leaves[i] \in B[k]
      <4>1. \A X : \A s \in Seq(X) : \A i \in DOMAIN s : s[i] \in X
        BY ONLY TRUE
      <4> QED  BY <3>1, <3>4, <4>1
    <3>6. \A i \in DOMAIN walk'.todo : walk'.todo[i].name \in B[k]
      <4>1. \A s \in Seq(C) : \A i \in DOMAIN s : s[i] \in C
        BY ONLY TRUE
      <4> QED  BY <2>2, <3>1, <4>1
    <3> QED  BY <3>5, <3>6
  <2> QED  BY <2>3, <2>4
<1>11. WalkBelow(B)'
  BY <1>2, <1>9, <1>10 DEF WalkBelow
<1>12. Resolving' => Resolving
  BY <1>2 DEF Resolving
<1> QED  BY <1>2, <1>9, <1>11, <1>12 DEF Bounded, MapBelow

LEMMA EndFlattenBelow ==
  ASSUME TInv, NEW B, Transitive(B), Bounded(B), EndFlatten
  PROVE  Bounded(B)'
<1> DEFINE t == types[at]
           R == B[t.key]
<1>1. /\ at \in DOMAIN types /\ pass' = pass /\ local' = local /\ typedefs' = typedefs
      /\ walk # None /\ walk' = None /\ Replace([t EXCEPT !.union.members = walk.leaves])
  BY DEF EndFlatten, WalkEnds, InWalk, Within
<1>2. StepKeeps
  BY EndFlattenKeeps DEF TInv
<1>3. t \in MetaType /\ RefersInto(t, R) /\ t.union # None
      /\ \A i \in DOMAIN walk.leaves : walk.leaves[i] \in R
  BY <1>1, KeysAreNames DEF TInv, Typed, Bounded, TypesBelow, WalkBelow, WalkInv, LiveUnion
<1>4. PICK x : x = [t.union EXCEPT !.members = walk.leaves]
  OBVIOUS
<1>5. x.members = walk.leaves
  BY <1>3, <1>4 DEF MetaType, MetaUnion
<1>6. Replace([t EXCEPT !.union = x])
  BY <1>1, <1>4
<1>7. RefersInto([t EXCEPT !.union = x], R)
  <2> HIDE DEF R
  <2> QED  BY <1>3, <1>5 DEF RefersInto, MetaType
<1> QED  BY <1>1, <1>2, <1>6, <1>7, ReplaceBelow

LEMMA NextBelow ==
  ASSUME TInv, NotMerging, NEW B, Transitive(B), Bounded(B), [Next]_vars
  PROVE  Bounded(B)' \/ RemoveDuplicates
<1>1. CASE SkipWalk
  <2>1. UNCHANGED <<types, pass, local, typedefs, walk>> /\ walk = None
        /\ Pipeline[pass] \in {"flattenUnions", "mergeEnumUnions"}
    BY <1>1 DEF SkipWalk, Within
  <2> QED  BY <2>1 DEF Bounded, TypesBelow, MapBelow, WalkBelow, Resolving
<1>2. CASE Overflow \/ UNCHANGED vars
  <2>1. UNCHANGED <<types, pass, at, local, typedefs, walk>>
    BY <1>2 DEF Overflow, vars
  <2> QED  BY <2>1 DEF Bounded, TypesBelow, MapBelow, WalkBelow, Resolving
<1> QED  BY <1>1, <1>2, ControlBelow, PassBelow, StartBelow, WalkStepBelow, EndFlattenBelow, NoMerges
         DEF Next

Declared == DeclaredNames(types)

(* The declared names of a lower rank. *)
Lower(rank) == [x \in QName |-> {y \in Declared : rank[y] < rank[x]}]

LEMMA DeclaredAreNames ==
  ASSUME TypesFine
  PROVE  Declared \subseteq QName
BY KeysAreNames, NameAssumption DEF Declared, DeclaredNames

LEMMA DeclaredStays ==
  ASSUME Shape, Shape', input' = input
  PROVE  Declared' = Declared
BY DEF Shape, Declared, DeclaredNames

LEMMA LowerIsTransitive ==
  ASSUME TypesFine, NEW rank \in [QName -> Nat]
  PROVE  Transitive(Lower(rank))
<1>1. Declared \subseteq QName
  BY DeclaredAreNames
<1>2. ASSUME NEW x \in QName, NEW y \in Lower(rank)[x], NEW z \in Lower(rank)[y]
      PROVE  z \in Lower(rank)[x]
  <2>1. y \in Declared /\ y \in QName /\ rank[y] < rank[x]
    BY <1>1 DEF Lower
  <2>2. z \in Declared /\ z \in QName /\ rank[z] < rank[y]
    BY <1>1, <2>1 DEF Lower
  <2>3. rank[x] \in Nat /\ rank[y] \in Nat /\ rank[z] \in Nat
    BY <2>1, <2>2
  <2> QED  BY <2>1, <2>2, <2>3 DEF Lower
<1>3. \A x \in QName : Lower(rank)[x] \subseteq QName
  BY <1>1 DEF Lower
<1> QED  BY <1>2, <1>3 DEF Transitive

(* What is canonical is no duplicate. *)
LiveInv ==
  InRound => \A i \in DOMAIN types : IsType(i) /\ types[i].key \in canonical => types[i].dup = None

LEMMA NotYetCanonical ==
  ASSUME UniqueTypeNames, Shape, RoundInv, RemoveDuplicates, IsType(at)
  PROVE  types[at].key \notin canonical
<1>1. SUFFICES ASSUME types[at].key \in canonical PROVE FALSE
  OBVIOUS
<1>2. CanonicalsKnown /\ at \in Nat
  BY WithinRound, Indices DEF RemoveDuplicates, RoundInv, Within
<1>3. PICK i \in DOMAIN types : Canonical(i) /\ types[i].key = types[at].key
  BY <1>1, <1>2 DEF CanonicalsKnown
<1>4. i = at
  BY <1>3, TypeNamesUnique DEF Canonical
<1> QED  BY <1>2, <1>3, <1>4 DEF Canonical

LEMMA NextLive ==
  ASSUME UniqueTypeNames, TInv, RoundInv, LiveInv, [Next]_vars
  PROVE  LiveInv'
<1>1. CASE RemoveDuplicates
  <2> DEFINE t == types[at]
  <2>1. Within("removeDuplicates") /\ InRound /\ at \in DOMAIN types
    BY <1>1, WithinRound DEF RemoveDuplicates, Within, TInv
  <2>2. /\ DOMAIN types' = DOMAIN types
        /\ \A i \in DOMAIN types : i # at => types'[i] = types[i]
        /\ \A i \in DOMAIN types : types'[i].kind = types[i].kind /\ types'[i].key = types[i].key
    <3>1. PICK u : Replace(u)
      BY <1>1 DEF RemoveDuplicates
    <3>2. StepKeeps
      BY <1>1, RemoveDuplicatesKeeps DEF TInv
    <3> QED  BY <3>1, <3>2 DEF Replace, StepKeeps, Keeps
  <2>3. \A i \in DOMAIN types : IsType(i)' <=> IsType(i)
    BY <2>2 DEF IsType
  <2>4. \A i \in DOMAIN types : IsType(i) /\ types[i].key \in canonical => types[i].dup = None
    BY <2>1 DEF LiveInv
  <2>5. IsType(at) => t.key \notin canonical
    BY <1>1, NotYetCanonical DEF TInv
  <2>6. CASE canonical' = canonical
    BY <2>2, <2>3, <2>4, <2>5, <2>6 DEF LiveInv, IsType
  <2>7. CASE IsDuplicateCandidate(t) /\ canonical' = canonical \cup {t.key} /\ Replace(t)
    <3>1. \A i \in DOMAIN types : types'[i] = types[i]
      BY <2>7, <2>2 DEF Replace
    <3>2. IsType(at) /\ t.dup = None
      BY <2>1, <2>7 DEF IsType, IsDuplicateCandidate
    <3>3. \A i \in DOMAIN types : IsType(i) /\ types[i].key = t.key => i = at
      BY <3>2, TypeNamesUnique DEF TInv
    <3> QED  BY <2>2, <2>3, <2>4, <2>7, <3>1, <3>2, <3>3 DEF LiveInv
  <2> QED  BY <1>1, <2>6, <2>7 DEF RemoveDuplicates
<1>2. CASE EnterPass \/ AnotherRound
  BY <1>2 DEF EnterPass, AnotherRound, LiveInv
<1>3. CASE SkipPass \/ LeavePass \/ Finish \/ Overflow
  BY <1>3 DEF SkipPass, Between, LeavePass, Finish, Overflow, LiveInv, InRound
<1>4. CASE UNCHANGED vars
  BY <1>4 DEF vars, LiveInv, InRound, IsType
<1>5. CASE \/ UseUnrestrictedBaseType \/ RemoveEmptyEnumVariants \/ RemoveEmptyEnums
           \/ RemoveDuplicateUnionVariants \/ RemoveEmptyUnions \/ ResolveTypedefs
  <2>1. Pipeline[pass] # "removeDuplicates" /\ pass' = pass
    BY <1>5 DEF UseUnrestrictedBaseType, RemoveEmptyEnumVariants, RemoveEmptyEnums, Within,
                RemoveDuplicateUnionVariants, RemoveEmptyUnions, ResolveTypedefs
  <2> QED  BY <2>1 DEF LiveInv, InRound
<1>6. CASE \/ StartWalk \/ SkipWalk \/ Descend \/ FlattenLeaf \/ MergeEnum \/ MergeLeaf
           \/ EndFlatten \/ EndMerge
  <2>1. Pipeline[pass] # "removeDuplicates" /\ pass' = pass
    BY <1>6 DEF StartWalk, SkipWalk, Descend, FlattenLeaf, MergeEnum, MergeLeaf, EndFlatten,
                EndMerge, Walking, WalkEnds, InWalk, Within
  <2> QED  BY <2>1 DEF LiveInv, InRound
<1> QED  BY <1>1, <1>2, <1>3, <1>4, <1>5, <1>6 DEF Next

(* A new order of the names in which the duplicate of k ranks above k. *)
RankedAgain(rank, k, q) ==
  [x \in QName |-> IF x = k /\ rank[k] >= rank[q] THEN 2 * rank[q] ELSE 2 * rank[x] + 1]

LEMMA RanksAbove ==
  ASSUME NEW rank \in [QName -> Nat], NEW k \in QName, NEW q \in QName, k # q
  PROVE  /\ RankedAgain(rank, k, q) \in [QName -> Nat]
         /\ RankedAgain(rank, k, q)[k] < RankedAgain(rank, k, q)[q]
BY DEF RankedAgain

LEMMA RanksKept ==
  ASSUME NEW rank \in [QName -> Nat], NEW k \in QName, NEW q \in QName, k # q,
         NEW x \in QName, NEW y \in QName, rank[y] < rank[x], x = k => rank[y] < rank[q]
  PROVE  RankedAgain(rank, k, q)[y] < RankedAgain(rank, k, q)[x]
<1>1. rank[x] \in Nat /\ rank[y] \in Nat /\ rank[k] \in Nat /\ rank[q] \in Nat
  OBVIOUS
<1>2. CASE x = k /\ rank[k] >= rank[q]
  <2>1. y # k
    BY <1>1, <1>2
  <2> QED  BY <1>1, <1>2, <2>1 DEF RankedAgain
<1>3. CASE ~ (x = k /\ rank[k] >= rank[q])
  BY <1>1, <1>3 DEF RankedAgain
<1> QED  BY <1>2, <1>3

LEMMA RemoveDuplicatesBelow ==
  ASSUME UniqueTypeNames, TInv, RoundInv, LiveInv, RemoveDuplicates,
         NEW rank \in [QName -> Nat], Bounded(Lower(rank))
  PROVE  \E r \in [QName -> Nat] : Bounded(Lower(r))'
<1> DEFINE t == types[at]
<1>1. /\ at \in DOMAIN types /\ at # 0 /\ pass' = pass /\ Pipeline[pass] = "removeDuplicates"
      /\ walk' = walk /\ input' = input /\ InRound /\ pass \in 1..14
  <2>1. /\ at \in DOMAIN types /\ pass' = pass /\ Pipeline[pass] = "removeDuplicates"
        /\ walk' = walk /\ input' = input /\ Within("removeDuplicates") /\ pass <= Len(Pipeline)
    BY DEF RemoveDuplicates, Within
  <2>2. at # 0 /\ InRound
    BY <2>1, TypedIndices, WithinRound DEF TInv
  <2>3. Len(Pipeline) = 14
    BY DEF Pipeline
  <2>4. pass \in 1..14
    BY <2>1, <2>3 DEF TInv, Typed
  <2> QED  BY <2>1, <2>2, <2>4
<1>2. pass > 8
  BY <1>1 DEF Pipeline
<1>3. walk = None
  BY <1>1, NoWalk
<1>4. \A B : TypesBelow(B)' => Bounded(B)'
  BY <1>1, <1>2, <1>3 DEF Bounded, Resolving, WalkBelow
<1>5. Shape'
  BY NewShape DEF Next
<1>6. Declared' = Declared
  BY <1>1, <1>5, DeclaredStays DEF TInv
<1>7. \A r : Lower(r)' = Lower(r)
  BY <1>6 DEF Lower
<1>8. TypesFine /\ Fine(t) /\ t.key \in QName /\ Declared \subseteq QName
  BY <1>1, KeysAreNames, DeclaredAreNames DEF TInv, Typed, TypesFine
<1>9. \A i \in DOMAIN types : RefersInto(types[i], Lower(rank)[types[i].key])
  BY DEF Bounded, TypesBelow
<1>10. CASE Replace(t)
  <2>1. DOMAIN types' = DOMAIN types /\ \A i \in DOMAIN types : types'[i] = types[i]
    BY <1>10 DEF Replace
  <2>2. TypesBelow(Lower(rank))'
    BY <1>7, <1>9, <2>1 DEF TypesBelow
  <2> QED  BY <1>4, <2>2
<1>11. CASE IsDuplicateCandidate(t) /\ \E k \in EqualCanonicals : Replace(MarkDuplicate(t, k))
  <2>1. PICK k \in EqualCanonicals : Replace(MarkDuplicate(t, k))
    BY <1>11
  <2>2. k \in canonical /\ MetaTypesEqual(t, FindMetaType(types, k))
    BY <2>1 DEF EqualCanonicals
  <2>3. PICK n \in DOMAIN types : types[n].key = k /\ FindMetaType(types, k) = types[n]
    BY <1>8, <2>2, Found DEF MetaTypesEqual, TypesFine
  <2>4. /\ types[n].kind = t.kind /\ t.key # k /\ types[n].alias = t.alias
        /\ types[n].union = t.union
    BY <2>2, <2>3 DEF MetaTypesEqual
  <2>5. IsType(n) /\ IsType(at) /\ t.kind # "element"
    BY <1>1, <1>11, <2>3, <2>4 DEF IsType, IsDuplicateCandidate
  <2>6. types[n].dup = None
    BY <1>1, <2>2, <2>3, <2>5 DEF LiveInv
  <2>7. k \in Declared /\ k \in QName
    BY <1>8, <2>3, <2>5 DEF Declared, DeclaredNames, IsType
  <2>8. PICK r : r = RankedAgain(rank, k, t.key)
    OBVIOUS
  <2>9. r \in [QName -> Nat] /\ r[k] < r[t.key]
    BY <1>8, <2>4, <2>7, <2>8, RanksAbove
  <2>10. /\ DOMAIN types' = DOMAIN types
         /\ \A i \in DOMAIN types : types'[i] = IF i = at THEN MarkDuplicate(t, k) ELSE types[i]
         /\ MarkDuplicate(t, k).key = t.key
    <3>1. DOMAIN t = Parts
      BY <1>8 DEF Fine, MetaType, Parts
    <3> QED  BY <2>1, <3>1 DEF Replace, MarkDuplicate, Parts
  <2>11. RefersInto(MarkDuplicate(t, k), Lower(r)[t.key])
    <3>1. k \in Lower(r)[t.key]
      BY <1>8, <2>7, <2>9 DEF Lower
    <3> QED  BY <1>8, <3>1, MarkBelow
  <2>12. ASSUME NEW i \in DOMAIN types, i # at
         PROVE  RefersInto(types[i], Lower(r)[types[i].key])
    <3> DEFINE x == types[i].key
    <3>1. x \in QName /\ Fine(types[i])
      BY <1>8, KeysAreNames DEF TypesFine
    <3>2. CASE types[i].kind = "element"
      BY <3>1, <3>2 DEF Fine, RefersInto
    <3>3. CASE types[i].kind # "element"
      <4>1. x = k => i = n
        BY <2>3, <2>5, <3>3, TypeNamesUnique DEF IsType, TInv
      <4>2. x = k => RefersInto(types[i], Lower(rank)[t.key])
        <5>1. RefersInto(t, Lower(rank)[t.key])
          BY <1>1, <1>9
        <5> QED  BY <2>4, <2>6, <4>1, <5>1 DEF RefersInto
      <4>3. \A y \in Lower(rank)[x] : (x = k => y \in Lower(rank)[t.key]) => y \in Lower(r)[x]
        <5> TAKE y \in Lower(rank)[x]
        <5> HAVE x = k => y \in Lower(rank)[t.key]
        <5>1. y \in Declared /\ y \in QName /\ rank[y] < rank[x] /\ (x = k => rank[y] < rank[t.key])
          BY <1>8, <3>1 DEF Lower
        <5>2. r[y] < r[x]
          BY <1>8, <2>4, <2>7, <2>8, <3>1, <5>1, RanksKept
        <5> QED  BY <3>1, <5>1, <5>2 DEF Lower
      <4>4. RefersInto(types[i], Lower(rank)[x])
        BY <1>9
      <4> QED  BY <4>2, <4>3, <4>4 DEF RefersInto
    <3> QED  BY <3>2, <3>3
  <2>13. TypesBelow(Lower(r))'
    <3>1. \A i \in DOMAIN types : RefersInto(types'[i], Lower(r)[types'[i].key])
      BY <2>10, <2>11, <2>12
    <3> QED  BY <1>7, <2>10, <3>1 DEF TypesBelow
  <2> QED  BY <1>4, <2>9, <2>13
<1> QED  BY <1>10, <1>11 DEF RemoveDuplicates

(* All that the variables refer to is declared and ranks below the name that  *)
(* refers to it: no chain of typedefs comes back.                             *)
Ranked == \E rank \in [QName -> Nat] : Bounded(Lower(rank))

EInv == TInv /\ RoundInv /\ LiveInv /\ Ranked

LEMMA InitRanked ==
  ASSUME NoCircles, Init
  PROVE  EInv
<1>1. TInv
  BY InitTyped
<1>2. RoundInv /\ LiveInv
  BY DEF Init, RoundInv, LiveInv, InRound
<1>3. types \in Inputs
  BY DEF Init
<1>4. PICK rank \in [QName -> Nat] : BasesRankLower(types, rank)
  BY <1>3 DEF NoCircles
<1>5. TypesFine
  BY <1>1 DEF TInv, Typed
<1>6. ASSUME NEW i \in DOMAIN types PROVE RefersInto(types[i], Lower(rank)[types[i].key])
  <2>1. types[i].key \in QName /\ types[i].dup = None /\ Declared \subseteq QName
    BY <1>3, <1>5, KeysAreNames, DeclaredAreNames, InputAssumption
  <2>2. \A q \in BasesOf(types[i]) : q \in Lower(rank)[types[i].key]
    BY <1>4, <2>1 DEF BasesRankLower, Lower, Declared
  <2>3. types[i].alias # None => types[i].alias.base \in BasesOf(types[i])
    BY DEF BasesOf
  <2>4. types[i].union # None =>
          \A j \in DOMAIN types[i].union.members : types[i].union.members[j] \in BasesOf(types[i])
    BY DEF BasesOf, Range
  <2> QED  BY <2>1, <2>2, <2>3, <2>4 DEF RefersInto
<1>7. Bounded(Lower(rank))
  <2>1. TypesBelow(Lower(rank))
    BY <1>6 DEF TypesBelow
  <2> QED  BY <2>1 DEF Init, Bounded, Resolving, WalkBelow
<1> QED  BY <1>1, <1>2, <1>7 DEF EInv, Ranked

LEMMA NextRanked ==
  ASSUME UniqueTypeNames, NotMerging, EInv, [Next]_vars
  PROVE  EInv'
<1>1. TInv'
  BY NextTyped DEF EInv
<1>2. RoundInv'
  BY NextRound DEF EInv, TInv, IInv
<1>3. LiveInv'
  BY NextLive DEF EInv
<1>4. PICK rank \in [QName -> Nat] : Bounded(Lower(rank))
  BY DEF EInv, Ranked
<1>5. Ranked'
  <2>1. CASE RemoveDuplicates
    BY <1>4, <2>1, RemoveDuplicatesBelow DEF EInv, Ranked
  <2>2. CASE ~ RemoveDuplicates
    <3>1. PICK B : B = Lower(rank)
      OBVIOUS
    <3>2. Transitive(B)
      BY <3>1, LowerIsTransitive DEF EInv, TInv, Typed
    <3>3. Bounded(B)
      BY <1>4, <3>1
    <3>4. Bounded(B)'
      BY <2>2, <3>2, <3>3, NextBelow DEF EInv
    <3>5. input' = input
      BY NextKeeps DEF StepKeeps, EInv, TInv
    <3>6. Declared' = Declared
      BY <1>1, <3>5, DeclaredStays DEF EInv, TInv
    <3>7. Lower(rank)' = B
      BY <3>1, <3>6 DEF Lower
    <3>8. Bounded(Lower(rank))'
      BY <3>4, <3>7 DEF Bounded, TypesBelow, MapBelow, WalkBelow
    <3> QED  BY <3>8 DEF Ranked
  <2> QED  BY <2>1, <2>2
<1> QED  BY <1>1, <1>2, <1>3, <1>5 DEF EInv

-----------------------------------------------------------------------------
(* A type of a name is found where elements are left out. *)
LEMMA TypeIsNamed ==
  ASSUME TypesFine, NEW q, q \in Declared, q \notin XSDNames
  PROVE  TypeNamed(types, q) # None
<1> DEFINE places == {i \in DOMAIN types : types[i].kind # "element"}
           ts == AtPlaces(types, places)
           hits == {i \in DOMAIN ts : ts[i].key = q}
           first == CHOOSE i \in hits : \A j \in hits : i <= j
<1>1. PICK n \in DOMAIN types : types[n].key = q /\ types[n].kind # "element"
  BY DEF Declared, DeclaredNames
<1>2. types \in Seq(MetaType)
  BY DEF TypesFine
<1>3. ts \in Seq(MetaType)
  <2> HIDE DEF places
  <2> QED  BY <1>2, SelectionType
<1>4. Range(ts) = {types[i] : i \in DOMAIN types \cap places}
  <2> HIDE DEF places
  <2> QED  BY <1>2, RangeOfSelection
<1>5. types[n] \in Range(ts)
  BY <1>1, <1>4
<1> HIDE DEF ts
<1>6. PICK m \in DOMAIN ts : ts[m] = types[n]
  BY <1>5 DEF Range
<1>7. hits # {} /\ hits \subseteq Nat
  BY <1>1, <1>3, <1>6
<1>8. first \in hits
  <2>1. \E i \in hits : \A j \in hits : i <= j
    <3> HIDE DEF hits
    <3> QED  BY <1>7, SmallestIndex
  <2> QED  BY <2>1
<1>9. TypeNamed(types, q) = ts[first]
  BY <1>7 DEF TypeNamed, FindMetaType, ts
<1>10. ts[first] \in MetaType
  BY <1>3, <1>8
<1> QED  BY <1>9, <1>10, NameAssumption

LEMMA RankedDuplicatesEnd == EInv => DuplicatesEnd
<1> SUFFICES ASSUME EInv PROVE DuplicatesEnd
  OBVIOUS
<1> DEFINE dups == {types[i].key : i \in {j \in DOMAIN types : types[j].dup # None}}
           target(q) == (CHOOSE t \in Range(types) : t.key = q /\ t.dup # None).dup
           next == [q \in dups |-> target(q)]
<1>1. TypesFine /\ types \in Seq(MetaType)
  BY DEF EInv, TInv, Typed, TypesFine
<1>2. PICK rank \in [QName -> Nat] : Bounded(Lower(rank))
  BY DEF EInv, Ranked
<1>3. DOMAIN next \subseteq Names
  BY DEF Names
<1>4. Declared \subseteq QName
  BY <1>1, DeclaredAreNames
<1>5. ASSUME NEW q \in DOMAIN next
      PROVE  next[q] \in Declared /\ q \in Declared /\ rank[next[q]] < rank[q]
  <2>1. PICK i \in DOMAIN types : types[i].key = q /\ types[i].dup # None
    OBVIOUS
  <2>2. types[i] \in Range(types)
    BY DEF Range
  <2>3. PICK t \in Range(types) : t.key = q /\ t.dup # None /\ target(q) = t.dup
    BY <2>1, <2>2
  <2>4. PICK n \in DOMAIN types : t = types[n]
    BY <2>3 DEF Range
  <2>5. t.dup \in Lower(rank)[q]
    BY <1>2, <2>3, <2>4 DEF Bounded, TypesBelow, RefersInto
  <2>6. q \in Declared
    BY <1>1, <2>3, <2>4 DEF TypesFine, Fine, Declared, DeclaredNames
  <2>7. next[q] = t.dup
    BY <2>3
  <2> QED  BY <1>4, <2>5, <2>6, <2>7 DEF Lower
<1> HIDE DEF next
<1>6. ASSUME NEW q \in DOMAIN next
      PROVE  EndOfChain(next, q) \notin DOMAIN next /\ EndOfChain(next, q) \in Declared
  <2>1. \A x \in Declared : rank[x] \in Nat
    BY <1>4
  <2>2. q \in Declared
    BY <1>5
  <2>3. EndOfChain(next, q) \notin DOMAIN next
    BY <1>1, <1>3, <1>5, <2>1, <2>2, EndOut
  <2>4. EndOfChain(next, q) \in Declared
    BY <1>1, <1>3, <1>5, <2>2, EndIn
  <2> QED  BY <2>3, <2>4
<1>7. ASSUME NEW q \in DOMAIN next
      PROVE  LET end == EndOfChain(next, q)
             IN  /\ end \notin DOMAIN next
                 /\ end \in XSDNames \/ TypeNamed(types, end) # None
  <2>1. PICK end : end = EndOfChain(next, q)
    OBVIOUS
  <2> QED  BY <1>1, <1>6, <1>7, <2>1, TypeIsNamed
<1> QED  BY <1>7 DEF DuplicatesEnd, next

(* Where no two types share a name and no type is made of itself, duplicates *)
(* lead to a type that is none, after every pass and whatever passes but     *)
(* mergeEnumUnions are enabled.                                               *)
THEOREM DuplicatesLeadToTypes ==
  UniqueTypeNames /\ NoCircles /\ NotMerging => (Spec => []DuplicatesEnd)
<1> SUFFICES ASSUME UniqueTypeNames, NoCircles, NotMerging PROVE Spec => []DuplicatesEnd
  OBVIOUS
<1>1. Init => EInv
  BY InitRanked
<1>2. EInv /\ [Next]_vars => EInv'
  BY NextRanked
<1> QED  BY <1>1, <1>2, RankedDuplicatesEnd, PTL DEF Spec

(* In resolveTypedefs the map has every typedef, and the types that the pass *)
(* has been at refer to none.                                                *)
InResolve == at # 0 /\ Pipeline[pass] = "resolveTypedefs"

ResolveInv ==
  InResolve =>
    /\ \A i \in DOMAIN types : IsTypedef(types[i]) => types[i].key \in DOMAIN local
    /\ \A i \in DOMAIN types : i < at => ReferencesOf(types[i]) \cap DOMAIN local = {}

JustResolved == /\ Between
                /\ pass > 1
                /\ Pipeline[pass - 1] = "resolveTypedefs"
                /\ Enabled("resolveTypedefs")

NoTypedefNamed ==
  \A q \in (UNION {ReferencesOf(types[i]) : i \in DOMAIN types}) \cup Range(members) :
    \A i \in DOMAIN types : types[i].key = q => ~ IsTypedef(types[i])

(* The inductive invariant of ReferencesResolved.                             *)
ResInv == EInv /\ ResolveInv /\ (JustResolved => NoTypedefNamed)

NoBuiltinNamed == Names \cap XSDNames = {}

LEMMA BuiltinsStay ==
  ASSUME NoBuiltinRedeclared, Shape
  PROVE  NoBuiltinNamed
BY DEF NoBuiltinRedeclared, Shape, Names, NoBuiltinNamed

LEMMA FieldsAreNames ==
  ASSUME NEW t, Fine(t)
  PROVE  ReferencesOf(t) \subseteq QName
<1>1. t \in MetaType
  BY DEF Fine
<1>2. \A j \in DOMAIN t.fields : t.fields[j].type \in QName
  <2>1. t.fields \in Seq(MetaField)
    BY <1>1 DEF MetaType
  <2>2. \A j \in DOMAIN t.fields : t.fields[j] \in MetaField
    BY <2>1
  <2> QED  BY <2>2 DEF MetaField
<1>3. t.alias # None => t.alias.base \in QName
  BY <1>1 DEF MetaType, MetaAlias
<1>4. t.list # None => t.list.item \in QName
  BY <1>1 DEF MetaType, MetaList
<1>5. t.union # None => Range(t.union.members) \subseteq QName
  BY <1>1 DEF MetaType, MetaUnion, Range
<1> QED  BY <1>2, <1>3, <1>4, <1>5 DEF ReferencesOf

(* The references of a resolved type are what the map leads to. *)
LEMMA ResolvedReferences ==
  ASSUME NEW t, Fine(t), NEW q \in ReferencesOf(Resolved(t))
  PROVE  \E p \in ReferencesOf(t) : q = ResolveQName(local, p)
<1> DEFINE to(x) == ResolveQName(local, x)
           names == t.union.members
           alias == [t.alias EXCEPT !.base = to(t.alias.base)]
           list == [t.list EXCEPT !.item = to(t.list.item)]
           union == [t.union EXCEPT !.members = [i \in DOMAIN names |-> to(names[i])]]
           field(f) == IF f.chardata THEN f ELSE [f EXCEPT !.type = to(f.type)]
           fields == [i \in DOMAIN t.fields |-> field(t.fields[i])]
           u == Resolved(t)
<1>1. t \in MetaType
  BY DEF Fine
<1>2. u = [t EXCEPT !.alias = IF t.alias = None THEN None ELSE alias,
                    !.list = IF t.list = None THEN None ELSE list,
                    !.union = IF t.union = None THEN None ELSE union,
                    !.fields = fields]
  BY DEF Resolved
<1> HIDE DEF to
<1>3. /\ u.alias = (IF t.alias = None THEN None ELSE alias)
      /\ u.list = (IF t.list = None THEN None ELSE list)
      /\ u.union = (IF t.union = None THEN None ELSE union)
      /\ u.fields = fields
  <2> HIDE DEF alias, list, union, fields, u
  <2> QED  BY <1>1, <1>2 DEF MetaType
<1>4. ASSUME NEW j \in DOMAIN u.fields, ~ u.fields[j].chardata
      PROVE  \E p \in ReferencesOf(t) : u.fields[j].type = to(p)
  <2>1. j \in DOMAIN t.fields /\ t.fields[j] \in MetaField /\ u.fields[j] = field(t.fields[j])
    BY <1>1, <1>3, <1>4 DEF MetaType
  <2>2. ~ t.fields[j].chardata
    BY <1>4, <2>1
  <2>3. u.fields[j].type = to(t.fields[j].type)
    BY <2>1, <2>2 DEF MetaField
  <2>4. t.fields[j].type \in ReferencesOf(t)
    BY <2>1, <2>2 DEF ReferencesOf
  <2> QED  BY <2>3, <2>4
<1>5. ASSUME u.alias # None PROVE \E p \in ReferencesOf(t) : u.alias.base = to(p)
  <2>1. t.alias # None /\ u.alias = alias
    BY <1>3, <1>5
  <2>2. u.alias.base = to(t.alias.base)
    BY <1>1, <2>1 DEF MetaType, MetaAlias
  <2>3. t.alias.base \in ReferencesOf(t)
    BY <2>1 DEF ReferencesOf
  <2> QED  BY <2>2, <2>3
<1>6. ASSUME u.list # None PROVE \E p \in ReferencesOf(t) : u.list.item = to(p)
  <2>1. t.list # None /\ u.list = list
    BY <1>3, <1>6
  <2>2. u.list.item = to(t.list.item)
    BY <1>1, <2>1 DEF MetaType, MetaList
  <2>3. t.list.item \in ReferencesOf(t)
    BY <2>1 DEF ReferencesOf
  <2> QED  BY <2>2, <2>3
<1>7. ASSUME u.union # None, NEW x \in Range(u.union.members)
      PROVE  \E p \in ReferencesOf(t) : x = to(p)
  <2>1. t.union # None /\ u.union = union
    BY <1>3, <1>7
  <2>2. u.union.members = [i \in DOMAIN names |-> to(names[i])]
    BY <1>1, <2>1 DEF MetaType, MetaUnion
  <2>3. PICK i \in DOMAIN names : x = to(names[i])
    BY <1>7, <2>2 DEF Range
  <2>4. names[i] \in ReferencesOf(t)
    BY <2>1, <2>3 DEF ReferencesOf, Range
  <2> QED  BY <2>3, <2>4
<1> HIDE DEF u
<1>8. \/ \E j \in DOMAIN u.fields : ~ u.fields[j].chardata /\ q = u.fields[j].type
      \/ u.alias # None /\ q = u.alias.base
      \/ u.list # None /\ q = u.list.item
      \/ u.union # None /\ q \in Range(u.union.members)
  <2>1. q \in ReferencesOf(u)
    BY DEF u
  <2> QED  BY <2>1 DEF ReferencesOf
<1> QED  BY <1>4, <1>5, <1>6, <1>7, <1>8 DEF to

LEMMA ResolvedOutside ==
  ASSUME TInv, Ranked, at # 0, Pipeline[pass] = "resolveTypedefs", NEW q \in QName
  PROVE  ResolveQName(local, q) \notin DOMAIN local
<1>1. PICK rank \in [QName -> Nat] : Bounded(Lower(rank))
  BY DEF Ranked
<1>2. GoodMap(local) /\ MapBelow(local, Lower(rank))
  BY <1>1 DEF TInv, PassInv, Bounded, Resolving
<1>3. types \in Seq(MetaType) /\ TypesFine
  BY DEF TInv, Typed, TypesFine
<1>4. \A x \in QName : rank[x] \in Nat
  OBVIOUS
<1>5. \A x \in QName : x \in DOMAIN local => local[x] \in QName /\ rank[local[x]] < rank[x]
  BY <1>2 DEF GoodMap, MapBelow, Lower
<1> QED  BY <1>2, <1>3, <1>4, <1>5, EndOut DEF ResolveQName, GoodMap

LEMMA ResolvedIsTypedef ==
  ASSUME TInv, NoBuiltinNamed, GoodMap(local), NEW t, Fine(t), IsTypedef(Resolved(t))
  PROVE  IsTypedef(t)
<1> DEFINE base == ResolveQName(local, t.alias.base)
<1>1. t \in MetaType
  BY DEF Fine
<1>2. PICK a, l, x, f : Resolved(t) = [t EXCEPT !.alias = a, !.list = l, !.union = x, !.fields = f]
                         /\ a = (IF t.alias = None THEN None ELSE [t.alias EXCEPT !.base = base])
  BY DEF Resolved
<1> HIDE DEF base
<1>3. /\ Resolved(t).dup = t.dup /\ Resolved(t).kind = t.kind /\ Resolved(t).alias = a
  BY <1>1, <1>2 DEF MetaType
<1>4. SUFFICES ASSUME t.dup = None PROVE IsTypedef(t)
  BY DEF IsTypedef
<1>5. t.kind = "simpleType" /\ a # None /\ a.facets = << >> /\ a.base \notin XSDNames
  BY <1>3, <1>4 DEF IsTypedef, HasAlias
<1>6. t.alias # None /\ a = [t.alias EXCEPT !.base = base]
  BY <1>2, <1>5
<1>7. t.alias \in MetaAlias
  BY <1>1, <1>6 DEF MetaType
<1>8. a.facets = t.alias.facets /\ a.base = base
  BY <1>6, <1>7 DEF MetaAlias
<1>9. t.alias.base \notin XSDNames
  <2> SUFFICES ASSUME t.alias.base \in XSDNames PROVE base \in XSDNames
    BY <1>5, <1>8
  <2>1. types \in Seq(MetaType) /\ DOMAIN local \subseteq Names
    BY DEF TInv, Typed, TypesFine, GoodMap
  <2>2. \A n \in XSDNames : n \in DOMAIN local => local[n] \in XSDNames
    BY <2>1 DEF NoBuiltinNamed
  <2> QED  BY <2>1, <2>2, EndIn DEF ResolveQName, base
<1>10. t # None
  BY <1>1, NameAssumption
<1> QED  BY <1>5, <1>6, <1>8, <1>9, <1>10 DEF IsTypedef, HasAlias

LEMMA InitResolve == Init => ResolveInv /\ ~ JustResolved
BY DEF Init, ResolveInv, InResolve, JustResolved

LEMMA EnterResolve ==
  ASSUME TInv, EnterPass
  PROVE  ResolveInv' /\ ~ JustResolved'
<1>1. at' = 1 /\ pass' = pass /\ types' = types
      /\ (Pipeline[pass] = "resolveTypedefs" => local' = BuildTypedefMap(types))
  <2> HIDE DEF BuildTypedefMap
  <2> QED  BY DEF EnterPass
<1>2. ~ JustResolved'
  BY <1>1 DEF JustResolved, Between
<1>3. ResolveInv'
  <2> SUFFICES ASSUME InResolve' PROVE ResolveInv'
    BY DEF ResolveInv
  <2>1. PICK map : map = BuildTypedefMap(types)
    OBVIOUS
  <2>2. local' = map
    BY <1>1, <2>1 DEF InResolve
  <2>3. types \in Seq(MetaType) /\ DOMAIN types \subseteq Nat \ {0}
    BY DEF TInv, Typed, TypesFine
  <2>4. DOMAIN map = {types[i].key : i \in {j \in DOMAIN types : IsTypedef(types[j])}}
    BY <2>1, <2>3, TypedefMap
  <2>5. \A i \in DOMAIN types' : IsTypedef(types'[i]) => types'[i].key \in DOMAIN local'
    BY <1>1, <2>2, <2>4
  <2>6. \A i \in DOMAIN types' : ~ (i < at')
    BY <1>1, <2>3
  <2> QED  BY <2>5, <2>6 DEF ResolveInv
<1> QED  BY <1>2, <1>3

LEMMA LeaveResolve ==
  ASSUME TInv, Ranked, ResolveInv, LeavePass
  PROVE  ResolveInv' /\ (JustResolved' => NoTypedefNamed')
<1>1. at' = 0 /\ pass' = pass + 1 /\ types' = types /\ at > Len(types) /\ at # 0 /\ pass \in Nat
  BY TypedIndices DEF LeavePass, TInv, Typed
<1>2. ResolveInv'
  BY <1>1 DEF ResolveInv, InResolve
<1>3. ASSUME JustResolved' PROVE NoTypedefNamed'
  <2>1. Pipeline[pass] = "resolveTypedefs"
    BY <1>1, <1>3 DEF JustResolved
  <2>2. members' = [i \in DOMAIN members |-> ResolveQName(local, members[i])]
    BY <2>1 DEF LeavePass
  <2>3. members \in Seq(QName)
    BY DEF TInv, Typed
  <2>4. \A q \in Range(members') : q \notin DOMAIN local
    <3> TAKE q \in Range(members')
    <3>1. PICK i \in DOMAIN members : q = ResolveQName(local, members[i])
      BY <2>2 DEF Range
    <3> QED  BY <1>1, <2>1, <2>3, <3>1, ResolvedOutside
  <2>5. \A i \in DOMAIN types : i < at
    BY <1>1, TypedIndices DEF TInv, Typed
  <2>6. \A i \in DOMAIN types : ReferencesOf(types[i]) \cap DOMAIN local = {}
    BY <1>1, <2>1, <2>5 DEF ResolveInv, InResolve
  <2>7. \A i \in DOMAIN types : IsTypedef(types[i]) => types[i].key \in DOMAIN local
    BY <1>1, <2>1 DEF ResolveInv, InResolve
  <2> QED  BY <1>1, <2>4, <2>6, <2>7 DEF NoTypedefNamed
<1> QED  BY <1>2, <1>3

LEMMA StepResolve ==
  ASSUME TInv, Ranked, NoBuiltinNamed, ResolveInv, ResolveTypedefs
  PROVE  ResolveInv' /\ ~ JustResolved'
<1> DEFINE t == types[at]
<1>1. /\ at \in DOMAIN types /\ Pipeline[pass] = "resolveTypedefs" /\ pass' = pass
      /\ local' = local /\ Replace(Resolved(t))
  BY DEF ResolveTypedefs, Within
<1>2. at \in Nat /\ at # 0 /\ at' = at + 1 /\ DOMAIN types \subseteq Nat
  BY <1>1, TypedIndices DEF TInv, Replace
<1>3. GoodMap(local) /\ Fine(t)
  BY <1>1, <1>2 DEF TInv, PassInv, Typed, TypesFine
<1>4. /\ DOMAIN types' = DOMAIN types
      /\ \A i \in DOMAIN types : types'[i] = IF i = at THEN Resolved(t) ELSE types[i]
      /\ \A i \in DOMAIN types : types'[i].key = types[i].key
  <2>1. StepKeeps
    BY ResolveTypedefsKeeps DEF TInv
  <2> QED  BY <1>1, <2>1 DEF Replace, StepKeeps, Keeps
<1>5. /\ \A i \in DOMAIN types : IsTypedef(types[i]) => types[i].key \in DOMAIN local
      /\ \A i \in DOMAIN types : i < at => ReferencesOf(types[i]) \cap DOMAIN local = {}
  BY <1>1, <1>2 DEF ResolveInv, InResolve
<1>6. \A i \in DOMAIN types : IsTypedef(types'[i]) => types[i].key \in DOMAIN local
  <2>1. IsTypedef(Resolved(t)) => IsTypedef(t)
    BY <1>3, ResolvedIsTypedef
  <2> QED  BY <1>1, <1>4, <1>5, <2>1
<1>7. ReferencesOf(Resolved(t)) \cap DOMAIN local = {}
  <2> SUFFICES ASSUME NEW q \in ReferencesOf(Resolved(t)) PROVE q \notin DOMAIN local
    OBVIOUS
  <2>1. PICK p \in ReferencesOf(t) : q = ResolveQName(local, p)
    BY <1>3, ResolvedReferences
  <2>2. p \in QName
    BY <1>3, <2>1, FieldsAreNames
  <2> QED  BY <1>1, <1>2, <2>1, <2>2, ResolvedOutside
<1>8. \A i \in DOMAIN types : i < at + 1 => ReferencesOf(types'[i]) \cap DOMAIN local = {}
  <2> TAKE i \in DOMAIN types
  <2>1. CASE i = at
    BY <1>4, <1>7, <2>1
  <2>2. CASE i # at
    <3>1. i < at + 1 => i < at
      BY <1>2, <2>2
    <3> QED  BY <1>4, <1>5, <2>2, <3>1
  <2> QED  BY <2>1, <2>2
<1>9. ResolveInv'
  BY <1>1, <1>2, <1>4, <1>6, <1>8 DEF ResolveInv
<1>10. ~ JustResolved'
  BY <1>2 DEF JustResolved, Between
<1> QED  BY <1>9, <1>10

LEMMA NextResolve ==
  ASSUME NoBuiltinRedeclared, ResInv, [Next]_vars
  PROVE  ResolveInv' /\ (JustResolved' => NoTypedefNamed')
<1>1. TInv /\ Ranked /\ ResolveInv /\ (JustResolved => NoTypedefNamed) /\ NoBuiltinNamed
  BY BuiltinsStay DEF ResInv, EInv, TInv
<1>2. CASE EnterPass
  BY <1>1, <1>2, EnterResolve
<1>3. CASE LeavePass
  BY <1>1, <1>3, LeaveResolve
<1>4. CASE ResolveTypedefs
  BY <1>1, <1>4, StepResolve
<1>5. CASE SkipPass
  <2>1. at' = 0 /\ pass' = pass + 1 /\ pass \in Nat /\ ~ Enabled(Pipeline[pass])
    BY <1>1, <1>5 DEF SkipPass, Between, TInv, Typed
  <2>2. pass' - 1 = pass
    BY <2>1
  <2>3. ~ JustResolved'
    BY <2>1, <2>2 DEF JustResolved, Enabled
  <2> QED  BY <2>1, <2>3 DEF ResolveInv, InResolve
<1>6. CASE Finish
  BY <1>1, <1>6 DEF Finish, TInv, PassInv, ResolveInv, InResolve, JustResolved, Between
<1>7. CASE \/ AnotherRound \/ Overflow
           \/ UseUnrestrictedBaseType \/ RemoveEmptyEnumVariants \/ RemoveEmptyEnums
           \/ RemoveDuplicateUnionVariants \/ RemoveEmptyUnions \/ RemoveDuplicates
           \/ StartWalk \/ SkipWalk \/ Descend \/ FlattenLeaf \/ MergeEnum \/ MergeLeaf
           \/ EndFlatten \/ EndMerge
  <2>1. /\ pass' = pass /\ (at' = at \/ at' = at + 1 \/ at' = 1)
        /\ Pipeline[pass] # "resolveTypedefs" /\ at # 0 /\ at \in Nat
    <3>1. CASE AnotherRound
      BY <1>1, <3>1, TypedIndices DEF AnotherRound, TInv, Typed
    <3>2. CASE \/ UseUnrestrictedBaseType \/ RemoveEmptyEnumVariants \/ RemoveEmptyEnums
               \/ RemoveDuplicateUnionVariants \/ RemoveEmptyUnions \/ RemoveDuplicates
      BY <1>1, <3>2, TypedIndices
         DEF UseUnrestrictedBaseType, RemoveEmptyEnumVariants, RemoveEmptyEnums, Within, Replace,
             RemoveDuplicateUnionVariants, RemoveEmptyUnions, RemoveDuplicates, TInv
    <3>3. CASE \/ StartWalk \/ SkipWalk \/ EndFlatten \/ EndMerge
      BY <1>1, <3>3, TypedIndices
         DEF StartWalk, SkipWalk, EndFlatten, EndMerge, WalkEnds, InWalk, Within, Replace, TInv
    <3>4. CASE \/ Overflow \/ Descend \/ FlattenLeaf \/ MergeEnum \/ MergeLeaf
      <4>1. (Walking \/ KeysEndless) /\ pass' = pass /\ at' = at
        BY <3>4 DEF Overflow, TooDeep, Descend, FlattenLeaf, MergeEnum, MergeLeaf
      <4>2. at \in DOMAIN types /\ Pipeline[pass] # "resolveTypedefs"
        BY <4>1 DEF Walking, KeysEndless, InWalk, Within
      <4> QED  BY <1>1, <4>1, <4>2, TypedIndices DEF TInv
    <3> QED  BY <1>7, <3>1, <3>2, <3>3, <3>4
  <2>2. at' # 0
    BY <2>1
  <2> QED  BY <2>1, <2>2 DEF ResolveInv, InResolve, JustResolved, Between
<1>8. CASE UNCHANGED vars
  BY <1>1, <1>8 DEF vars, ResolveInv, InResolve, JustResolved, Between, NoTypedefNamed
<1> QED  BY <1>2, <1>3, <1>4, <1>5, <1>6, <1>7, <1>8 DEF Next

(* Under the same conditions, and if no schema declares a built-in name,     *)
(* nothing refers to a duplicate or to an unrestricted alias when a pass     *)
(* that resolves typedefs is over.                                            *)
THEOREM ReferencesAreResolved ==
  UniqueTypeNames /\ NoCircles /\ NoBuiltinRedeclared /\ NotMerging
    => (Spec => []ReferencesResolved)
<1> SUFFICES ASSUME UniqueTypeNames, NoCircles, NoBuiltinRedeclared, NotMerging
             PROVE  Spec => []ReferencesResolved
  OBVIOUS
<1>1. Init => ResInv
  BY InitRanked, InitResolve DEF ResInv
<1>2. ResInv /\ [Next]_vars => ResInv'
  BY NextRanked, NextResolve DEF ResInv
<1>3. ResInv => ReferencesResolved
  BY TypedIsTypeOK DEF ResInv, EInv, JustResolved, NoTypedefNamed, ReferencesResolved
<1> QED  BY <1>1, <1>2, <1>3, PTL DEF Spec

=============================================================================
