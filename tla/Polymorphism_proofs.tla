------------------------ MODULE Polymorphism_proofs ------------------------
(***************************************************************************)
(* The closures that the stacks compute are the transitive ones, for every *)
(* schema, in whatever order the heads are taken, and also where elements  *)
(* substitute for each other in a circle.                                  *)
(***************************************************************************)
EXTENDS Polymorphism, IndexLemmas

-----------------------------------------------------------------------------
(* Stacks as sets of their elements. *)

(* What is popped is the last element, and the others stay. *)
LEMMA RangeOfFront ==
  ASSUME NEW S, NEW s \in Seq(S), Len(s) > 0
  PROVE  /\ Front(s) \in Seq(S)
         /\ Last(s) \in S
         /\ Range(s) = Range(Front(s)) \cup {Last(s)}
<1>1. Len(s) \in Nat /\ Len(s) > 0 /\ DOMAIN s = 1..Len(s)
  OBVIOUS
<1>2. Front(s) \in Seq(S)
  BY <1>1 DEF Front
<1>3. Last(s) \in S
  BY <1>1 DEF Last
<1>4. /\ DOMAIN Front(s) = 1..(Len(s) - 1)
      /\ \A i \in 1..(Len(s) - 1) : Front(s)[i] = s[i]
  BY <1>1 DEF Front
<1>5. ASSUME NEW y \in Range(s)  PROVE  y \in Range(Front(s)) \cup {Last(s)}
  <2>1. PICK i \in 1..Len(s) : y = s[i]
    BY <1>1 DEF Range
  <2>2. CASE i = Len(s)
    BY <2>1, <2>2 DEF Last
  <2>3. CASE i < Len(s)
    <3>1. i \in 1..(Len(s) - 1)
      BY <2>3, <1>1
    <3> QED  BY <2>1, <3>1, <1>4 DEF Range
  <2>4. i = Len(s) \/ i < Len(s)
    OBVIOUS
  <2> QED  BY <2>2, <2>3, <2>4
<1>6. ASSUME NEW y \in Range(Front(s))  PROVE  y \in Range(s)
  <2>1. PICK i \in 1..(Len(s) - 1) : y = s[i]
    BY <1>4 DEF Range
  <2>2. i \in 1..Len(s)
    BY <1>1
  <2> QED  BY <2>1, <2>2, <1>1 DEF Range
<1>7. Last(s) \in Range(s)
  BY <1>1 DEF Last, Range
<1> QED  BY <1>2, <1>3, <1>5, <1>6, <1>7

-----------------------------------------------------------------------------
(* The least set below a key. *)

(* What is below a key is linked. *)
LEMMA BelowIsLinked == \A rel, k : Below(rel, k) \subseteq Linked(rel)
BY DEF Below, Linked

(* It holds what is directly below the key. *)
LEMMA ClosureBase == \A rel, k : Below(rel, k) \subseteq Closure(rel, k)
BY BelowIsLinked DEF Closure

(* It holds what is below its members. *)
LEMMA ClosureStep ==
  ASSUME NEW rel, NEW k, NEW y \in Closure(rel, k)
  PROVE  Below(rel, y) \subseteq Closure(rel, k)
<1>1. SUFFICES ASSUME NEW x \in Below(rel, y), NEW S \in SUBSET Linked(rel),
                      Below(rel, k) \subseteq S,
                      \A z \in S : Below(rel, z) \subseteq S
               PROVE  x \in S
  BY BelowIsLinked DEF Closure
<1>2. y \in S
  BY <1>1 DEF Closure
<1> QED  BY <1>1, <1>2

(* And it is the least such set. *)
LEMMA ClosureLeast ==
  ASSUME NEW rel, NEW k, NEW S \in SUBSET Linked(rel),
         Below(rel, k) \subseteq S,
         \A z \in S : Below(rel, z) \subseteq S
  PROVE  Closure(rel, k) \subseteq S
BY DEF Closure

(* So is what is below it at any depth. *)
LEMMA ClosureIsLinked == \A rel, k : Closure(rel, k) \subseteq Linked(rel)
BY DEF Closure

-----------------------------------------------------------------------------
(* The invariant. *)

LinksBefore(n, k) ==
  {Links(relation)[i].key : i \in {j \in DOMAIN Links(relation) : j < n /\ Links(relation)[j].above = k}}

(* What was collected are the links of the declarations that were read.      *)
CollectedSoFar ==
  pc = "collect" => \A k \in Key : Range(At(direct, k)) = LinksBefore(at, k)

CollectedAll ==
  pc = "close" => \A k \in Key : Range(At(direct, k)) = Below(relation, k)

Reached == Range(found) \cup Range(stack)

(* What was found or waits on the stack is below the head, and what is below *)
(* the head or below a key that was found was found or waits.                *)
SearchSound ==
  pc = "close" /\ head # None =>
    /\ Reached \subseteq Closure(relation, head)
    /\ Below(relation, head) \subseteq Reached
    /\ \A k \in Range(found) : Below(relation, k) \subseteq Reached
    /\ \A i, j \in DOMAIN found : found[i] = found[j] => i = j

StateOK ==
  /\ PolyTypeOK
  /\ input \in Schemas
  /\ pc = "collect" => todo = {} /\ head = None
  /\ closures = [rel \in Relations |-> closures[rel]]

ClosingInv == StateOK /\ CollectedSoFar /\ CollectedAll /\ SearchSound /\ ClosuresComplete

Link == [above : Key \cup {None}, key : Key]

(* A link for each declaration. *)
LEMMA LinksType ==
  ASSUME input \in Schemas, NEW rel
  PROVE  Links(rel) \in Seq(Link)
<1>1. input \in Schema
  BY PolymorphismAssumption
<1>2. /\ input.elements \in Seq(Element)
      /\ input.types \in Seq(ComplexType)
  BY <1>1 DEF Schema
<1>3. CASE rel = "substitution"
  <2>1. DOMAIN input.elements = 1..Len(input.elements) /\ Len(input.elements) \in Nat
    BY <1>2
  <2>2. ASSUME NEW i \in 1..Len(input.elements)
        PROVE  [above |-> input.elements[i].head, key |-> input.elements[i].key] \in Link
    <3>1. input.elements[i] \in Element
      BY <1>2, ElementOfSeq
    <3> QED  BY <3>1 DEF Element, Link
  <2>3. Links(rel) = [i \in 1..Len(input.elements) |->
                        [above |-> input.elements[i].head, key |-> input.elements[i].key]]
    BY <1>3, <2>1 DEF Links
  <2> QED  BY <2>1, <2>2, <2>3
<1>4. CASE rel # "substitution"
  <2>1. DOMAIN input.types = 1..Len(input.types) /\ Len(input.types) \in Nat
    BY <1>2
  <2>2. ASSUME NEW i \in 1..Len(input.types)
        PROVE  [above |-> input.types[i].base, key |-> input.types[i].key] \in Link
    <3>1. input.types[i] \in ComplexType
      BY <1>2, ElementOfSeq
    <3> QED  BY <3>1 DEF ComplexType, Link
  <2>3. Links(rel) = [i \in 1..Len(input.types) |->
                        [above |-> input.types[i].base, key |-> input.types[i].key]]
    BY <1>4, <2>1 DEF Links
  <2> QED  BY <2>1, <2>2, <2>3
<1> QED  BY <1>3, <1>4

(* A key that is not mapped has no keys below it. *)
LEMMA AtInSeq ==
  ASSUME PolyTypeOK, NEW k
  PROVE  At(direct, k) \in Seq(Key)
BY DEF At, PolyTypeOK

(* A map holds what was put into it, and what it held. *)
LEMMA AtAfterPut ==
  ASSUME NEW map, NEW k, NEW value, NEW x
  PROVE  At(Put(map, k, value), x) = IF x = k THEN value ELSE At(map, x)
BY DEF At, Put

(* Nothing was collected or found at the start. *)
LEMMA ClosingInvInit == Init => ClosingInv
<1> SUFFICES ASSUME Init  PROVE  ClosingInv
  OBVIOUS
<1>1. StateOK
  BY DEF Init, StateOK, PolyTypeOK, Relations
<1>2. CollectedSoFar
  <2>1. ASSUME NEW k \in Key  PROVE  Range(At(direct, k)) = LinksBefore(at, k)
    <3>1. At(direct, k) = << >>
      BY DEF Init, At
    <3>2. LinksBefore(at, k) = {}
      <4>1. ASSUME NEW i \in DOMAIN Links(relation), i < 1  PROVE  FALSE
        <5>1. input \in Schemas
          BY DEF Init
        <5> QED  BY <4>1, <5>1, LinksType
      <4>2. at = 1
        BY DEF Init
      <4> QED  BY <4>1, <4>2 DEF LinksBefore
    <3> QED  BY <3>1, <3>2, RangeOfEmpty
  <2> QED  BY <2>1 DEF CollectedSoFar
<1>3. CollectedAll /\ SearchSound /\ ClosuresComplete
  BY DEF Init, CollectedAll, SearchSound, ClosuresComplete, Relations
<1> QED  BY <1>1, <1>2, <1>3 DEF ClosingInv

-----------------------------------------------------------------------------
(* One step for each action that changes what the invariant speaks of.       *)

(* The relations are those of the input. *)
LEMMA ClosureKept ==
  ASSUME input' = input
  PROVE  \A rel, k : Below(rel, k)' = Below(rel, k) /\ Closure(rel, k)' = Closure(rel, k)
<1>1. \A rel : Links(rel)' = Links(rel)
  BY DEF Links
<1>2. \A rel : Linked(rel)' = Linked(rel)
  BY <1>1 DEF Linked
<1>3. \A rel, k : Below(rel, k)' = Below(rel, k)
  BY <1>1 DEF Below
<1> QED  BY <1>2, <1>3 DEF Closure

(* Closures change only when a head is closed. *)
LEMMA ClosuresKept ==
  ASSUME ClosuresComplete, input' = input, closures' = closures
  PROVE  ClosuresComplete'
BY ClosureKept DEF ClosuresComplete

(* A declaration adds its link to those that were collected. *)
LEMMA CollectKeepsInv ==
  ASSUME ClosingInv, Collect
  PROVE  ClosingInv'
<1> DEFINE link == Links(relation)[at]
<1>0. /\ input \in Schemas /\ PolyTypeOK /\ pc = "collect"
      /\ at \in DOMAIN Links(relation) /\ at \in Nat
  <2>1. input \in Schemas /\ PolyTypeOK /\ pc = "collect" /\ at \in Nat \ {0}
    BY DEF ClosingInv, StateOK, PolyTypeOK, Collect
  <2>2. at <= Len(Links(relation))
    BY DEF Collect
  <2> QED  BY <2>1, <2>2, LinksType
<1>1. link.key \in Key /\ link.above \in Key \cup {None}
  <2>1. Links(relation) \in Seq(Link)
    BY <1>0, LinksType
  <2>2. link \in Link
    BY <2>1, <1>0
  <2> QED  BY <2>2 DEF Link
<1>2. \A k \in Key : At(direct, k) \in Seq(Key)
  BY <1>0, AtInSeq
<1>3. direct' = IF link.above = None THEN direct
                ELSE Put(direct, link.above, Append(At(direct, link.above), link.key))
  BY DEF Collect
<1>4. ASSUME NEW k \in Key
      PROVE  Range(At(direct, k))' = Range(At(direct, k)) \cup (IF link.above = k THEN {link.key} ELSE {})
  <2>1. CASE link.above = None
    BY <2>1, <1>3, PolymorphismAssumption
  <2>2. CASE link.above # None /\ link.above # k
    BY <2>2, <1>3, AtAfterPut
  <2>3. CASE link.above # None /\ link.above = k
    <3>0. direct' = Put(direct, k, Append(At(direct, k), link.key))
      BY <2>3, <1>3
    <3>1. At(direct', k) = Append(At(direct, k), link.key)
      <4> DEFINE value == Append(At(direct, k), link.key)
      <4>1. At(Put(direct, k, value), k) = value
        <5> HIDE DEF value
        <5> QED  BY DEF At, Put
      <4> QED  BY <3>0, <4>1
    <3> QED  BY <3>1, <2>3, <1>1, <1>2, RangeOfAppend
  <2> QED  BY <2>1, <2>2, <2>3
<1>5. ASSUME NEW k \in Key
      PROVE  LinksBefore(at + 1, k) = LinksBefore(at, k) \cup (IF link.above = k THEN {link.key} ELSE {})
  <2> DEFINE J(n) == {j \in DOMAIN Links(relation) : j < n /\ Links(relation)[j].above = k}
  <2>1. J(at + 1) = J(at) \cup (IF link.above = k THEN {at} ELSE {})
    <3>1. \A j \in DOMAIN Links(relation) : j < at + 1 <=> (j < at \/ j = at)
      BY <1>0, LinksType
    <3> QED  BY <3>1, <1>0
  <2>2. LinksBefore(at + 1, k) = {Links(relation)[i].key : i \in J(at + 1)}
    BY DEF LinksBefore
  <2>3. LinksBefore(at, k) = {Links(relation)[i].key : i \in J(at)}
    BY DEF LinksBefore
  <2> HIDE DEF J
  <2> QED  BY <2>1, <2>2, <2>3
<1>6. UNCHANGED <<input, pc, relation, todo, head, stack, found, closures, fields>> /\ at' = at + 1
  BY DEF Collect, analysis
<1>7. StateOK'
  <2>1. \A k \in DOMAIN direct' : k \in Key /\ direct'[k] \in Seq(Key)
    <3>1. CASE link.above = None
      BY <3>1, <1>0, <1>3 DEF PolyTypeOK
    <3>2. CASE link.above # None
      <4>1. link.above \in Key /\ Append(At(direct, link.above), link.key) \in Seq(Key)
        BY <3>2, <1>1, <1>2
      <4> QED  BY <4>1, <3>2, <1>0, <1>3 DEF PolyTypeOK, Put
    <3> QED  BY <3>1, <3>2
  <2>2. todo = {} /\ head = None /\ closures = [rel \in Relations |-> closures[rel]]
    BY <1>0 DEF ClosingInv, StateOK
  <2>3. PolyTypeOK'
    BY <1>0, <1>6, <2>1, <2>2 DEF PolyTypeOK
  <2> QED  BY <1>0, <1>6, <2>2, <2>3 DEF StateOK
<1>8. CollectedSoFar'
  <2>1. ASSUME NEW k \in Key  PROVE  Range(At(direct, k))' = LinksBefore(at, k)'
    <3>1. Range(At(direct, k)) = LinksBefore(at, k)
      BY <1>0 DEF ClosingInv, CollectedSoFar
    <3>2. LinksBefore(at, k)' = LinksBefore(at + 1, k)
      BY <1>6 DEF LinksBefore, Links
    <3> QED  BY <3>1, <3>2, <1>4, <1>5
  <2> QED  BY <2>1 DEF CollectedSoFar
<1>9. CollectedAll' /\ SearchSound'
  BY <1>0, <1>6 DEF CollectedAll, SearchSound
<1>10. ClosuresComplete'
  BY <1>6, ClosuresKept DEF ClosingInv
<1> QED  BY <1>7, <1>8, <1>9, <1>10 DEF ClosingInv

(* All links are collected at the end. *)
LEMMA StartClosingKeepsInv ==
  ASSUME ClosingInv, StartClosing
  PROVE  ClosingInv'
<1>1. /\ UNCHANGED <<input, relation, at, direct, head, stack, found, closures, fields>>
      /\ pc = "collect" /\ pc' = "close" /\ todo' = DOMAIN direct /\ at > Len(Links(relation))
  BY DEF StartClosing, analysis
<1>2. StateOK'
  BY <1>1 DEF ClosingInv, StateOK, PolyTypeOK
<1>3. CollectedAll'
  <2>1. ASSUME NEW k \in Key  PROVE  Range(At(direct, k)) = Below(relation, k)
    <3>1. Range(At(direct, k)) = LinksBefore(at, k)
      BY <1>1 DEF ClosingInv, CollectedSoFar
    <3>2. \A j \in DOMAIN Links(relation) : j < at
      <4>1. Links(relation) \in Seq(Link) /\ at \in Nat
        BY LinksType DEF ClosingInv, StateOK, PolyTypeOK
      <4> QED  BY <4>1, <1>1
    <3> QED  BY <3>1, <3>2 DEF LinksBefore, Below
  <2> QED  BY <2>1, <1>1 DEF CollectedAll, Below, Links
<1>4. SearchSound' /\ CollectedSoFar'
  BY <1>1 DEF ClosingInv, StateOK, SearchSound, CollectedSoFar
<1>5. ClosuresComplete'
  BY <1>1, ClosuresKept DEF ClosingInv
<1> QED  BY <1>2, <1>3, <1>4, <1>5 DEF ClosingInv

(* The search starts with what is directly below the head. *)
LEMMA PickHeadKeepsInv ==
  ASSUME ClosingInv, NEW h \in Key, PickHead(h)
  PROVE  ClosingInv'
<1>1. /\ UNCHANGED <<input, pc, relation, at, direct, todo, closures, fields>>
      /\ pc = "close" /\ h \in todo /\ head' = h /\ stack' = direct[h] /\ found' = << >>
  BY DEF PickHead, analysis
<1>2. At(direct, h) = direct[h]
  BY <1>1 DEF ClosingInv, StateOK, PolyTypeOK, At
<1>3. stack' \in Seq(Key) /\ found' \in Seq(Key)
  BY <1>1, <1>2, AtInSeq DEF ClosingInv, StateOK
<1>4. StateOK'
  BY <1>1, <1>3 DEF ClosingInv, StateOK, PolyTypeOK
<1>5. CollectedSoFar' /\ CollectedAll'
  BY <1>1, ClosureKept DEF ClosingInv, CollectedSoFar, CollectedAll
<1>6. SearchSound'
  <2>1. Range(stack') = Below(relation, h)
    BY <1>1, <1>2 DEF ClosingInv, CollectedAll
  <2>2. Range(found') = {} /\ DOMAIN found' = {}
    BY <1>1, RangeOfEmpty
  <2>3. Reached' = Below(relation, h)
    BY <2>1, <2>2 DEF Reached
  <2>4. \A k : Below(relation, k)' = Below(relation, k) /\ Closure(relation, k)' = Closure(relation, k)
    BY <1>1, ClosureKept
  <2> QED  BY <1>1, <2>2, <2>3, <2>4, ClosureBase DEF SearchSound
<1>7. ClosuresComplete'
  BY <1>1, ClosuresKept DEF ClosingInv
<1> QED  BY <1>4, <1>5, <1>6, <1>7 DEF ClosingInv

(* What holds while the stack is worked off. *)
LEMMA WhilePopping ==
  ASSUME ClosingInv, Popping
  PROVE  /\ PolyTypeOK /\ input \in Schemas /\ pc = "close" /\ head # None
         /\ stack \in Seq(Key) /\ found \in Seq(Key)
         /\ Front(stack) \in Seq(Key) /\ Last(stack) \in Key
         /\ Range(stack) = Range(Front(stack)) \cup {Last(stack)}
         /\ At(direct, Last(stack)) \in Seq(Key)
         /\ Range(At(direct, Last(stack))) = Below(relation, Last(stack))
         /\ Reached \subseteq Closure(relation, head)
         /\ Below(relation, head) \subseteq Reached
         /\ \A k \in Range(found) : Below(relation, k) \subseteq Reached
         /\ \A i, j \in DOMAIN found : found[i] = found[j] => i = j
<1>1. PolyTypeOK /\ input \in Schemas /\ pc = "close" /\ head # None /\ stack # << >>
  BY DEF ClosingInv, StateOK, Popping
<1>2. stack \in Seq(Key) /\ found \in Seq(Key)
  BY <1>1 DEF PolyTypeOK
<1>3. Len(stack) > 0
  <2>1. Len(stack) \in Nat \ {0}
    BY <1>1, <1>2, EmptySeq
  <2> QED  BY <2>1
<1>4. /\ Front(stack) \in Seq(Key) /\ Last(stack) \in Key
      /\ Range(stack) = Range(Front(stack)) \cup {Last(stack)}
  BY <1>2, <1>3, RangeOfFront
<1>5. /\ At(direct, Last(stack)) \in Seq(Key)
      /\ Range(At(direct, Last(stack))) = Below(relation, Last(stack))
  BY <1>1, <1>4, AtInSeq DEF ClosingInv, CollectedAll
<1>6. /\ Reached \subseteq Closure(relation, head)
      /\ Below(relation, head) \subseteq Reached
      /\ \A k \in Range(found) : Below(relation, k) \subseteq Reached
      /\ \A i, j \in DOMAIN found : found[i] = found[j] => i = j
  BY <1>1 DEF ClosingInv, SearchSound
<1> QED  BY <1>1, <1>2, <1>4, <1>5, <1>6

(* What was found before is dropped from the stack. *)
LEMMA PopSeenKeepsInv ==
  ASSUME ClosingInv, PopSeen
  PROVE  ClosingInv'
<1>1. /\ UNCHANGED <<input, pc, relation, at, direct, todo, head, found, closures, fields>>
      /\ Popping /\ Last(stack) \in Range(found) /\ stack' = Front(stack)
  BY DEF PopSeen, analysis
<1>2. StateOK'
  BY <1>1, WhilePopping DEF ClosingInv, StateOK, PolyTypeOK
<1>3. CollectedSoFar' /\ CollectedAll'
  BY <1>1, ClosureKept, WhilePopping DEF ClosingInv, CollectedSoFar, CollectedAll
<1>4. SearchSound'
  <2>1. Reached' = Reached
    BY <1>1, WhilePopping DEF Reached
  <2>2. \A k : Below(relation, k)' = Below(relation, k) /\ Closure(relation, k)' = Closure(relation, k)
    BY <1>1, ClosureKept
  <2> QED  BY <1>1, <2>1, <2>2, WhilePopping DEF SearchSound
<1>5. ClosuresComplete'
  BY <1>1, ClosuresKept DEF ClosingInv
<1> QED  BY <1>2, <1>3, <1>4, <1>5 DEF ClosingInv

(* What is new moves from the stack to what was found, and what is below it is
   pushed. *)
LEMMA PopNewKeepsInv ==
  ASSUME ClosingInv, PopNew
  PROVE  ClosingInv'
<1> DEFINE new == Last(stack)
<1>1. /\ UNCHANGED <<input, pc, relation, at, direct, todo, head, closures, fields>>
      /\ Popping /\ new \notin Range(found)
      /\ found' = Append(found, new) /\ stack' = Front(stack) \o At(direct, new)
  BY DEF PopNew, analysis
<1>2. /\ Range(found') = Range(found) \cup {new}
      /\ Range(stack') = Range(Front(stack)) \cup Below(relation, new)
      /\ Reached' = Reached \cup Below(relation, new)
  <2>1. Range(found') = Range(found) \cup {new}
    BY <1>1, WhilePopping, RangeOfAppend
  <2>2. Range(stack') = Range(Front(stack)) \cup Below(relation, new)
    BY <1>1, WhilePopping, RangeOfConcat
  <2> QED  BY <2>1, <2>2, <1>1, WhilePopping DEF Reached
<1>3. StateOK'
  <2>1. found' \in Seq(Key) /\ stack' \in Seq(Key)
    BY <1>1, WhilePopping
  <2> QED  BY <1>1, <2>1 DEF ClosingInv, StateOK, PolyTypeOK
<1>4. CollectedSoFar' /\ CollectedAll'
  BY <1>1, ClosureKept, WhilePopping DEF ClosingInv, CollectedSoFar, CollectedAll
<1>5. SearchSound'
  <2>1. \A k : Below(relation, k)' = Below(relation, k) /\ Closure(relation, k)' = Closure(relation, k)
    BY <1>1, ClosureKept
  <2>2. Below(relation, new) \subseteq Closure(relation, head)
    <3>1. new \in Closure(relation, head)
      BY <1>1, WhilePopping DEF Reached
    <3> QED  BY <3>1, ClosureStep
  <2>3. \A i, j \in DOMAIN found' : found'[i] = found'[j] => i = j
    <3>1. /\ found \in Seq(Key) /\ new \in Key
          /\ \A i, j \in DOMAIN found : found[i] = found[j] => i = j
          /\ \A i \in DOMAIN found : found[i] # new
      BY <1>1, WhilePopping DEF Range
    <3>2. \A i \in DOMAIN found' : i \in DOMAIN found \/ i = Len(found) + 1
      BY <3>1, <1>1
    <3>3. \A i \in DOMAIN found : found'[i] = found[i]
      BY <3>1, <1>1
    <3>4. found'[Len(found) + 1] = new
      BY <3>1, <1>1
    <3> QED  BY <3>1, <3>2, <3>3, <3>4
  <2>4. /\ Reached' \subseteq Closure(relation, head)
        /\ Below(relation, head) \subseteq Reached'
        /\ \A k \in Range(found') : Below(relation, k) \subseteq Reached'
    BY <1>1, <1>2, <2>2, WhilePopping
  <2> QED  BY <1>1, <2>1, <2>3, <2>4 DEF SearchSound
<1>6. ClosuresComplete'
  BY <1>1, ClosuresKept DEF ClosingInv
<1> QED  BY <1>3, <1>4, <1>5, <1>6 DEF ClosingInv

(* With nothing on the stack, what was found is closed and so is the closure. *)
LEMMA CloseHeadKeepsInv ==
  ASSUME ClosingInv, CloseHead
  PROVE  ClosingInv'
<1>1. /\ UNCHANGED <<input, pc, relation, at, direct, stack, found, fields>>
      /\ pc = "close" /\ head # None /\ stack = << >>
      /\ closures' = [closures EXCEPT ![relation] = Put(@, head, found)]
      /\ todo' = todo \ {head} /\ head' = None
  BY DEF CloseHead, analysis
<1>2. /\ PolyTypeOK /\ input \in Schemas /\ relation \in Relations
      /\ closures = [rel \in Relations |-> closures[rel]]
  BY DEF ClosingInv, StateOK, PolyTypeOK
<1>3. closures' = [rel \in Relations |->
                     IF rel = relation THEN Put(closures[rel], head, found) ELSE closures[rel]]
  BY <1>1, <1>2
<1>4. StateOK'
  <2>1. PolyTypeOK'
    BY <1>1, <1>2 DEF PolyTypeOK
  <2>2. closures' = [rel \in Relations |-> closures'[rel]]
    BY <1>3
  <2> QED  BY <2>1, <2>2, <1>1, <1>2 DEF StateOK
<1>5. CollectedSoFar' /\ CollectedAll'
  BY <1>1, ClosureKept DEF ClosingInv, CollectedSoFar, CollectedAll
<1>6. SearchSound'
  BY <1>1 DEF SearchSound
<1>7. /\ Range(found) = Closure(relation, head)
      /\ \A i, j \in DOMAIN found : found[i] = found[j] => i = j
  <2>1. /\ Reached \subseteq Closure(relation, head)
        /\ Below(relation, head) \subseteq Reached
        /\ \A k \in Range(found) : Below(relation, k) \subseteq Reached
        /\ \A i, j \in DOMAIN found : found[i] = found[j] => i = j
    BY <1>1 DEF ClosingInv, SearchSound
  <2>2. Reached = Range(found)
    BY <1>1, RangeOfEmpty DEF Reached
  <2>3. Range(found) \in SUBSET Linked(relation)
    BY <2>1, <2>2, ClosureIsLinked
  <2>4. Closure(relation, head) \subseteq Range(found)
    BY <2>1, <2>2, <2>3, ClosureLeast
  <2> QED  BY <2>1, <2>2, <2>4
<1>8. ClosuresComplete'
  <2> DEFINE Complete(rel, k, closure) ==
        /\ Range(closure) = Closure(rel, k)
        /\ \A i, j \in DOMAIN closure : closure[i] = closure[j] => i = j
  <2>1. ASSUME NEW rel \in Relations, NEW k \in DOMAIN closures'[rel]
        PROVE  Complete(rel, k, closures'[rel][k])
    <3>1. CASE rel = relation /\ k = head
      <4>1. closures'[rel][k] = found
        BY <3>1, <1>3 DEF Put
      <4> QED  BY <3>1, <4>1, <1>7
    <3>2. CASE ~ (rel = relation /\ k = head)
      <4>1. k \in DOMAIN closures[rel] /\ closures'[rel][k] = closures[rel][k]
        <5>1. CASE rel = relation
          BY <5>1, <3>2, <2>1, <1>3 DEF Put
        <5>2. CASE rel # relation
          BY <5>2, <2>1, <1>3
        <5> QED  BY <5>1, <5>2
      <4> QED  BY <4>1 DEF ClosingInv, ClosuresComplete
    <3> QED  BY <3>1, <3>2
  <2>2. \A rel, k : Closure(rel, k)' = Closure(rel, k)
    BY <1>1, ClosureKept
  <2> QED  BY <2>1, <2>2 DEF ClosuresComplete
<1> QED  BY <1>4, <1>5, <1>6, <1>8 DEF ClosingInv

(* The next relation starts with nothing collected. *)
LEMMA EndClosingKeepsInv ==
  ASSUME ClosingInv, EndClosing
  PROVE  ClosingInv'
<1>1. /\ UNCHANGED <<input, todo, head, stack, found, closures, fields>>
      /\ pc = "close" /\ head = None /\ todo = {} /\ at' = 1 /\ direct' = << >>
      /\ relation' \in Relations /\ pc' \in {"collect", "uses"}
  BY DEF EndClosing, analysis, ClosingInv, StateOK, PolyTypeOK, Relations
<1>2. StateOK'
  BY <1>1 DEF ClosingInv, StateOK, PolyTypeOK
<1>3. CollectedSoFar'
  <2>1. ASSUME NEW k \in Key  PROVE  Range(At(direct', k)) = LinksBefore(at, k)'
    <3>1. At(direct', k) = << >>
      BY <1>1 DEF At
    <3>2. LinksBefore(at, k)' = {}
      <4>1. input' \in Schemas
        BY <1>1 DEF ClosingInv, StateOK
      <4>2. ASSUME NEW i \in DOMAIN Links(relation)', i < 1  PROVE  FALSE
        <5>1. Links(relation)' \in Seq(Link)
          BY <1>1, LinksType DEF Links, ClosingInv, StateOK
        <5> QED  BY <4>2, <5>1
      <4> QED  BY <4>2, <1>1 DEF LinksBefore
    <3> QED  BY <3>1, <3>2, RangeOfEmpty
  <2> QED  BY <2>1 DEF CollectedSoFar
<1>4. CollectedAll' /\ SearchSound'
  BY <1>1 DEF CollectedAll, SearchSound
<1>5. ClosuresComplete'
  BY <1>1, ClosuresKept DEF ClosingInv
<1> QED  BY <1>2, <1>3, <1>4, <1>5 DEF ClosingInv

(* The steps that come after the closing do not touch what it computed.      *)
LEMMA LaterKeepsInv ==
  ASSUME ClosingInv, pc \notin {"collect", "close"},
         UNCHANGED <<input, closing>>,
         pc' \in {"uses", "interfaces", "done"}, at' \in Nat \ {0},
         fields' \subseteq DOMAIN input.uses
  PROVE  ClosingInv'
<1>1. UNCHANGED <<input, relation, direct, todo, head, stack, found, closures>>
  BY DEF closing
<1>2. StateOK'
  BY <1>1 DEF ClosingInv, StateOK, PolyTypeOK
<1>3. CollectedSoFar' /\ CollectedAll' /\ SearchSound'
  BY DEF CollectedSoFar, CollectedAll, SearchSound
<1>4. ClosuresComplete'
  BY <1>1, ClosuresKept DEF ClosingInv
<1> QED  BY <1>2, <1>3, <1>4 DEF ClosingInv

(* Every step keeps the invariant. *)
LEMMA ClosingInvStep == ClosingInv /\ [Next]_vars => ClosingInv'
<1> SUFFICES ASSUME ClosingInv, [Next]_vars  PROVE  ClosingInv'
  OBVIOUS
<1>1. CASE Closing
  BY <1>1, CollectKeepsInv, StartClosingKeepsInv, PickHeadKeepsInv, PopSeenKeepsInv,
     PopNewKeepsInv, CloseHeadKeepsInv, EndClosingKeepsInv DEF Closing
<1>2. at \in Nat \ {0} /\ fields \subseteq DOMAIN input.uses
  BY DEF ClosingInv, StateOK, PolyTypeOK
<1>3. CASE InterpretUse
  <2>1. at \in DOMAIN input.uses
    <3>1. input.uses \in Seq(Use)
      BY PolymorphismAssumption DEF ClosingInv, StateOK, Schema
    <3>2. at <= Len(input.uses)
      BY <1>3 DEF InterpretUse
    <3> QED  BY <3>1, <3>2, <1>2
  <2>2. /\ fields' \in {fields, fields \cup {at}} /\ at' = at + 1
        /\ UNCHANGED <<input, pc, closing>> /\ pc = "uses"
    BY <1>3 DEF InterpretUse
  <2>3. at' \in Nat \ {0} /\ fields' \subseteq DOMAIN input.uses
    BY <2>1, <2>2, <1>2
  <2> QED  BY <2>2, <2>3, LaterKeepsInv
<1>4. CASE UsesDone
  BY <1>2, <1>4, LaterKeepsInv DEF UsesDone, analysis
<1>5. CASE MakeInterface
  BY <1>2, <1>5, LaterKeepsInv DEF MakeInterface
<1>6. CASE MarkContainers
  BY <1>2, <1>6, LaterKeepsInv DEF MarkContainers
<1>7. CASE UNCHANGED vars
  <2>1. UNCHANGED <<input, pc, relation, at, direct, todo, head, stack, found, closures, fields>>
    BY <1>7 DEF vars
  <2>2. StateOK'
    BY <2>1 DEF ClosingInv, StateOK, PolyTypeOK
  <2>3. CollectedSoFar'
    <3>1. \A n, k : LinksBefore(n, k)' = LinksBefore(n, k)
      BY <2>1 DEF LinksBefore, Links
    <3> QED  BY <2>1, <3>1 DEF ClosingInv, CollectedSoFar
  <2>5. CollectedAll'
    BY <2>1, ClosureKept DEF ClosingInv, CollectedAll
  <2>6. SearchSound'
    BY <2>1, ClosureKept DEF ClosingInv, SearchSound, Reached
  <2>4. ClosuresComplete'
    BY <2>1, ClosuresKept DEF ClosingInv
  <2> QED  BY <2>2, <2>3, <2>4, <2>5, <2>6 DEF ClosingInv
<1> QED  BY <1>1, <1>3, <1>4, <1>5, <1>6, <1>7 DEF Next

(* For every schema, a substitution group holds the elements that substitute *)
(* for its head at whatever depth, and the derived types of a type those     *)
(* that extend it at whatever depth, each of them once.                      *)
THEOREM ClosuresAreComplete == Spec => []ClosuresComplete
<1>1. ClosingInv => ClosuresComplete
  BY DEF ClosingInv
<1> QED  BY <1>1, ClosingInvInit, ClosingInvStep, PTL DEF Spec

(* The state keeps its type. *)
THEOREM PolymorphismTypeCorrect == Spec => []PolyTypeOK
<1>1. ClosingInv => PolyTypeOK
  BY DEF ClosingInv, StateOK
<1> QED  BY <1>1, ClosingInvInit, ClosingInvStep, PTL DEF Spec
=============================================================================
