---------------------------- MODULE Polymorphism ----------------------------
(***************************************************************************)
(* Substitution groups and derived types: buildSubstitutionGroups,         *)
(* buildDerivedTypes, fieldPolymorphic and enrichPolymorphism, and what    *)
(* the generated code makes of them when it reads and writes a document.   *)
(*                                                                         *)
(* Two relations are closed first, each with a stack: an element and those *)
(* that substitute for it, a type and those that extend it.  Then the      *)
(* places where elements are used decide which elements and slots, the     *)
(* heads, need an interface, and each head gets one, with a registry of    *)
(* what may stand there.                                                   *)
(***************************************************************************)
EXTENDS Naturals, Sequences, FiniteSets, SequencesExt

CONSTANTS
  Key,           \* names of elements and types, with their namespaces
  None,
  BuiltIn,       \* isXSDNamespace: types of XSD's namespace, and of none
  Before(_,_),   \* keyLess
  Schemas        \* the schemas to consider

Element == [key : Key, type : Key \cup {None}, head : Key \cup {None}, abstract : BOOLEAN]

(* `base' is the base of an extension.  `named' holds of a type whose struct *)
(* is read by encoding/xml, which compares XMLName; other types have an      *)
(* UnmarshalXML of their own, which does not.                                *)
ComplexType == [key : Key, base : Key \cup {None}, abstract : BOOLEAN, named : BOOLEAN]

(* An element in the content of a complex type: a reference to `head', or a  *)
(* local element of that name with a type.                                   *)
Use == [container : Key, head : Key, local : BOOLEAN, type : Key \cup {None}]

Schema == [elements : Seq(Element), types : Seq(ComplexType), uses : Seq(Use)]

ASSUME PolymorphismAssumption ==
  /\ None \notin Key
  /\ Schemas \subseteq Schema

VARIABLES
  input,        \* the schema; never changes
  pc,           \* "collect", "close", "uses", "interfaces" or "done"
  relation,     \* the relation that is being closed
  at,           \* index of the next declaration, or of the next use
  direct,       \* what was collected: a key and those directly below it
  todo,         \* the keys of `direct' whose closures are to be computed
  head,         \* the one whose closure is being computed
  stack, found, \* `found' holds what `seen' and the result do
  closures,     \* the closures of both relations
  fields,       \* the uses that became polymorphic fields
  dynamicHeads, \* usedDynamicHeads
  interfaces,   \* meta.Interfaces
  skipAlias,    \* the elements that are marked SkipElementAlias
  impls,        \* PolymorphicImpls of each type
  customXML     \* the types that are marked CustomXML

vars == <<input, pc, relation, at, direct, todo, head, stack, found, closures, fields,
          dynamicHeads, interfaces, skipAlias, impls, customXML>>

-----------------------------------------------------------------------------

Relations == {"substitution", "derivation"}

(* The links of a relation, in the order of the declarations. *)
Links(rel) == IF rel = "substitution"
              THEN [i \in DOMAIN input.elements |->
                      [above |-> input.elements[i].head, key |-> input.elements[i].key]]
              ELSE [i \in DOMAIN input.types |->
                      [above |-> input.types[i].base, key |-> input.types[i].key]]

Below(rel, k) == {Links(rel)[i].key : i \in {j \in DOMAIN Links(rel) : Links(rel)[j].above = k}}

Linked(rel) == {Links(rel)[i].key : i \in DOMAIN Links(rel)}

(* All that is below k, written without recursion: the least set that holds  *)
(* what is directly below k and below its own members.                       *)
Closure(rel, k) ==
  {x \in Linked(rel) : \A S \in SUBSET Linked(rel) :
     Below(rel, k) \subseteq S /\ (\A y \in S : Below(rel, y) \subseteq S) => x \in S}

At(map, k) == IF k \in DOMAIN map THEN map[k] ELSE << >>

Put(map, k, value) == [x \in DOMAIN map \cup {k} |-> IF x = k THEN value ELSE map[x]]

LastWith(seq, k) ==
  seq[CHOOSE i \in DOMAIN seq : /\ seq[i].key = k
                                /\ \A j \in DOMAIN seq : seq[j].key = k => j <= i]

(* ctx.elements and ctx.complexTypes keep the last of several declarations.  *)
IsElement(k) == \E i \in DOMAIN input.elements : input.elements[i].key = k
ElementOf(k) == LastWith(input.elements, k)
IsComplex(k) == \E i \in DOMAIN input.types : input.types[i].key = k
TypeOf(k) == LastWith(input.types, k)
IsAbstract(k) == IsComplex(k) /\ TypeOf(k).abstract

(* buildTypeBase *)
TypeBase(k) ==
  LET extensions == {i \in DOMAIN input.types : input.types[i].key = k /\ input.types[i].base # None}
  IN  IF extensions = {} THEN None
      ELSE input.types[CHOOSE i \in extensions : \A j \in extensions : j <= i].base

Init ==
  /\ input \in Schemas
  /\ pc = "collect"
  /\ relation = "substitution"
  /\ at = 1
  /\ direct = << >>
  /\ todo = {}
  /\ head = None
  /\ stack = << >>
  /\ found = << >>
  /\ closures = [rel \in Relations |-> << >>]
  /\ fields = {}
  /\ dynamicHeads = << >>
  /\ interfaces = << >>
  /\ skipAlias = {}
  /\ impls = << >>
  /\ customXML = {}

-----------------------------------------------------------------------------
(* Closing a relation. *)

analysis == <<fields, dynamicHeads, interfaces, skipAlias, impls, customXML>>

Collect ==
  /\ pc = "collect"
  /\ at <= Len(Links(relation))
  /\ LET link == Links(relation)[at]
     IN  direct' = IF link.above = None THEN direct
                   ELSE Put(direct, link.above, Append(At(direct, link.above), link.key))
  /\ at' = at + 1
  /\ UNCHANGED <<input, pc, relation, todo, head, stack, found, closures, analysis>>

StartClosing ==
  /\ pc = "collect"
  /\ at > Len(Links(relation))
  /\ pc' = "close"
  /\ todo' = DOMAIN direct
  /\ UNCHANGED <<input, relation, at, direct, head, stack, found, closures, analysis>>

(* The heads are taken in the order of a Go map. *)
PickHead(h) ==
  /\ pc = "close"
  /\ head = None
  /\ h \in todo
  /\ head' = h
  /\ stack' = direct[h]
  /\ found' = << >>
  /\ UNCHANGED <<input, pc, relation, at, direct, todo, closures, analysis>>

Popping == pc = "close" /\ head # None /\ stack # << >>

(* Seeded fault: what was seen is pushed again. *)
PopSeenAgain ==
  /\ Popping
  /\ Last(stack) \in Range(found)
  /\ stack' = Front(stack) \o At(direct, Last(stack))
  /\ UNCHANGED <<input, pc, relation, at, direct, todo, head, found, closures, analysis>>

PopSeen ==
  /\ Popping
  /\ Last(stack) \in Range(found)
  /\ stack' = Front(stack)
  /\ UNCHANGED <<input, pc, relation, at, direct, todo, head, found, closures, analysis>>

(* Seeded fault: members of members are left out. *)
PopNewOnly ==
  /\ Popping
  /\ Last(stack) \notin Range(found)
  /\ found' = Append(found, Last(stack))
  /\ stack' = Front(stack)
  /\ UNCHANGED <<input, pc, relation, at, direct, todo, head, closures, analysis>>

PopNew ==
  /\ Popping
  /\ Last(stack) \notin Range(found)
  /\ found' = Append(found, Last(stack))
  /\ stack' = Front(stack) \o At(direct, Last(stack))
  /\ UNCHANGED <<input, pc, relation, at, direct, todo, head, closures, analysis>>

CloseHead ==
  /\ pc = "close"
  /\ head # None
  /\ stack = << >>
  /\ closures' = [closures EXCEPT ![relation] = Put(@, head, found)]
  /\ todo' = todo \ {head}
  /\ head' = None
  /\ UNCHANGED <<input, pc, relation, at, direct, stack, found, analysis>>

EndClosing ==
  /\ pc = "close"
  /\ head = None
  /\ todo = {}
  /\ IF relation = "substitution"
     THEN relation' = "derivation" /\ pc' = "collect"
     ELSE relation' = relation /\ pc' = "uses"
  /\ at' = 1
  /\ direct' = << >>
  /\ UNCHANGED <<input, todo, head, stack, found, closures, analysis>>

-----------------------------------------------------------------------------
(* Fields and interfaces. *)

closing == <<relation, direct, todo, head, stack, found, closures>>

Members(k) == At(closures["substitution"], k)
DerivedTypes(k) == At(closures["derivation"], k)

(* The type of the element that is used; ctx has no element of that name for *)
(* a local one, and for a reference that leads nowhere there is no type.     *)
UsedType(u) == IF u.local THEN u.type
               ELSE IF IsElement(u.head) THEN ElementOf(u.head).type ELSE None

(* fieldPolymorphic and localFieldPolymorphic *)
IsPolymorphic(u) ==
  LET derived == DerivedTypes(UsedType(u)) # << >>
  IN  IF u.local THEN IsAbstract(u.type) /\ derived
      ELSE IsElement(u.head) /\ (Members(u.head) # << >> \/ derived)

(* Seeded fault: where there are members, derived types are not looked for. *)
InterpretUseMembersOnly ==
  /\ pc = "uses"
  /\ at <= Len(input.uses)
  /\ LET u == input.uses[at]
     IN  /\ fields' = IF IsPolymorphic(u) THEN fields \cup {at} ELSE fields
         /\ dynamicHeads' = IF IsPolymorphic(u) /\ Members(u.head) = << >>
                                                /\ DerivedTypes(UsedType(u)) # << >>
                            THEN Put(dynamicHeads, u.head, UsedType(u)) ELSE dynamicHeads
  /\ at' = at + 1
  /\ UNCHANGED <<input, pc, closing, interfaces, skipAlias, impls, customXML>>

InterpretUse ==
  /\ pc = "uses"
  /\ at <= Len(input.uses)
  /\ LET u == input.uses[at]
     IN  /\ fields' = IF IsPolymorphic(u) THEN fields \cup {at} ELSE fields
         /\ dynamicHeads' = IF IsPolymorphic(u) /\ DerivedTypes(UsedType(u)) # << >>
                            THEN Put(dynamicHeads, u.head, UsedType(u)) ELSE dynamicHeads
  /\ at' = at + 1
  /\ UNCHANGED <<input, pc, closing, interfaces, skipAlias, impls, customXML>>

UsesDone ==
  /\ pc = "uses"
  /\ at > Len(input.uses)
  /\ pc' = "interfaces"
  /\ UNCHANGED <<input, at, closing, analysis>>

(* usedHeads, sorted *)
Heads == SetToSortSeq({input.uses[i].head : i \in fields}, Before)

(* typeDistance climbs from t to base after base: how many extensions lead   *)
(* to type k, and whether it climbs in a circle that k is not part of.       *)
Climbed(t) ==
  LET climbed[n \in 0..Len(input.types)] ==
        IF n = 0 THEN t ELSE TypeBase(climbed[n - 1])
  IN  climbed

Distances(t, k) == {n \in DOMAIN Climbed(t) : k # None /\ Climbed(t)[n] = k}

Endless(t, k) ==
  k # None /\ Distances(t, k) = {} /\ TypeBase(Climbed(t)[Len(input.types)]) # None

OwnHead(h) == IsElement(h) /\ ~ ElementOf(h).abstract
ElementsOf(h) == (IF IsElement(h) THEN <<h>> ELSE << >>) \o Members(h)

(* dynamicElementForType: the first element whose type is nearest. *)
ElementForType(h, t) ==
  LET elements == ElementsOf(h)
      distances(i) == Distances(t, ElementOf(elements[i]).type)
      usable == {i \in DOMAIN elements : distances(i) # {}}
      nearest == {i \in usable : \A j \in usable :
                    \E m \in distances(i) : \A n \in distances(j) : m <= n}
  IN  IF nearest = {} THEN h
      ELSE elements[CHOOSE i \in nearest : \A j \in nearest : i <= j]

Entry(dispatch, element, type, xsi) ==
  [dispatch |-> dispatch, element |-> element, type |-> type, xsi |-> xsi]

(* addSubstitutionMember *)
ElementEntries(h) ==
  LET all == (IF OwnHead(h) THEN <<h>> ELSE << >>) \o Members(h)
      kept == SelectSeq(all, LAMBDA k : ElementOf(k).type \notin BuiltIn \cup {None})
  IN  [i \in DOMAIN kept |-> Entry(kept[i], kept[i], ElementOf(kept[i]).type, FALSE)]

(* The types that stand where h is used beside those of the elements. *)
DynamicTypes(h) ==
  IF h \notin DOMAIN dynamicHeads THEN << >>
  ELSE SelectSeq((IF OwnHead(h) THEN <<dynamicHeads[h]>> ELSE << >>) \o DerivedTypes(dynamicHeads[h]),
                 LAMBDA t : ~ IsAbstract(t))

(* Seeded fault: no entry of a type asks for an xsi:type. *)
TypeEntriesUnmarked(h) ==
  [i \in DOMAIN DynamicTypes(h) |->
     LET t == DynamicTypes(h)[i] IN Entry(t, ElementForType(h, t), t, FALSE)]

(* addDynamicMember *)
TypeEntries(h) ==
  [i \in DOMAIN DynamicTypes(h) |->
     LET t == DynamicTypes(h)[i]
     IN  Entry(t, ElementForType(h, t), t, ~ (OwnHead(h) /\ t = dynamicHeads[h]))]

(* The first element of each name that occurs in a sequence. *)
FirstOfEach(seq, Name(_)) ==
  LET firsts == SelectSeq([i \in DOMAIN seq |-> i],
                          LAMBDA i : \A j \in 1..(i - 1) : Name(seq[j]) # Name(seq[i]))
  IN  [n \in DOMAIN firsts |-> seq[firsts[n]]]

(* seenDispatch: of several entries for one name the first is taken. *)
Registry(h) == FirstOfEach(ElementEntries(h) \o TypeEntries(h), LAMBDA e : e.dispatch)

(* appendPolymorphicImpl, for each entry of the registry. *)
ImplsAfter(h, registry, type) ==
  LET new == SelectSeq(registry, LAMBDA e : e.type = type)
  IN  FirstOfEach(At(impls, type) \o [n \in DOMAIN new |-> <<h, new[n].element>>],
                  LAMBDA impl : impl)

(* Where types extend each other in a circle dynamicElementForType need not   *)
(* return.                                                                    *)
ElementsFound(h) ==
  \A t \in Range(DynamicTypes(h)) \ {e.dispatch : e \in Range(ElementEntries(h))} :
    \A k \in Range(ElementsOf(h)) : ~ Endless(t, ElementOf(k).type)

MakeInterface ==
  /\ pc = "interfaces"
  /\ Len(interfaces) < Len(Heads)
  /\ LET h == Heads[Len(interfaces) + 1]
         registry == Registry(h)
         declared == {input.types[i].key : i \in DOMAIN input.types}
     IN  /\ ElementsFound(h)
         /\ interfaces' = Append(interfaces, [head |-> h, entries |-> registry])
         /\ skipAlias' = skipAlias \cup {k \in {h} \cup Range(Members(h)) : IsElement(k)}
         /\ impls' = [t \in DOMAIN impls \cup declared |-> ImplsAfter(h, registry, t)]
  /\ UNCHANGED <<input, pc, at, closing, fields, dynamicHeads, customXML>>

MarkContainers ==
  /\ pc = "interfaces"
  /\ Len(interfaces) = Len(Heads)
  /\ customXML' = {input.uses[i].container : i \in fields}
  /\ pc' = "done"
  /\ UNCHANGED <<input, at, closing, fields, dynamicHeads, interfaces, skipAlias, impls>>

Closing ==
  \/ Collect
  \/ StartClosing
  \/ \E h \in Key : PickHead(h)
  \/ PopSeen
  \/ PopNew
  \/ CloseHead
  \/ EndClosing

Next ==
  \/ Closing
  \/ InterpretUse
  \/ UsesDone
  \/ MakeInterface
  \/ MarkContainers

(* One thread closes the relations; what follows are loops over sequences    *)
(* that do not grow.                                                          *)
Spec == Init /\ [][Next]_vars /\ WF_vars(Closing)

-----------------------------------------------------------------------------
(* The generated code: UnmarshalXML and MarshalXML of a container. *)

(* The tag of XMLName is that of the first implementation. *)
XMLName(t) == At(impls, t)[1][2]

RegistryOf(i) ==
  LET n == CHOOSE m \in DOMAIN interfaces : interfaces[m].head = input.uses[i].head
  IN  Range(interfaces[n].entries)

(* A container looks an element up in the registries of its polymorphic      *)
(* fields, one after the other: under its xsi:type or, without one, under    *)
(* its name.  What none of them knows is skipped; a value whose XMLName is   *)
(* another one is refused.                                                    *)
Knowing(container, dispatch) ==
  {i \in fields : /\ input.uses[i].container = container
                  /\ \E e \in RegistryOf(i) : e.dispatch = dispatch}

IsNamed(t) == IsComplex(t) /\ TypeOf(t).named

Read(container, element, xsi) ==
  LET dispatch == IF xsi = None THEN element ELSE xsi
      known == Knowing(container, dispatch)
      field == CHOOSE i \in known : \A j \in known : i <= j
  IN  IF known = {} THEN {}
      ELSE {[slot |-> input.uses[field].head, type |-> e.type] :
              e \in {f \in RegistryOf(field) :
                       f.dispatch = dispatch /\ (IsNamed(f.type) => XMLName(f.type) = element)}}

(* A value is written with any entry of its type: the registry is a Go map.  *)
(* The MarshalXML of a container gives itself the name of its type, whatever *)
(* element and xsi:type it is told to write.                                  *)
WrittenWith(i, t) == {e \in RegistryOf(i) : e.type = t}
WrittenAs(e) ==
  IF e.type \in customXML THEN [element |-> e.type, xsi |-> None]
  ELSE [element |-> e.element, xsi |-> IF e.xsi THEN e.type ELSE None]

(* The elements that may stand where u is used, with their types.            *)
DerivesFrom(t, k) == t = k \/ Distances(t, k) # {}
DeclaredType(u, element) == IF u.local THEN u.type ELSE ElementOf(element).type
MayStand(u) ==
  IF u.local THEN {u.head}
  ELSE {k \in {u.head} \cup Closure("substitution", u.head) :
          IsElement(k) /\ ~ ElementOf(k).abstract}
Valid(u, element, t) ==
  /\ element \in MayStand(u)
  /\ DerivesFrom(t, DeclaredType(u, element))
  /\ ~ IsAbstract(t)
XSITypeOf(u, element, t) == IF t = DeclaredType(u, element) THEN None ELSE t

TypesInUse == {input.types[i].key : i \in DOMAIN input.types} \cup BuiltIn \cup {None}
Documents(u) == {d \in MayStand(u) \X TypesInUse : Valid(u, d[1], d[2])}

-----------------------------------------------------------------------------

PolyTypeOK ==
  /\ relation \in Relations
  /\ pc \in {"collect", "close", "uses", "interfaces", "done"}
  /\ at \in Nat \ {0}
  /\ DOMAIN direct \subseteq Key
  /\ \A k \in DOMAIN direct : direct[k] \in Seq(Key)
  /\ todo \subseteq DOMAIN direct
  /\ head \in todo \cup {None}
  /\ stack \in Seq(Key)
  /\ found \in Seq(Key)
  /\ fields \subseteq DOMAIN input.uses

(* A closure holds what is below its key, at whatever depth, and each member *)
(* once: buildSubstitutionGroups and buildDerivedTypes.                      *)
ClosuresComplete ==
  \A rel \in Relations : \A k \in DOMAIN closures[rel] :
    /\ Range(closures[rel][k]) = Closure(rel, k)
    /\ \A i, j \in DOMAIN closures[rel][k] :
         closures[rel][k][i] = closures[rel][k][j] => i = j

(* Another slot of the container may know an element or a type as well, and   *)
(* encoding/xml compares the one name that the struct of a type has.          *)
Unambiguous(i, dispatch, t) ==
  /\ \A j \in Knowing(input.uses[i].container, dispatch) : input.uses[j].head = input.uses[i].head
  /\ IsNamed(t) => \A m, n \in DOMAIN At(impls, t) : At(impls, t)[m][2] = At(impls, t)[n][2]

HasNamedType(u, element) == DeclaredType(u, element) \notin BuiltIn \cup {None}

(* An element that is valid where a polymorphic field is read is read into    *)
(* that field and as its type.  It is skipped only if its element was declared*)
(* with a built-in or an anonymous type, which addSubstitutionMember leaves   *)
(* out of the registry, or if it has an xsi:type and the element in whose     *)
(* place it stands was declared so, of which no derived types are known.      *)
(* ("Calls d.Skip() only for truly unknown elements",                         *)
(* docs/DESIGN_DECISIONS.md.)                                                 *)
ValidIsRead ==
  pc = "done" =>
    \A i \in fields : \A d \in Documents(input.uses[i]) :
      LET u == input.uses[i]
          xsi == XSITypeOf(u, d[1], d[2])
          value == Read(u.container, d[1], xsi)
      IN  Unambiguous(i, IF xsi = None THEN d[1] ELSE xsi, d[2]) =>
            \/ value = {[slot |-> u.head, type |-> d[2]]}
            \/ value = {} /\ ~ HasNamedType(u, IF xsi = None THEN d[1] ELSE u.head)

(* What is written is read again as what it was, into the field that wrote   *)
(* it, whichever entry the encoder takes, unless it is a container itself.   *)
(* What was read from a valid document is written as a valid one: not as an  *)
(* abstract element, and with an xsi:type unless the type is the element's   *)
(* own.                                                                       *)
WrittenIsRead ==
  pc = "done" =>
    \A i \in fields :
      /\ \A e \in RegistryOf(i) :
           /\ ~ IsAbstract(e.type) /\ e.type \notin customXML
           /\ Unambiguous(i, e.dispatch, e.type)
           => Read(input.uses[i].container, WrittenAs(e).element, WrittenAs(e).xsi)
                = {[slot |-> input.uses[i].head, type |-> e.type]}
      /\ \A d \in Documents(input.uses[i]) : \A e \in WrittenWith(i, d[2]) :
           e.type \notin customXML =>
             /\ Valid(input.uses[i], WrittenAs(e).element, d[2])
             /\ WrittenAs(e).xsi = None => d[2] = DeclaredType(input.uses[i], WrittenAs(e).element)

(* Elements that substitute for each other in a circle do not keep the       *)
(* closing of a relation going.                                               *)
ClosingEnds == <>(pc \notin {"collect", "close"})
=============================================================================
