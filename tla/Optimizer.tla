----------------------------- MODULE Optimizer -----------------------------
(***************************************************************************)
(* internal/optimizer: Run applies the enabled passes, in a fixed order,   *)
(* to the list of interpreted types.  Every pass walks the list; the       *)
(* passes share a cache of the typedef map, which some of them drop when   *)
(* they turn a type into a duplicate of another one and some do not.       *)
(*                                                                         *)
(* flattenUnions and mergeEnumUnions visit the members of a union          *)
(* recursively while they change the types they visit.  Their recursion is *)
(* a walk over `todo', the calls still to be made with their depth; Go     *)
(* ends the program when the stack outgrows its limit.                     *)
(*                                                                         *)
(* A type is the part of interpreter.MetaType that the passes look at.     *)
(* The passes that are no-ops in Go, and the one for xs:anyType, which no  *)
(* caller enables, are left out.                                           *)
(***************************************************************************)
EXTENDS Naturals, Sequences, Selections

CONSTANTS
  QName,            \* qualified names of types
  XSDNames,         \* those that isXSDNamespace takes for built-in types
  StringName,       \* xs:string
  NamespaceOf(_),   \* the namespace of a name
  ScalarBucket(_),  \* the Go representation scalarBucket gives a built-in type
  FacetValue,       \* values of facets
  EmptyValue,       \* the empty one
  FieldName,        \* names of fields
  None,             \* a nil pointer or an empty name
  StackLimit,       \* the deepest recursion the Go runtime allows
  Flags,            \* the passes that are enabled
  Inputs,           \* the lists of types to consider
  MemberLists       \* the interface members to consider

Facet == [name : {"enumeration", "other"}, value : FacetValue]

(* ref is the reference as written in the schema; it is never rewritten. *)
MetaAlias == [ref : QName \cup {None}, base : QName, facets : Seq(Facet)]
MetaList  == [ref : QName, item : QName]
MetaUnion == [refs : Seq(QName), members : Seq(QName)]
MetaField == [name : FieldName, ref : QName, type : QName, chardata : BOOLEAN]

(* The one field of an element holds its type; `plain' says that a type has *)
(* no custom XML, no mixed content and no part in polymorphism.             *)
MetaType ==
  [kind : {"element", "complexType", "simpleType"}, key : QName, plain : BOOLEAN,
   alias : MetaAlias \cup {None}, list : MetaList \cup {None},
   union : MetaUnion \cup {None}, fields : Seq(MetaField),
   dup : QName \cup {None}]

ASSUME NameAssumption ==
  /\ XSDNames \subseteq QName
  /\ StringName \in XSDNames
  /\ EmptyValue \in FacetValue
  /\ None \notin QName \cup MetaAlias \cup MetaList \cup MetaUnion \cup MetaType

ASSUME InputAssumption ==
  /\ Inputs \subseteq Seq(MetaType)
  /\ \A ts \in Inputs : \A i \in DOMAIN ts :
       /\ ts[i].dup = None
       /\ ts[i].kind = "element" => ts[i].alias = None /\ ts[i].list = None /\ ts[i].union = None
  /\ MemberLists \subseteq Seq(QName)
  /\ StackLimit \in Nat \ {0}

-----------------------------------------------------------------------------

VARIABLES
  input,      \* the types as they were interpreted; never changes
  types,      \* meta.Types
  members,    \* the concrete types of the members of meta.Interfaces
  pass,       \* index of the current pass in Pipeline
  at,         \* index of the type the pass looks at, 0 before it is entered
  typedefs,   \* Optimizer.typedefs, None when it is dropped
  local,      \* the typedef map a pass took when it was entered
  enumOnly,   \* Optimizer.enumOnlyTypes
  canonical,  \* the types that the current round found no duplicate of
  changed,    \* whether the current round found a duplicate
  walk,       \* the visit of a union's members, None outside of it
  outcome     \* "running", "done" or "overflow"

vars == <<input, types, members, pass, at, typedefs, local, enumOnly,
          canonical, changed, walk, outcome>>

Pipeline ==
  <<"useUnrestrictedBaseType", "removeEmptyEnumVariants", "removeEmptyEnums",
    "flattenUnions", "mergeEnumUnions", "resolveTypedefs",
    "removeDuplicateUnionVariants", "removeEmptyUnions", "removeDuplicates",
    "resolveTypedefs", "removeEmptyEnumVariants", "removeEmptyEnums",
    "removeDuplicateUnionVariants", "removeEmptyUnions">>

BaseFlags == {"UseUnrestrictedBaseComplex", "UseUnrestrictedBaseSimple",
              "UseUnrestrictedBaseEnum", "UseUnrestrictedBaseUnion"}

Enabled(p) == IF p = "useUnrestrictedBaseType" THEN Flags \cap BaseFlags # {}
              ELSE p \in Flags

DefaultFlags == {"removeEmptyEnumVariants", "removeEmptyEnums",
                 "removeDuplicateUnionVariants", "removeEmptyUnions",
                 "UseUnrestrictedBaseSimple", "resolveTypedefs", "removeDuplicates"}

FlagSerde == {"flattenUnions", "mergeEnumUnions"}

-----------------------------------------------------------------------------
(* Helpers on types and typedef maps. *)

(* The first type or element of a name, None if there is none. *)
FindMetaType(ts, q) ==
  LET hits == {i \in DOMAIN ts : ts[i].key = q}
  IN  IF hits = {} THEN None ELSE ts[CHOOSE i \in hits : \A j \in hits : i <= j]

IsDuplicate(t) == t # None /\ t.dup # None

HasAlias(t) == t # None /\ t.alias # None

HasEnumerations(facets) == \E i \in DOMAIN facets : facets[i].name = "enumeration"

OnlyEnumerations(facets) ==
  facets # << >> /\ \A i \in DOMAIN facets : facets[i].name = "enumeration"

(* An unrestricted alias of a type of the schema, or a duplicate. *)
IsTypedef(t) ==
  \/ t.dup # None
  \/ /\ t.kind = "simpleType"
     /\ HasAlias(t)
     /\ t.alias.facets = << >>
     /\ t.alias.base \notin XSDNames

(* Of two typedefs of one name the last one counts. *)
BuildTypedefMap(ts) ==
  LET defs == {i \in DOMAIN ts : IsTypedef(ts[i])}
      last(q) == CHOOSE i \in defs : /\ ts[i].key = q
                                     /\ \A j \in defs : ts[j].key = q => j <= i
  IN  [q \in {ts[i].key : i \in defs} |->
         IF ts[last(q)].dup # None THEN ts[last(q)].dup ELSE ts[last(q)].alias.base]

(* What `next' leads to from q, or the first name that comes up again. *)
EndOfChain(next, q) ==
  LET chain[n \in Nat] ==
        IF n = 0 THEN q
        ELSE LET here == chain[n - 1]
             IN  IF here \in DOMAIN next THEN next[here] ELSE here
      end == CHOOSE n \in 0..(Len(types) + 1) :
               /\ \/ chain[n] \notin DOMAIN next
                  \/ \E m \in 0..(n - 1) : chain[m] = chain[n]
               /\ \A k \in 0..(n - 1) :
                    /\ chain[k] \in DOMAIN next
                    /\ \A m \in 0..(k - 1) : chain[m] # chain[k]
  IN  chain[end]

(* Seeded fault: only one typedef is followed. *)
ResolveOnce(defs, q) == IF q \in DOMAIN defs THEN defs[q] ELSE q

ResolveQName(defs, q) == EndOfChain(defs, q)

(* One turn of unionMemberKey and what it ends at; built-in types are then   *)
(* compared by their Go representation.                                      *)
NextKey(defs) ==
  [q \in {k \in {types[i].key : i \in DOMAIN types} : IsDuplicate(FindMetaType(types, k))} |->
     ResolveQName(defs, FindMetaType(types, q).dup)]

EndlessKey(defs, q) == EndOfChain(NextKey(defs), ResolveQName(defs, q)) \in DOMAIN NextKey(defs)

UnionMemberKey(defs, q) ==
  LET end == EndOfChain(NextKey(defs), ResolveQName(defs, q))
  IN  IF end \in XSDNames THEN ScalarBucket(end) ELSE end

(* One turn of the loop in unrestrictedQName, which climbs the aliases, those *)
(* with facets too, and stops at one that leads back to itself.              *)
ResolvedBase(defs, q) == ResolveQName(defs, FindMetaType(types, q).alias.base)

NextBase(defs) ==
  [q \in {k \in {types[i].key : i \in DOMAIN types} \ XSDNames :
            HasAlias(FindMetaType(types, k)) /\ ResolvedBase(defs, k) # k} |->
     ResolvedBase(defs, q)]

UnrestrictedQName(defs, q) == EndOfChain(NextBase(defs), ResolveQName(defs, q))

MarkDuplicate(t, target) ==
  [t EXCEPT !.dup = target, !.alias = None, !.list = None, !.union = None,
            !.fields = << >>]

-----------------------------------------------------------------------------

Init ==
  /\ input \in Inputs
  /\ types = input
  /\ members \in MemberLists
  /\ pass = 1
  /\ at = 0
  /\ typedefs = None
  /\ local = None
  /\ enumOnly = {}
  /\ canonical = {}
  /\ changed = FALSE
  /\ walk = None
  /\ outcome = "running"

Between == outcome = "running" /\ pass <= Len(Pipeline) /\ at = 0

Within(p) == /\ outcome = "running"
             /\ pass <= Len(Pipeline)
             /\ Pipeline[pass] = p
             /\ at \in DOMAIN types

GetTypedefs == IF typedefs = None THEN BuildTypedefMap(types) ELSE typedefs

SkipPass ==
  /\ Between
  /\ ~ Enabled(Pipeline[pass])
  /\ pass' = pass + 1
  /\ UNCHANGED <<input, types, members, at, typedefs, local, enumOnly,
                 canonical, changed, walk, outcome>>

EnterPass ==
  /\ Between
  /\ Enabled(Pipeline[pass])
  /\ at' = 1
  /\ LET p == Pipeline[pass]
         cached == p \in {"useUnrestrictedBaseType", "removeDuplicateUnionVariants"}
     IN  /\ typedefs' = IF cached THEN GetTypedefs ELSE typedefs
         /\ local' = CASE cached -> GetTypedefs
                       [] p = "resolveTypedefs" -> BuildTypedefMap(types)
                       [] OTHER -> local
  /\ canonical' = {}
  /\ changed' = FALSE
  /\ UNCHANGED <<input, types, members, pass, enumOnly, walk, outcome>>

(* removeDuplicates goes over the list until a round changes nothing; the   *)
(* members of the interfaces are resolved after the types.                   *)
LeavePass ==
  /\ outcome = "running"
  /\ at > Len(types)
  /\ ~ changed
  /\ pass' = pass + 1
  /\ at' = 0
  /\ IF Pipeline[pass] = "resolveTypedefs"
     THEN /\ members' = [i \in DOMAIN members |-> ResolveQName(local, members[i])]
          /\ typedefs' = None
     ELSE UNCHANGED <<members, typedefs>>
  /\ UNCHANGED <<input, types, local, enumOnly, canonical, changed, walk, outcome>>

(* Seeded fault: changed is not reset for the next round. *)
RoundStillChanged ==
  /\ outcome = "running"
  /\ at > Len(types)
  /\ changed
  /\ at' = 1
  /\ canonical' = {}
  /\ UNCHANGED <<input, types, members, pass, typedefs, local, enumOnly, changed,
                 walk, outcome>>

AnotherRound ==
  /\ outcome = "running"
  /\ at > Len(types)
  /\ changed
  /\ at' = 1
  /\ canonical' = {}
  /\ changed' = FALSE
  /\ UNCHANGED <<input, types, members, pass, typedefs, local, enumOnly, walk, outcome>>

Finish ==
  /\ outcome = "running"
  /\ pass > Len(Pipeline)
  /\ outcome' = "done"
  /\ UNCHANGED <<input, types, members, pass, at, typedefs, local, enumOnly,
                 canonical, changed, walk>>

(* The pass replaces the type it is at by t and goes on to the next one.     *)
Replace(t) == types' = [types EXCEPT ![at] = t] /\ at' = at + 1

-----------------------------------------------------------------------------
(* The passes, one type at a time. *)

(* Where useUnrestrictedSimpleType begins to climb, None where it returns.   *)
ClimbsFrom(t) ==
  IF t.dup # None \/ t.kind # "simpleType" \/ t.list # None THEN None
  ELSE IF t.union # None
  THEN IF "UseUnrestrictedBaseUnion" \in Flags /\ t.union.members # << >>
       THEN t.union.members[1] ELSE None
  ELSE IF t.alias = None THEN None
  ELSE IF HasEnumerations(t.alias.facets)
  THEN IF "UseUnrestrictedBaseEnum" \in Flags THEN t.alias.base ELSE None
  ELSE IF "UseUnrestrictedBaseSimple" \in Flags /\ t.alias.facets = << >>
       THEN t.alias.base ELSE None

(* The base put in place of the type, None if it is an alias of itself.      *)
UnrestrictedBase(t) ==
  LET base == UnrestrictedQName(local, ClimbsFrom(t))
  IN  IF \/ ClimbsFrom(t) = None
         \/ t.union = None /\ t.alias.facets = << >> /\ base = t.key
      THEN None ELSE base

(* Between two aliases that lead to each other it climbs for ever.           *)
ClimbEnds(t) ==
  ClimbsFrom(t) # None => UnrestrictedQName(local, ClimbsFrom(t)) \notin DOMAIN NextBase(local)

UseUnrestrictedBaseType ==
  /\ Within("useUnrestrictedBaseType")
  /\ ClimbEnds(types[at])
  /\ LET base == UnrestrictedBase(types[at])
     IN  IF base = None
         THEN Replace(types[at]) /\ UNCHANGED typedefs
         ELSE Replace(MarkDuplicate(types[at], base)) /\ typedefs' = None
  /\ UNCHANGED <<input, members, pass, local, enumOnly, canonical, changed, walk, outcome>>

RemoveEmptyEnumVariants ==
  /\ Within("removeEmptyEnumVariants")
  /\ LET t == types[at]
         facets == t.alias.facets
         empty == {i \in DOMAIN facets : facets[i] = [name |-> "enumeration", value |-> EmptyValue]}
     IN  IF t.kind = "simpleType" /\ t.alias # None
         THEN /\ enumOnly' = IF OnlyEnumerations(facets)
                             THEN enumOnly \cup {t.key} ELSE enumOnly
              /\ Replace([t EXCEPT !.alias.facets = AtPlaces(facets, DOMAIN facets \ empty)])
         ELSE Replace(t) /\ UNCHANGED enumOnly
  /\ UNCHANGED <<input, members, pass, typedefs, local, canonical, changed, walk, outcome>>

(* An enumeration that lost all its values. *)
IsEmptyEnum(t) ==
  /\ t.kind = "simpleType"
  /\ t.alias # None /\ t.list = None /\ t.union = None
  /\ t.dup = None
  /\ t.key \in enumOnly
  /\ ~ HasEnumerations(t.alias.facets)

RemoveEmptyEnums ==
  /\ Within("removeEmptyEnums")
  /\ LET t == types[at]
     IN  IF IsEmptyEnum(t)
         THEN Replace(MarkDuplicate(t, t.alias.base)) /\ typedefs' = None
         ELSE Replace(t) /\ UNCHANGED typedefs
  /\ UNCHANGED <<input, members, pass, local, enumOnly, canonical, changed, walk, outcome>>

LiveUnion(t) == t.kind = "simpleType" /\ t.union # None /\ t.dup = None

(* The first of several members of one key is kept. *)
FirstOfEachKey(names) ==
  LET keys == [i \in DOMAIN names |-> UnionMemberKey(local, names[i])]
  IN  AtPlaces(names, {i \in DOMAIN names : \A j \in 1..(i - 1) : keys[j] # keys[i]})

(* unionMemberKey calls itself for ever on duplicates of each other.         *)
KeysEndless ==
  /\ Within("removeDuplicateUnionVariants")
  /\ LiveUnion(types[at])
  /\ \E i \in DOMAIN types[at].union.members : EndlessKey(local, types[at].union.members[i])

RemoveDuplicateUnionVariants ==
  /\ Within("removeDuplicateUnionVariants")
  /\ ~ KeysEndless
  /\ Replace(IF LiveUnion(types[at])
             THEN [types[at] EXCEPT !.union.members = FirstOfEachKey(@)]
             ELSE types[at])
  /\ UNCHANGED <<input, members, pass, typedefs, local, enumOnly, canonical,
                 changed, walk, outcome>>

(* Seeded fault: a union of two members is taken for one of one. *)
RemoveUnionsOfTwo ==
  /\ Within("removeEmptyUnions")
  /\ LET t == types[at]
     IN  IF LiveUnion(t) /\ Len(t.union.members) \in {1, 2}
         THEN Replace(MarkDuplicate(t, t.union.members[1])) /\ typedefs' = None
         ELSE Replace(t) /\ UNCHANGED typedefs
  /\ UNCHANGED <<input, members, pass, local, enumOnly, canonical, changed, walk, outcome>>

(* A union of one member; one of none stays as it is. *)
RemoveEmptyUnions ==
  /\ Within("removeEmptyUnions")
  /\ LET t == types[at]
     IN  IF LiveUnion(t) /\ Len(t.union.members) = 1
         THEN Replace(MarkDuplicate(t, t.union.members[1])) /\ typedefs' = None
         ELSE Replace(t) /\ UNCHANGED typedefs
  /\ UNCHANGED <<input, members, pass, local, enumOnly, canonical, changed, walk, outcome>>

(* resolveMetaType; the type of character data is left alone. *)
Resolved(t) ==
  LET to(q) == ResolveQName(local, q)
      alias == [t.alias EXCEPT !.base = to(t.alias.base)]
      list == [t.list EXCEPT !.item = to(t.list.item)]
      names == t.union.members
      union == [t.union EXCEPT !.members = [i \in DOMAIN names |-> to(names[i])]]
      field(f) == IF f.chardata THEN f ELSE [f EXCEPT !.type = to(f.type)]
  IN  [t EXCEPT !.alias = IF t.alias = None THEN None ELSE alias,
                !.list = IF t.list = None THEN None ELSE list,
                !.union = IF t.union = None THEN None ELSE union,
                !.fields = [i \in DOMAIN t.fields |-> field(t.fields[i])]]

ResolveTypedefs ==
  /\ Within("resolveTypedefs")
  /\ Replace(Resolved(types[at]))
  /\ UNCHANGED <<input, members, pass, typedefs, local, enumOnly, canonical,
                 changed, walk, outcome>>

(* Seeded fault: a duplicate may be marked again. *)
CandidateAgain(t) == t.kind \in {"complexType", "simpleType"} /\ t.plain

IsDuplicateCandidate(t) ==
  t.dup = None /\ t.kind \in {"complexType", "simpleType"} /\ t.plain

MetaTypesEqual(a, b) ==
  /\ b # None
  /\ a.kind = b.kind
  /\ a.key # b.key
  /\ NamespaceOf(a.key) = NamespaceOf(b.key)
  /\ <<a.fields, a.alias, a.list, a.union>> = <<b.fields, b.alias, b.list, b.union>>

(* The canonical types that are equal to the one the pass is at; Go's map    *)
(* iteration picks any of them.                                               *)
EqualCanonicals ==
  {k \in canonical : MetaTypesEqual(types[at], FindMetaType(types, k))}

(* Seeded fault: an equal type may stay canonical as well. *)
RemoveSomeDuplicates ==
  /\ Within("removeDuplicates")
  /\ LET t == types[at]
     IN  \/ /\ IsDuplicateCandidate(t)
            /\ \E k \in EqualCanonicals : Replace(MarkDuplicate(t, k))
            /\ changed' = TRUE
            /\ UNCHANGED canonical
         \/ /\ canonical' = IF IsDuplicateCandidate(t) THEN canonical \cup {t.key}
                            ELSE canonical
            /\ Replace(t)
            /\ UNCHANGED changed
  /\ UNCHANGED <<input, members, pass, typedefs, local, enumOnly, walk, outcome>>

RemoveDuplicates ==
  /\ Within("removeDuplicates")
  /\ LET t == types[at]
     IN  \/ /\ IsDuplicateCandidate(t)
            /\ \E k \in EqualCanonicals : Replace(MarkDuplicate(t, k))
            /\ changed' = TRUE
            /\ UNCHANGED canonical
         \/ /\ IsDuplicateCandidate(t) => EqualCanonicals = {}
            /\ canonical' = IF IsDuplicateCandidate(t) THEN canonical \cup {t.key}
                            ELSE canonical
            /\ Replace(t)
            /\ UNCHANGED changed
  /\ UNCHANGED <<input, members, pass, typedefs, local, enumOnly, walk, outcome>>

-----------------------------------------------------------------------------
(* flattenUnion and mergeEnumUnion: the visit of the members of a union.     *)

InWalk(p) == Within(p) /\ walk # None

Calls(names, depth) == [i \in DOMAIN names |-> [name |-> names[i], depth |-> depth]]

StartWalk ==
  /\ \/ Within("flattenUnions")
     \/ Within("mergeEnumUnions")
  /\ walk = None
  /\ LiveUnion(types[at])
  /\ typedefs' = GetTypedefs
  /\ walk' = [todo |-> Calls(types[at].union.members, 1),
              facets |-> << >>, leaves |-> << >>, keys |-> {}]
  /\ UNCHANGED <<input, types, members, pass, at, local, enumOnly, canonical,
                 changed, outcome>>

SkipWalk ==
  /\ \/ Within("flattenUnions")
     \/ Within("mergeEnumUnions")
  /\ walk = None
  /\ ~ LiveUnion(types[at])
  /\ at' = at + 1
  /\ UNCHANGED <<input, types, members, pass, typedefs, local, enumOnly,
                 canonical, changed, walk, outcome>>

(* The member that the walk is at, resolved and looked up. *)
Visited == ResolveQName(typedefs, Head(walk.todo).name)
VisitedType == FindMetaType(types, Visited)

Walking == /\ walk # None
           /\ walk.todo # << >>
           /\ InWalk("flattenUnions") \/ InWalk("mergeEnumUnions")

(* A duplicate is visited in its target, a union in its members. *)
IsLeaf == ~ (/\ VisitedType # None
             /\ VisitedType.dup # None \/ VisitedType.union # None)

Descend ==
  /\ Walking
  /\ ~ IsLeaf
  /\ Head(walk.todo).depth < StackLimit
  /\ LET below == IF IsDuplicate(VisitedType) THEN <<VisitedType.dup>>
                  ELSE VisitedType.union.members
     IN  walk' = [walk EXCEPT !.todo =
                    Calls(below, Head(walk.todo).depth + 1) \o Tail(@)]
  /\ UNCHANGED <<input, types, members, pass, at, typedefs, local, enumOnly,
                 canonical, changed, outcome>>

TooDeep == Walking /\ ~ IsLeaf /\ Head(walk.todo).depth = StackLimit

Overflow ==
  /\ TooDeep \/ KeysEndless
  /\ outcome' = "overflow"
  /\ UNCHANGED <<input, types, members, pass, at, typedefs, local, enumOnly,
                 canonical, changed, walk>>

FlattenLeaf ==
  /\ Walking
  /\ Pipeline[pass] = "flattenUnions"
  /\ IsLeaf
  /\ walk' = [walk EXCEPT !.todo = Tail(@), !.leaves = Append(@, Visited)]
  /\ UNCHANGED <<input, types, members, pass, at, typedefs, local, enumOnly,
                 canonical, changed, outcome>>

IsEnumLeaf == IsLeaf /\ HasAlias(VisitedType) /\ OnlyEnumerations(VisitedType.alias.facets)

(* Seeded fault: the walk does not go on after the enumeration. *)
MergeEnumTwice ==
  /\ Walking
  /\ Pipeline[pass] = "mergeEnumUnions"
  /\ IsEnumLeaf
  /\ walk' = [walk EXCEPT !.facets = @ \o VisitedType.alias.facets]
  /\ types' = [i \in DOMAIN types |->
                 IF types[i].key = Visited THEN MarkDuplicate(types[i], types[at].key)
                 ELSE types[i]]
  /\ UNCHANGED <<input, members, pass, at, typedefs, local, enumOnly,
                 canonical, changed, outcome>>

(* Seeded fault: the enumeration becomes a duplicate of itself. *)
MergeEnumIntoItself ==
  /\ Walking
  /\ Pipeline[pass] = "mergeEnumUnions"
  /\ IsEnumLeaf
  /\ walk' = [walk EXCEPT !.todo = Tail(@), !.facets = @ \o VisitedType.alias.facets]
  /\ types' = [i \in DOMAIN types |->
                 IF types[i].key = Visited THEN MarkDuplicate(types[i], Visited)
                 ELSE types[i]]
  /\ UNCHANGED <<input, members, pass, at, typedefs, local, enumOnly,
                 canonical, changed, outcome>>

(* The union takes the values of an enumeration, which becomes a duplicate   *)
(* of the union; the typedef cache is kept.                                   *)
MergeEnum ==
  /\ Walking
  /\ Pipeline[pass] = "mergeEnumUnions"
  /\ IsEnumLeaf
  /\ walk' = [walk EXCEPT !.todo = Tail(@),
                          !.facets = @ \o VisitedType.alias.facets]
  /\ types' = IF Visited = types[at].key THEN types
              ELSE LET e == CHOOSE i \in DOMAIN types :
                              /\ types[i].key = Visited
                              /\ \A j \in 1..(i - 1) : types[j].key # Visited
                   IN  [types EXCEPT ![e] = MarkDuplicate(@, types[at].key)]
  /\ UNCHANGED <<input, members, pass, at, typedefs, local, enumOnly,
                 canonical, changed, outcome>>

MergeLeaf ==
  /\ Walking
  /\ Pipeline[pass] = "mergeEnumUnions"
  /\ IsLeaf
  /\ ~ IsEnumLeaf
  /\ LET key == UnionMemberKey(typedefs, Visited)
     IN  walk' = [walk EXCEPT !.todo = Tail(@),
                    !.leaves = IF key \in walk.keys THEN @ ELSE Append(@, Visited),
                    !.keys = @ \cup {key}]
  /\ UNCHANGED <<input, types, members, pass, at, typedefs, local, enumOnly,
                 canonical, changed, outcome>>

WalkEnds(p) == InWalk(p) /\ walk.todo = << >> /\ walk' = None

EndFlatten ==
  /\ WalkEnds("flattenUnions")
  /\ Replace([types[at] EXCEPT !.union.members = walk.leaves])
  /\ UNCHANGED <<input, members, pass, typedefs, local, enumOnly, canonical,
                 changed, outcome>>

(* The base of the first member that is still an alias, else xs:string. *)
MergedBase(names) ==
  LET type(i) == FindMetaType(types, ResolveQName(typedefs, names[i]))
      aliases == {i \in DOMAIN names : HasAlias(type(i))}
  IN  IF aliases = {} THEN StringName
      ELSE type(CHOOSE i \in aliases : \A j \in aliases : i <= j).alias.base

(* Seeded fault: a union loses the members that are no enumerations. *)
MergedEnumsOnly(t) ==
  IF walk.facets = << >> THEN t
  ELSE [t EXCEPT !.union = None,
                 !.alias = [ref |-> None, base |-> StringName, facets |-> walk.facets]]

Merged(t) ==
  LET enum(base) == [ref |-> None, base |-> base, facets |-> walk.facets]
  IN  CASE walk.facets = << >> -> t
        [] walk.facets # << >> /\ walk.leaves = << >> ->
             [t EXCEPT !.union = None, !.alias = enum(MergedBase(t.union.members))]
        [] OTHER ->
             [t EXCEPT !.union.members = walk.leaves, !.alias = enum(StringName)]

EndMerge ==
  /\ WalkEnds("mergeEnumUnions")
  /\ Replace(Merged(types[at]))
  /\ UNCHANGED <<input, members, pass, typedefs, local, enumOnly, canonical,
                 changed, outcome>>

-----------------------------------------------------------------------------

Next ==
  \/ SkipPass
  \/ EnterPass
  \/ LeavePass
  \/ AnotherRound
  \/ Finish
  \/ UseUnrestrictedBaseType
  \/ RemoveEmptyEnumVariants
  \/ RemoveEmptyEnums
  \/ RemoveDuplicateUnionVariants
  \/ RemoveEmptyUnions
  \/ ResolveTypedefs
  \/ RemoveDuplicates
  \/ StartWalk
  \/ SkipWalk
  \/ Descend
  \/ Overflow
  \/ FlattenLeaf
  \/ MergeEnum
  \/ MergeLeaf
  \/ EndFlatten
  \/ EndMerge

(* Run is one call in one goroutine: it goes on while it can. *)
Spec == Init /\ [][Next]_vars /\ WF_vars(Next)
=============================================================================
