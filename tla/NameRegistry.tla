---------------------------- MODULE NameRegistry ----------------------------
(***************************************************************************)
(* The names of the generated declarations: buildNameRegistry, and what    *)
(* GenerateWithOptions declares under them.                                *)
(*                                                                         *)
(* The registry gives out names group by group: a group are the            *)
(* declarations whose names make the same Go identifier, its base.  Then   *)
(* every type is declared in the package of its namespace, with the        *)
(* constants of its enumeration or the helpers of its content, and with    *)
(* the name that an older generator gave it, unless that one is in use.    *)
(***************************************************************************)
EXTENDS UniqueNames, Sequences, SequencesExt

CONSTANTS
  Namespace, Local, Ident, Package, Value,
  None,            \* the empty name
  Text(_),         \* string literals of the generator as identifiers
  Joined(_,_),     \* one string after another
  Before(_,_),     \* the order of strings
  GoName(_,_),     \* goName of a local name, or of what the bindings put for it
  GoNameOf(_),     \* goName of a local name, the bindings aside
  LegacyGoName(_), \* legacyGoName of a local name
  NamespacePrefix(_),
  PackageOf(_),    \* packageForNamespace
  GoPart(_),       \* goName of an enumeration value
  LegacyConstPart(_),
  Inputs,          \* the lists of declarations to consider
  InterfaceLists   \* the lists of polymorphic interfaces to consider

Kinds == {"complexType", "simpleType", "element"}

(* `type' is the type of an element; `parts' are the values of an enumeration *)
(* or the Go names of the fields of a choice.  `skip' marks an element that   *)
(* is not declared.                                                           *)
MetaDecl == [kind : Kinds, namespace : Namespace, local : Local,
             type : (Namespace \X Local) \cup {None}, skip : BOOLEAN, parts : Seq(Value)]

Interface == [name : Ident, package : Package]

ASSUME RegistryAssumption ==
  /\ Inputs \subseteq Seq(MetaDecl)
  /\ InterfaceLists \subseteq Seq(Interface)

Orders(S) ==
  /\ \A a \in S : ~ Before(a, a)
  /\ \A a, b \in S : a = b \/ Before(a, b) \/ Before(b, a)
  /\ \A a, b, c \in S : Before(a, b) /\ Before(b, c) => Before(a, c)

ASSUME StringsAreOrdered ==
  /\ Orders(Namespace)
  /\ Orders(Local)
  /\ Orders({GoName(d[1], d[2]) : d \in Namespace \X Local})

VARIABLES
  input,                \* meta.Types; never changes
  interfaces,           \* meta.Interfaces; never changes
  bases,                \* the bases whose groups have no names yet, sorted
  at,                   \* index in the group of the first of them
  used,                 \* the names given out
  declarations,         \* nameRegistry.declarations
  types,                \* nameRegistry.types
  implementationTypes,  \* nameRegistry.implementationTypes
  next,                 \* index of the next type to declare
  emitted,              \* what the packages declare
  legacyAliases,        \* the aliases that may be declared after them
  pc                    \* "names", "types", "aliases" or "done"

vars == <<input, interfaces, bases, at, used, declarations, types,
          implementationTypes, next, emitted, legacyAliases, pc>>

-----------------------------------------------------------------------------

KeyOf(d) == <<d.kind, d.namespace, d.local>>
QNameOf(d) == <<d.namespace, d.local>>
IsType(d) == d.kind # "element"
Base(d) == GoName(d.namespace, d.local)

(* In a schema complex and simple types share their names, elements have     *)
(* their own.                                                                 *)
DistinctKeys(ds) ==
  \A i, j \in DOMAIN ds :
    QNameOf(ds[i]) = QNameOf(ds[j]) /\ (IsType(ds[i]) <=> IsType(ds[j])) => i = j

(* collectDeclarations *)
Declared == {i \in DOMAIN input : /\ ~ (input[i].kind = "element" /\ input[i].skip)
                                  /\ Base(input[i]) # None}

KindRank(kind) == CASE kind = "complexType" -> 0
                    [] kind = "simpleType" -> 1
                    [] kind = "element" -> 2

DeclarationLess(i, j) ==
  LET a == input[i]
      b == input[j]
  IN  \/ Before(a.namespace, b.namespace)
      \/ a.namespace = b.namespace /\ Before(a.local, b.local)
      \/ QNameOf(a) = QNameOf(b) /\ KindRank(a.kind) < KindRank(b.kind)

(* The members of a finite set, each where as many as come before it do.     *)
InOrder(S, less(_,_)) ==
  [n \in 1..Cardinality(S) |-> CHOOSE x \in S : Cardinality({y \in S : less(y, x)}) = n - 1]

SortedBases == InOrder({Base(input[i]) : i \in Declared}, Before)

Group == LET members == {i \in Declared : Base(input[i]) = Head(bases)}
             sorted == InOrder(members, DeclarationLess)
         IN  [n \in DOMAIN sorted |-> input[sorted[n]]]

AllSameNamespace == \A n \in DOMAIN Group : Group[n].namespace = Group[1].namespace
HasElement == \E n \in DOMAIN Group : Group[n].kind = "element"

(* The name to ask for, before the interfaces are looked at. *)
PlainName(d) ==
  LET base == Head(bases)
  IN  IF Len(Group) = 1 THEN base
      ELSE IF ~ AllSameNamespace THEN Joined(NamespacePrefix(d.namespace), base)
      ELSE IF HasElement THEN IF d.kind = "element" THEN base ELSE Joined(base, Text("Type"))
      ELSE IF at = 1 THEN base ELSE Numbered(base, at)

InterfaceNames == {interfaces[n].name : n \in DOMAIN interfaces}

Candidate(d) ==
  IF PlainName(d) \in InterfaceNames
  THEN Joined(PlainName(d), Text("Type")) ELSE PlainName(d)

Put(map, key, value) == Take(map, key, value)

Init ==
  /\ input \in Inputs
  /\ interfaces \in InterfaceLists
  /\ bases = SortedBases
  /\ at = 1
  /\ used = [name \in InterfaceNames |-> 1]
  /\ declarations = << >>
  /\ types = << >>
  /\ implementationTypes = << >>
  /\ next = 1
  /\ emitted = << >>
  /\ legacyAliases = << >>
  /\ pc = "names"

InGroup == pc = "names" /\ bases # << >>

(* Seeded fault: a suffixed name is not noted. *)
AssignUncounted(d, unique) ==
  /\ used' = Take(used, Candidate(d), 1)
  /\ declarations' = Put(declarations, KeyOf(d), unique.name)
  /\ implementationTypes' = IF IsType(d)
                            THEN Put(implementationTypes, QNameOf(d), unique.name)
                            ELSE implementationTypes

(* The name d gets; `used' and the maps change with it. *)
Assign(d, unique) ==
  /\ used' = unique.used
  /\ declarations' = Put(declarations, KeyOf(d), unique.name)
  /\ implementationTypes' = IF IsType(d)
                            THEN Put(implementationTypes, QNameOf(d), unique.name)
                            ELSE implementationTypes

AssignName ==
  /\ InGroup
  /\ at <= Len(Group)
  /\ Assign(Group[at], UniqueName(Candidate(Group[at]), used))
  /\ at' = at + 1
  /\ UNCHANGED <<input, interfaces, bases, types, next, emitted, legacyAliases, pc>>

(* The element that stands for a type where both have the same base: the     *)
(* first one of that type.                                                    *)
StandsFor(e, d) ==
  e.kind = "element" /\ e.namespace = d.namespace /\ e.type = QNameOf(d)

(* Seeded fault: any element of the namespace stands for the type. *)
PublicNameOfAny(d) ==
  LET elements == {n \in DOMAIN Group : Group[n].kind = "element"
                                          /\ Group[n].namespace = d.namespace}
      first == CHOOSE n \in elements : \A m \in elements : n <= m
  IN  IF elements = {} THEN declarations[KeyOf(d)] ELSE declarations[KeyOf(Group[first])]

PublicName(d) ==
  LET elements == {n \in DOMAIN Group : StandsFor(Group[n], d)}
      first == CHOOSE n \in elements : \A m \in elements : n <= m
  IN  IF elements = {} THEN declarations[KeyOf(d)] ELSE declarations[KeyOf(Group[first])]

(* When all of a group have names the types get theirs, the later one if a   *)
(* complex and a simple type share a name.                                    *)
PublishTypes ==
  /\ InGroup
  /\ at > Len(Group)
  /\ LET ofGroup == {n \in DOMAIN Group : IsType(Group[n])}
         named == {QNameOf(Group[n]) : n \in ofGroup}
         last(q) == CHOOSE n \in ofGroup : /\ QNameOf(Group[n]) = q
                                           /\ \A m \in ofGroup : QNameOf(Group[m]) = q => m <= n
     IN  types' = [q \in DOMAIN types \cup named |->
                     IF q \in named THEN PublicName(Group[last(q)]) ELSE types[q]]
  /\ bases' = Tail(bases)
  /\ at' = 1
  /\ UNCHANGED <<input, interfaces, used, declarations, implementationTypes, next,
                 emitted, legacyAliases, pc>>

NamesDone ==
  /\ pc = "names"
  /\ bases = << >>
  /\ pc' = "types"
  /\ UNCHANGED <<input, interfaces, bases, at, used, declarations, types,
                 implementationTypes, next, emitted, legacyAliases>>

-----------------------------------------------------------------------------
(* What is declared. *)

DeclarationName(d) ==
  IF KeyOf(d) \in DOMAIN declarations THEN declarations[KeyOf(d)] ELSE GoNameOf(d.local)

(* generateEnumConsts: a constant for each value, and the name that an older *)
(* generator gave it if no constant before has it.                            *)
EnumConsts(type, values) ==
  LET base(n, names) == IF GoPart(values[n]) # None THEN GoPart(values[n])
                        ELSE Numbered(Text("Value"), Len(names) + 1)
      after[n \in 0..Len(values)] ==
        IF n = 0 THEN [used |-> << >>, names |-> << >>]
        ELSE IF \E m \in 1..(n - 1) : values[m] = values[n] THEN after[n - 1]
        ELSE LET before == after[n - 1]
                 new == UniqueName(Joined(type, base(n, before.names)), before.used)
                 names == Append(before.names, new.name)
                 part == LegacyConstPart(values[n])
                 legacy == Joined(type, part)
             IN  IF \/ part \in {None, base(n, before.names)}
                    \/ Taken(new.used, legacy) # 0
                 THEN [used |-> new.used, names |-> names]
                 ELSE [used |-> Take(new.used, legacy, 1), names |-> Append(names, legacy)]
  IN  after[Len(values)].names

(* buildChoiceDecl: the interface of the content and a type per branch. *)
ChoiceHelpers(type, fields) ==
  LET content == Joined(type, Text("Content"))
  IN  IF Len(fields) < 2 THEN << >>
      ELSE <<content>> \o [n \in DOMAIN fields |-> Joined(content, fields[n])]

Helpers(d, name) == CASE d.kind = "simpleType" -> EnumConsts(name, d.parts)
                      [] d.kind = "complexType" -> ChoiceHelpers(name, d.parts)
                      [] d.kind = "element" -> << >>

In(package, name, what) == [package |-> package, name |-> name, what |-> what]

DeclareType ==
  /\ pc = "types"
  /\ next <= Len(input)
  /\ LET d == input[next]
         package == PackageOf(d.namespace)
         name == DeclarationName(d)
         helpers == Helpers(d, name)
         legacy == LegacyGoName(d.local)
     IN  IF d.kind = "element" /\ d.skip
         THEN UNCHANGED <<emitted, legacyAliases>>
         ELSE /\ emitted' = Append(emitted, In(package, name, "type"))
                              \o [n \in DOMAIN helpers |-> In(package, helpers[n], "helper")]
              /\ legacyAliases' = IF legacy \in {None, name} \/ name = None THEN legacyAliases
                                  ELSE Append(legacyAliases, In(package, legacy, "alias"))
  /\ next' = next + 1
  /\ UNCHANGED <<input, interfaces, bases, at, used, declarations, types,
                 implementationTypes, pc>>

DeclareInterfaces ==
  /\ pc = "types"
  /\ next > Len(input)
  /\ emitted' = emitted \o [n \in DOMAIN interfaces |->
                              In(interfaces[n].package, interfaces[n].name, "interface")]
  /\ pc' = "aliases"
  /\ UNCHANGED <<input, interfaces, bases, at, used, declarations, types,
                 implementationTypes, next, legacyAliases>>

(* Seeded fault: an alias hides the type that has its name. *)
DeclareEveryAlias ==
  /\ pc = "aliases"
  /\ legacyAliases # << >>
  /\ emitted' = Append(emitted, Head(legacyAliases))
  /\ legacyAliases' = Tail(legacyAliases)
  /\ UNCHANGED <<input, interfaces, bases, at, used, declarations, types,
                 implementationTypes, next, pc>>

(* appendLegacyAliases looks at types, interfaces and earlier aliases. *)
DeclareAlias ==
  /\ pc = "aliases"
  /\ legacyAliases # << >>
  /\ LET alias == Head(legacyAliases)
         inUse == \E n \in DOMAIN emitted : /\ emitted[n].package = alias.package
                                            /\ emitted[n].name = alias.name
                                            /\ emitted[n].what # "helper"
     IN  emitted' = IF inUse THEN emitted ELSE Append(emitted, alias)
  /\ legacyAliases' = Tail(legacyAliases)
  /\ UNCHANGED <<input, interfaces, bases, at, used, declarations, types,
                 implementationTypes, next, pc>>

Finish ==
  /\ pc = "aliases"
  /\ legacyAliases = << >>
  /\ pc' = "done"
  /\ UNCHANGED <<input, interfaces, bases, at, used, declarations, types,
                 implementationTypes, next, emitted, legacyAliases>>

Next ==
  \/ AssignName
  \/ PublishTypes
  \/ NamesDone
  \/ DeclareType
  \/ DeclareInterfaces
  \/ DeclareAlias
  \/ Finish

Spec == Init /\ [][Next]_vars

-----------------------------------------------------------------------------

RegistryTypeOK ==
  /\ at \in 1..(Len(input) + 1)
  /\ \A name \in DOMAIN used : used[name] \in Nat \ {0}
  /\ DOMAIN declarations \subseteq {KeyOf(input[i]) : i \in Declared}
  /\ DOMAIN types \subseteq DOMAIN implementationTypes
  /\ next \in 1..(Len(input) + 1)
  /\ pc \in {"names", "types", "aliases", "done"}

(* No two declarations get one name, nor does one get the name of an         *)
(* interface, whatever suffixes and prefixes make of the bases.               *)
NamesUnique ==
  /\ \A k, l \in DOMAIN declarations : declarations[k] = declarations[l] => k = l
  /\ \A k \in DOMAIN declarations : declarations[k] \notin InterfaceNames

(* The name under which a type is referred to is its own, or that of an      *)
(* element of that very type.                                                 *)
PublicNames ==
  /\ RegistryTypeOK
  /\ pc # "names" =>
       \A i \in {n \in Declared : IsType(input[n])} :
         \E j \in Declared : /\ types[QNameOf(input[i])] = declarations[KeyOf(input[j])]
                             /\ \/ j = i
                                \/ StandsFor(input[j], input[i])

(* A package declares a name once ("generated code compiles",                *)
(* docs/IMPLEMENTATION_PLAN.md).                                              *)
DeclaredOnce ==
  \A m, n \in DOMAIN emitted :
    emitted[m].package = emitted[n].package /\ emitted[m].name = emitted[n].name => m = n
=============================================================================
