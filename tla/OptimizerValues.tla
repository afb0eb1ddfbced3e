-------------------------- MODULE OptimizerValues --------------------------
(***************************************************************************)
(* What the optimizer may do to a schema, said in terms of the values that *)
(* its types accept.  A name of a type means the set of its values, under  *)
(* the types as they were interpreted and under the optimized ones.        *)
(***************************************************************************)
EXTENDS Optimizer, SequencesExt

CONSTANTS
  Space(_),   \* the values of a built-in type
  Allowed(_)  \* the values that a facet other than an enumeration allows

FacetValues(facets) ==
  {v \in UNION {Space(q) : q \in XSDNames} :
     /\ HasEnumerations(facets) =>
          \E i \in DOMAIN facets : facets[i] = [name |-> "enumeration", value |-> v]
     /\ \A i \in DOMAIN facets :
          facets[i].name = "other" => v \in Allowed(facets[i].value)}

EnumValues(facets) ==
  IF HasEnumerations(facets) THEN FacetValues(facets) ELSE {}

(* The values of t when `mean' gives those of the names in it.  As in the   *)
(* generated code a list comes before a union, and the enumeration that     *)
(* mergeEnumUnions leaves beside a union adds to it.                         *)
ValuesOf(t, mean) ==
  LET shape == [shape |-> [i \in DOMAIN t.fields |-> t.fields[i].name]]
      ofUnion == (UNION {mean[t.union.members[i]] : i \in DOMAIN t.union.members})
                   \cup (IF t.alias = None THEN {} ELSE EnumValues(t.alias.facets))
  IN  IF t.dup # None THEN mean[t.dup]
      ELSE IF t.kind = "complexType" THEN {shape}
      ELSE IF t.list # None THEN {[item |-> v] : v \in mean[t.list.item] \ {EmptyValue}}
      ELSE IF t.union # None THEN ofUnion
      ELSE IF t.alias # None THEN mean[t.alias.base] \cap FacetValues(t.alias.facets)
      ELSE {}

(* A name in a type means a type, even where an element has that name too. *)
TypeNamed(ts, q) ==
  FindMetaType(AtPlaces(ts, {i \in DOMAIN ts : ts[i].kind # "element"}), q)

(* The least meaning of every name: references are followed once more in    *)
(* each round, and no chain of them is longer than the list of types.        *)
Meaning(ts) ==
  LET mean[n \in Nat] ==
        LET before == mean[n - 1]
            value(q) == IF q \in XSDNames THEN Space(q)
                        ELSE IF n = 0 \/ TypeNamed(ts, q) = None THEN {}
                        ELSE ValuesOf(TypeNamed(ts, q), before)
        IN  [q \in QName |-> value(q)]
  IN  mean[Len(ts)]

(* The names whose values the generated code checks: those of the types and *)
(* those in the places where types are used, before and now.                 *)
Uses == {<<input[i].key, types[i].key>> : i \in DOMAIN types} \cup
        UNION {{<<input[i].fields[j].type, types[i].fields[j].type>> :
                  j \in DOMAIN types[i].fields} : i \in DOMAIN types}

-----------------------------------------------------------------------------

(* Every variable is in its type, and the walk never leaves the passes that *)
(* visit unions.                                                             *)
OptimizerTypeOK ==
  /\ types \in Seq(MetaType)
  /\ Len(types) = Len(input)
  /\ members \in Seq(QName)
  /\ pass \in 1..(Len(Pipeline) + 1)
  /\ at \in 0..(Len(types) + 1)
  /\ \A map \in {typedefs, local} \ {None} :
       DOMAIN map \subseteq QName /\ \A q \in DOMAIN map : map[q] \in QName
  /\ enumOnly \subseteq QName
  /\ canonical \subseteq QName
  /\ changed => Pipeline[pass] = "removeDuplicates"
  /\ walk # None => Pipeline[pass] \in {"flattenUnions", "mergeEnumUnions"}
  /\ outcome \in {"running", "done", "overflow"}

(* A value that a document could hold before the optimization it can hold    *)
(* after it, in every type and wherever a type is used ("simplify unions     *)
(* where safe", docs/WORKFLOW.md).  Empty strings are left out: dropping     *)
(* empty enumeration values is what removeEmptyEnumVariants is for.          *)
NoValueLost ==
  outcome = "done" =>
    LET before == Meaning(input)
        after == Meaning(types)
    IN  \A u \in Uses : before[u[1]] \ {EmptyValue} \subseteq after[u[2]]

(* The facets of a schema are still enforced: no type accepts a value that   *)
(* it did not accept before.                                                 *)
NoValueGained ==
  outcome = "done" =>
    LET before == Meaning(input)
        after == Meaning(types)
    IN  \A u \in Uses : after[u[2]] \subseteq before[u[1]]

(* Duplicates lead to a type that the generator declares, in any number of   *)
(* steps but never in a circle: it renders each one as a Go alias of its     *)
(* target.                                                                   *)
DuplicatesEnd ==
  walk = None =>
    LET next == [q \in {types[i].key : i \in {j \in DOMAIN types : types[j].dup # None}} |->
                   (CHOOSE t \in Range(types) : t.key = q /\ t.dup # None).dup]
    IN  \A q \in DOMAIN next :
          LET end == EndOfChain(next, q)
          IN  /\ end \notin DOMAIN next
              /\ end \in XSDNames \/ TypeNamed(types, end) # None

(* A duplicate stays a duplicate of the type it was found to duplicate. *)
DuplicatesStay ==
  [][\A i \in DOMAIN types : types[i].dup # None => types'[i].dup = types[i].dup]_vars

(* No two types share a name; an element may have the name of a type.        *)
UniqueTypeNames ==
  \A ts \in Inputs : \A i, j \in {n \in DOMAIN ts : ts[n].kind # "element"} :
    ts[i].key = ts[j].key => i = j

(* A type equals at most one of the canonical types, so the order in which   *)
(* Go iterates over their map does not show in the generated code.           *)
OneCanonical ==
  Within("removeDuplicates") /\ IsDuplicateCandidate(types[at]) =>
    \A j, k \in EqualCanonicals : j = k

(* The names that t is a restriction, an alias or a union of. *)
BasesOf(t) ==
  (IF t.alias = None THEN {} ELSE {t.alias.base})
  \cup (IF t.union = None THEN {} ELSE Range(t.union.members))

DeclaredNames(ts) ==
  XSDNames \cup {ts[i].key : i \in {j \in DOMAIN ts : ts[j].kind # "element"}}

(* Every base is declared and ranks lower than what is made of it.           *)
BasesRankLower(ts, rank) ==
  \A i \in DOMAIN ts : \A q \in BasesOf(ts[i]) :
    q \in DeclaredNames(ts) /\ rank[q] < rank[ts[i].key]

(* No type is made of itself, in any number of steps, or of what nobody      *)
(* declares.                                                                  *)
NoCircles == \A ts \in Inputs : \E rank \in [QName -> Nat] : BasesRankLower(ts, rank)

(* No schema declares a name of the built-in namespace.                      *)
NoBuiltinRedeclared ==
  \A ts \in Inputs : \A i \in DOMAIN ts : ts[i].key \notin XSDNames

ReferencesOf(t) ==
  {t.fields[j].type : j \in {n \in DOMAIN t.fields : ~ t.fields[n].chardata}}
  \cup (IF t.alias = None THEN {} ELSE {t.alias.base})
  \cup (IF t.list = None THEN {} ELSE {t.list.item})
  \cup (IF t.union = None THEN {} ELSE Range(t.union.members))

(* When a pass that resolves typedefs is over nothing but a duplicate itself *)
(* refers to a duplicate or to an unrestricted alias.                        *)
ReferencesResolved ==
  /\ OptimizerTypeOK
  /\ (Between /\ pass > 1 /\ Pipeline[pass - 1] = "resolveTypedefs"
              /\ Enabled("resolveTypedefs")) =>
       \A q \in (UNION {ReferencesOf(types[i]) : i \in DOMAIN types}) \cup Range(members) :
         \A i \in DOMAIN types : types[i].key = q => ~ IsTypedef(types[i])

(* The recursion over unions ends on every schema. *)
NeverOverflows == outcome # "overflow"

(* Run comes to an end: the rounds of removeDuplicates do, and so does every *)
(* walk over a union, if only in an overflow.                                *)
RunReturns == <>(outcome # "running")
=============================================================================
