---------------------------- MODULE MCOptimizer ----------------------------
(***************************************************************************)
(* Small schemas for the optimizer: three or four simple types that refer  *)
(* to each other without a circle, complex types that use them and an      *)
(* element, in several orders.                                              *)
(***************************************************************************)
EXTENDS OptimizerValues, FiniteSets, TLC

CONSTANTS Empty, X, Y, One, True, Date  \* values

MCXSD == {"string", "int", "bool", "date"}
MCQName == MCXSD \cup {"A", "B", "C", "E", "F", "U", "V", "R", "S", "el"}
MCNamespaceOf(q) == IF q \in MCXSD THEN "xsd" ELSE "ns"
MCBucket(q) == IF q = "date" THEN "string bucket" ELSE q \o " bucket"

MCValues == {Empty, X, Y, One, True, Date}
MCSpace(q) == CASE q = "string" -> MCValues
                [] q = "int" -> {One}
                [] q = "bool" -> {One, True}
                [] OTHER -> {Date}
MCAllowed(v) == MCValues \ {v}
MCFieldNames == {"f", "g"}
MCMembers == {<<"R", "A">>}

ASSUME NamesAreUnique == UniqueTypeNames

(* Types are made of types that come earlier here. *)
MCRank == [q \in QName |->
             CASE q \in {"A", "E"} -> 1 [] q \in {"B", "F"} -> 2 [] q \in {"C", "V"} -> 3
               [] q = "U" -> 4 [] OTHER -> 0]

ASSUME BasesComeFirst ==
  NoBuiltinRedeclared /\ \A ts \in Inputs : BasesRankLower(ts, MCRank)

Bare(kind, q) == [kind |-> kind, key |-> q, plain |-> TRUE, alias |-> None,
                  list |-> None, union |-> None, fields |-> << >>, dup |-> None]
Enum(v) == [name |-> "enumeration", value |-> v]
Other(v) == [name |-> "other", value |-> v]
Alias(q, base, facets) ==
  [Bare("simpleType", q) EXCEPT !.alias = [ref |-> base, base |-> base, facets |-> facets]]
Union(q, names) ==
  [Bare("simpleType", q) EXCEPT !.union = [refs |-> names, members |-> names]]
List(q, item) == [Bare("simpleType", q) EXCEPT !.list = [ref |-> item, item |-> item]]
Field(name, q, chardata) == [name |-> name, ref |-> q, type |-> q, chardata |-> chardata]
Complex(q, fields) == [Bare("complexType", q) EXCEPT !.fields = fields]
Element(q, type) == [Bare("element", q) EXCEPT !.fields = <<Field("f", type, FALSE)>>]

(* The types that use the others: R and S may be the same up to their names. *)
Users(el, s) == <<Complex("R", <<Field("f", "B", FALSE), Field("g", "A", TRUE)>>), s,
                  Element(el, "C")>>
SameUsers == Users("el", Complex("S", <<Field("f", "B", FALSE), Field("g", "A", TRUE)>>))

(* An element may have the name of a type; findMetaType then finds either.  *)
OtherUsers == Users("B", [Complex("S", <<Field("f", "C", FALSE)>>) EXCEPT !.plain = FALSE])

As(q) == {Alias(q, "string", f) : f \in {<< >>, <<Enum(X)>>, <<Enum(Empty)>>,
                                         <<Enum(X), Enum(Empty)>>, <<Other(Y)>>}}
           \cup {Alias(q, "int", << >>), List(q, "string"), Union(q, <<"int", "bool">>)}
Bs == {Alias("B", "string", << >>), Alias("B", "string", <<Enum(X)>>)}
        \cup {Alias("B", "A", f) : f \in {<< >>, <<Enum(X)>>, <<Other(Y)>>}}
        \cup {Union("B", <<"A", "int">>), Union("B", <<"A">>), List("B", "A")}
Cs == {Alias("C", "B", << >>), Alias("C", "string", <<Enum(X)>>), Alias("C", "A", <<Other(X)>>),
       Union("C", <<"A", "B">>), Union("C", <<"B", "int", "B">>), List("C", "B")}

DefaultInputs ==
  UNION {{<<a, b, c>> \o SameUsers, OtherUsers \o <<c, b, a>>} :
           a \in As("A"), b \in Bs, c \in Cs}

AllFlags == DefaultFlags \cup FlagSerde

(* Two enumerations and two unions for the passes over unions. *)
Enums == {<<Alias("E", "string", <<Enum(X)>>), f>> :
            f \in {Alias("F", "string", <<Enum(Y), Enum(Empty)>>), Alias("F", "E", << >>)}}
Vs == {Union("V", n) : n \in {<<"int", "bool">>, <<"F">>, <<"F", "int", "bool">>, <<"bool">>}}
Items == {"E", "F", "V", "int", "bool"}
Us == {Union("U", <<a, b>>) : a, b \in Items}
        \cup {Union("U", <<a, b, c>>) : a \in {"E", "V", "int"}, b, c \in Items}
UnionInputs ==
  UNION {{e \o <<v, u, Element("el", "U")>>, <<Element("el", "E"), u, v>> \o e} :
           e \in Enums, v \in Vs, u \in Us}

Named(ts, q) == CHOOSE t \in Range(ts) : t.key = q
IsEnumName(ts, q) ==
  \E t \in Range(ts) : t.key = q /\ t.alias # None /\ t.alias.facets # << >>
                         /\ OnlyEnumerations(t.alias.facets)
IsAliasOfEnum(ts, q) == \E t \in Range(ts) : t.key = q /\ t.alias # None /\ t.alias.base = "E"
FlatMembers(ts, q) ==
  LET flat(m) == IF m = "V" THEN Named(ts, "V").union.members ELSE <<m>>
      names == Named(ts, q).union.members
      seqs == [i \in DOMAIN names |-> flat(names[i])]
      all == FlattenSeq(seqs)
  IN  [i \in DOMAIN all |-> IF IsAliasOfEnum(ts, all[i]) THEN "E" ELSE all[i]]
EnumsIn(ts, q) == {n \in Range(FlatMembers(ts, q)) : IsEnumName(ts, n)}

(* No enumeration is reached twice, by one union or by two; what is left of *)
(* a union beside its enumerations is nothing or at least two members.       *)
Apart(ts) ==
  /\ EnumsIn(ts, "U") \cap EnumsIn(ts, "V") = {}
  /\ \A q \in {"U", "V"} :
       LET flat == FlatMembers(ts, q)
           rest == Range(flat) \ EnumsIn(ts, q)
       IN  /\ \A i, j \in DOMAIN flat : flat[i] \in EnumsIn(ts, q) /\ flat[i] = flat[j] => i = j
           /\ EnumsIn(ts, q) # {} => Cardinality(rest) # 1

(* Where they are apart, flattening and merging unions loses no value; see    *)
(* collectEnumUnionMember and mergeEnumUnion.                                 *)
ApartLosesNoValue == Apart(input) => NoValueLost

(* Where they are apart, the recursion over unions ends.                      *)
ApartNeverOverflows == Apart(input) => NeverOverflows

(* Two unions of the same two enumerations. *)
SharedInputs ==
  {<<Alias("E", "string", <<Enum(X)>>), Alias("F", "string", <<Enum(Y)>>),
     Union("U", <<"E", "F">>), Union("V", <<"E", "F">>)>>}

(* An enumeration or an integer, as in the values of maxOccurs. *)
EnumOrIntInputs ==
  {<<Alias("E", "string", <<Enum(X)>>), Union("U", <<"int", "E">>)>>}

(* A date or any string; a date comes first. *)
DateOrStringInputs == {<<Union("U", <<"date", "string">>)>>}

(* An alias of a type with a facet. *)
FacetInputs == {<<Alias("A", "string", <<Other(Y)>>), Alias("B", "A", << >>)>>}
=============================================================================
