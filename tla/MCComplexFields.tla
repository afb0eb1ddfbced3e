--------------------------- MODULE MCComplexFields ---------------------------
(***************************************************************************)
(* Small schemas for ComplexFields: every content model of a table, and     *)
(* three types that derive from each other in every way, cycles included,    *)
(* with attribute groups that refer to each other.                           *)
(***************************************************************************)
EXTENDS ComplexFields, TLC

MCNamespace == {"", "one", "two"}
Many == 9

Particle(kind, name, children, min, max) ==
  [kind |-> kind, name |-> name, ns |-> "", ref |-> FALSE, qualified |-> TRUE,
   refers |-> "", children |-> children, min |-> min, max |-> max]

El(name, min, max) == Particle("element", name, << >>, min, max)
Local(name) == [El(name, 1, 1) EXCEPT !.qualified = FALSE]
RefEl(name, min, max) == [El(name, min, max) EXCEPT !.ref = TRUE, !.ns = "two"]
Group(kind, children, min, max) == Particle(kind, "", children, min, max)
GroupRef(name, min, max) == [Particle("", "", << >>, min, max) EXCEPT !.refers = name]

(* Leaves first, then groups of them; 18 is inside of itself. *)
Particles == <<
  El("a", 1, 1), Local("b"), El("c", 0, Many), RefEl("g", 1, 1), Particle("any", "", << >>, 0, Many),
  Group("sequence", <<1, 2, 3>>, 1, 1),
  Group("choice", <<1, 4, 5>>, 1, 1),
  Group("choice", <<6, 7, 1>>, 0, Many),
  Group("choice", <<8>>, 1, 2),
  Group("sequence", <<1, 7, 2, 8>>, 0, Many),
  Group("all", <<2, 1>>, 0, 1),
  GroupRef("G", 0, Many),
  Group("choice", <<3, 14, 1>>, 1, 1),
  GroupRef("H", 1, 1),
  Group("sequence", <<2, 11, 4>>, 1, 1),
  GroupRef("unknown", 1, 1),
  Group("sequence", <<12, 16, 14, 9, 1>>, 1, 1),
  Group("sequence", <<1, 19>>, 1, 1),
  GroupRef("Loop", 1, 1)>>

Groups == "G" :> 13 @@ "H" :> 15 @@ "Loop" :> 18

Attribute(name) ==
  [name |-> name, ref |-> FALSE, ns |-> "", qualified |-> name = "p", required |-> name \in {"p", "r"}]

(* A and B refer to each other, D to what both reach. *)
AttributeGroups ==
  LET group(attribute, groups, any) ==
        [attributes |-> <<Attribute(attribute)>>, attributeGroups |-> groups, any |-> any]
  IN  "A" :> group("p", <<"B">>, 0) @@ "B" :> group("q", <<"C", "A">>, 0)
      @@ "C" :> group("r", << >>, 1) @@ "D" :> group("s", <<"B", "C">>, 0)

Type(name, ns, kind, base, content, groups) ==
  [name |-> name, ns |-> ns, kind |-> kind, base |-> base, content |-> content,
   attributes |-> <<Attribute(name)>>, attributeGroups |-> groups, any |-> 0,
   enumerated |-> name # "T3"]

SchemaOf(types) ==
  [types |-> types, particles |-> Particles, groups |-> Groups, attributeGroups |-> AttributeGroups,
   elements |-> {"g"}]

Contents == {<<n>> : n \in 1..17} \cup {<<10, 12>>}

ContentModels ==
  {SchemaOf(<<Type("T1", "one", "extension", "T2", content, <<"D">>),
              Type("T2", "two", "plain", "", <<7>>, <<"A", "C">>)>>) : content \in Contents}

Ways(name, ns, content, groups) ==
  {Type(name, ns, kind, "", content, groups) : kind \in {"plain", "restriction"}}
  \cup {Type(name, ns, kind, base, content, groups) :
          kind \in {"extension", "simpleExtension", "simpleRestriction"},
          base \in {"T1", "T2", "T3", "string"}}

Derivations ==
  {SchemaOf(<<t1, t2, t3>>) :
     t1 \in Ways("T1", "one", <<2>>, <<"A">>), t2 \in Ways("T2", "two", <<2, 1>>, <<"D">>),
     t3 \in Ways("T3", "one", <<7>>, <<"unknown", "C">>)}

(* A table of its own: the node that is inside of itself. *)
GroupCycles == {SchemaOf(<<Type("T1", "one", "plain", "", <<19>>, << >>)>>)}

Acyclic(d) ==
  [d EXCEPT !.particles = SubSeq(@, 1, 17), !.groups = "G" :> 13 @@ "H" :> 15]

(* A reference to an element without a namespace. *)
Unqualified(d) == [d EXCEPT !.particles[4].ns = ""]

MCSchemas ==
  {Acyclic(d) : d \in ContentModels \cup Derivations \cup {Unqualified(c) : c \in ContentModels}}
  \cup GroupCycles

(* An optional reference to a global element. *)
OptionalReferences ==
  {Acyclic([SchemaOf(<<Type("T1", "one", "plain", "", <<n>>, << >>)>>)
              EXCEPT !.particles[4] = RefEl("g", 0, 1)]) : n \in {1, 3, 4, 7}}
=============================================================================
