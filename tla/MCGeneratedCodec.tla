-------------------------- MODULE MCGeneratedCodec --------------------------
(***************************************************************************)
(* Small complex types for GeneratedCodec, one for each shape and each way *)
(* a field can be declared.  Their elements are of the target namespace,   *)
(* but "L", and their attributes of none, but in two types. Fields are     *)
(* strings; numbers, for which "010" is ten, but eight as a literal of Go; *)
(* bytes, of which fmt.Sprint makes something else than MarshalText; an    *)
(* enumeration that has "a" and not "b"; and a struct of two optional      *)
(* children, of which it should not have "b".                              *)
(***************************************************************************)
EXTENDS GeneratedCodec

In(space, n) == [space |-> space, local |-> n]
Of(n) == In(TargetNamespace, n)
MCAnyElement == In(NoNamespace, "AnyElement")

Field0 == [name |-> NoName, type |-> "string", kind |-> "element", choice |-> FALSE,
           min |-> 1, max |-> 1, required |-> FALSE, nillable |-> FALSE,
           default |-> << >>, fixed |-> << >>, namespaces |-> {}, process |-> "lax"]
ElementNamed(name, lo, hi) == [Field0 EXCEPT !.name = name, !.min = lo, !.max = hi]
Element(n, lo, hi) == ElementNamed(Of(n), lo, hi)
Local(n, lo, hi) == ElementNamed(In(NoNamespace, n), lo, hi)
Branch(n, lo, hi) == [Element(n, lo, hi) EXCEPT !.choice = TRUE]
Attribute(n, req) == [Field0 EXCEPT !.name = In(NoNamespace, n), !.kind = "attribute",
                                    !.required = req, !.min = IF req THEN 1 ELSE 0]
Qualified(f) == [f EXCEPT !.name = Of(f.name.local)]
Text == [Field0 EXCEPT !.kind = "text"]
Wildcard(lo, hi, ns, p) == [Field0 EXCEPT !.kind = "any", !.min = lo, !.max = hi,
                                     !.namespaces = ns, !.process = p]
AnyAttribute(ns) == [Field0 EXCEPT !.kind = "anyAttribute", !.min = 0, !.max = Unbounded,
                                   !.namespaces = ns]
Nillable(f) == [f EXCEPT !.nillable = TRUE]
Default(f, c) == [f EXCEPT !.default = <<c>>]
Fixed(f, c) == [f EXCEPT !.fixed = <<c>>]
As(ty, f) == [f EXCEPT !.type = ty]

Struct(fs) == [mixed |-> FALSE, marked |-> FALSE, fields |-> fs]
Marked(fs) == [Struct(fs) EXCEPT !.marked = TRUE]
Mixed(fs) == [Struct(fs) EXCEPT !.mixed = TRUE]

MCDeclared == {Of("A"), In("urn:y", "Y")}

-----------------------------------------------------------------------------
MCPieces == {"v", "0", "1", "8", "10", "010", "ff", "255", "[255]", "[]", "a", "b"}
MCValues == {<< >>, <<"v">>, <<"v", "v">>, <<"v", "v", "v">>, <<"0">>, <<"1">>, <<"8">>, <<"10">>,
             <<"255">>, <<"a">>, <<"b">>, <<"a", "b">>}

Has(v, piece) == \E i \in DOMAIN v : v[i] = piece
If(condition, piece) == IF condition THEN <<piece>> ELSE << >>
Merged(v, w) == If(Has(v, "a") \/ Has(w, "a"), "a") \o If(Has(v, "b") \/ Has(w, "b"), "b")

MCZeroOf(ty) == IF ty = "number" THEN <<"0">> ELSE << >>
MCDecodedAs(ty, validates, old, c) ==
  CASE ty = "number" -> (CASE c = << >> -> <<"0">> [] c = <<"010">> -> <<"10">>
                           [] c \in {<<"0">>, <<"1">>, <<"8">>, <<"10">>} -> c [] OTHER -> Bad)
    [] ty = "bytes" -> (CASE c = << >> -> << >> [] c = <<"ff">> -> <<"255">> [] OTHER -> Bad)
    [] ty = "struct" -> (IF ~validates THEN Merged(old, c) ELSE IF Has(c, "b") THEN Bad ELSE c)
    [] OTHER -> c
MCEncodedAs(ty, v) == IF ty = "bytes" THEN If(v = <<"255">>, "ff") ELSE v
MCSprint(ty, v) == IF ty = "bytes" THEN (IF v = <<"255">> THEN <<"[255]">> ELSE <<"[]">>) ELSE v
MCLiteral(ty, c) == IF ty = "number" /\ c = <<"010">> THEN <<"8">>
                    ELSE MCDecodedAs(ty, FALSE, << >>, c)
MCHasValidate(ty) == ty \in {"enum", "struct"}
MCValidValues(ty) == CASE ty = "enum" -> {<<"a">>}
                       [] ty = "struct" -> {v \in MCValues : ~Has(v, "b")}
                       [] OTHER -> MCValues

(* Its own names with contents of each kind, its local names in another     *)
(* namespace and in none, and names it has no field for.                    *)
ContentsOf(ty) == CASE ty = "number" -> {<<"1">>, <<"010">>, <<"v">>}
                    [] ty = "bytes" -> {<<"ff">>, <<"v">>}
                    [] ty \in {"enum", "struct"} -> {<<"a">>, <<"b">>}
                    [] OTHER -> {<< >>, <<"v">>}
Attr(name, c) == [kind |-> "attribute", name |-> name, value |-> c]
MCTokens(t) ==
  LET own(f) == CASE f.kind = "element" -> {Child(f.name, c) : c \in {Nil} \cup ContentsOf(f.type)}
                  [] f.kind = "attribute" -> {Attr(f.name, c) : c \in ContentsOf(f.type)}
                  [] OTHER -> {}
      others == {In(space, "L") : space \in {NoNamespace, TargetNamespace}}
                  \cup {In("urn:y", "Y")}
  IN UNION {own(t.fields[i]) : i \in DOMAIN t.fields}
       \cup {Child(name, <<"v">>) : name \in others} \cup {Attr(In("urn:y", "B"), <<"v">>), TextOf(<<"v">>)}

MCTypes == {
  Struct(<< >>),
  Struct(<<Element("A", 1, 1), Element("B", 0, 1)>>),
  Struct(<<Element("A", 0, 1), Element("B", 1, Unbounded)>>),
  Struct(<<As("number", Element("A", 0, 2)), Attribute("B", FALSE)>>),
  Struct(<<As("bytes", Attribute("A", TRUE)), As("bytes", Element("B", 1, 1))>>),
  Struct(<<As("number", Attribute("A", TRUE)), Qualified(Attribute("B", FALSE))>>),
  Struct(<<Default(Element("A", 1, 1), "v"), Default(Attribute("B", FALSE), "v")>>),
  Struct(<<As("number", Default(Element("A", 0, 1), "010")), Local("L", 1, 1)>>),
  Struct(<<As("number", Default(Element("A", 0, 1), "1")), Local("L", 0, 1)>>),
  Struct(<<Nillable(Default(Element("A", 0, 1), "v")), Element("B", 1, 1)>>),
  Struct(<<Fixed(Element("A", 0, 1), "v"), Element("B", 1, 1)>>),
  Struct(<<As("number", Fixed(Element("A", 0, 2), "1")), As("number", Fixed(Attribute("B", FALSE), "010"))>>),
  Struct(<<Nillable(Element("A", 1, 1)), As("number", Nillable(Element("B", 0, 1)))>>),
  Struct(<<As("enum", Element("A", 0, 1)), As("struct", Element("B", 1, Unbounded))>>),
  Struct(<<As("enum", Attribute("A", TRUE)), As("struct", Element("B", 1, 1))>>),
  Struct(<<As("struct", Element("A", 0, 1)), As("struct", Nillable(Element("B", 0, 1)))>>),
  Struct(<<Text, Attribute("A", TRUE)>>),
  Struct(<<As("number", Text), As("bytes", Attribute("B", FALSE))>>),
  Struct(<<Text, AnyAttribute({"##other"})>>),
  Marked(<<As("bytes", Attribute("A", FALSE)), Element("B", 0, 1), Local("L", 0, 1)>>),
  Struct(<<Element("A", 1, 1), Wildcard(0, Unbounded, {"##local", "##targetNamespace"}, "lax")>>),
  Struct(<<Wildcard(0, 1, {"##any"}, "strict"), Attribute("B", TRUE)>>),
  Struct(<<Branch("A", 0, 1), Element("B", 1, 1)>>),
  Struct(<<Branch("A", 1, 1), Branch("B", 1, 1)>>),
  Struct(<<As("number", Branch("A", 0, 1)), Nillable(Branch("B", 0, 1))>>),
  Struct(<<Branch("A", 1, 2), Branch("B", 1, 2)>>),
  Struct(<<Branch("A", 0, Unbounded), Branch("B", 0, Unbounded)>>),
  Mixed(<<Element("A", 0, Unbounded), Nillable(Element("B", 1, 1))>>),
  Mixed(<<Local("L", 0, 1), Attribute("B", TRUE)>>),
  Mixed(<< >>),
  \* An element at two places of a sequence, names told apart by namespaces only.
  Struct(<<Element("A", 0, 1), Element("B", 0, 1), Element("A", 0, 1)>>),
  Struct(<<Attribute("A", FALSE), Qualified(Attribute("A", FALSE))>>),
  Struct(<<Element("L", 0, 1), Local("L", 0, 1)>>)}
=============================================================================
