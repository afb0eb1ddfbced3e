--------------------------- MODULE MCNameRegistry ---------------------------
(***************************************************************************)
(* Lists of up to four declarations, in every order, whose names collide   *)
(* in Go: in case, between namespaces, with the suffixes that the registry *)
(* adds, and with interfaces.                                              *)
(***************************************************************************)
EXTENDS NameRegistry, TLC

MCNumbered(name, n) == name \o ToString(n)
MCText(s) == s
MCJoined(a, b) == a \o b

(* The strings that are sorted, in the order of their bytes. *)
Sorted == <<"FOO", "Foo", "Foo2", "FooType", "a", "b", "foo", "red">>
Place == [s \in Range(Sorted) |-> CHOOSE n \in DOMAIN Sorted : Sorted[n] = s]
MCBefore(a, b) == Place[a] < Place[b]

MCNamespaces == {"a", "b"}
MCLocals == {"foo", "Foo", "FOO", "Foo2", "FooType"}
MCIdents == {"Foo", "Foo2", "FooType", "FOO"}
MCGoName(ns, local) == IF local = "foo" THEN "Foo" ELSE local
MCGoNameOf(local) == IF local = "foo" THEN "Foo" ELSE local
MCLegacyGoName(local) == IF local \in {"foo", "FOO"} THEN "Foo" ELSE local
MCPrefix(ns) == IF ns = "a" THEN "A" ELSE "B"
MCPackage(ns) == ns
MCGoPart(v) == IF v = "red" THEN "Red" ELSE v
MCLegacyConstPart(v) == IF v \in {"red", "Red", "RED"} THEN "Red" ELSE v
MCValue == {"", "red", "Red", "RED", "Type", "F", "G"}

Decl(kind, ns, local, type, parts) ==
  [kind |-> kind, namespace |-> ns, local |-> local, type |-> type,
   skip |-> FALSE, parts |-> parts]
Type(ns, local) == Decl("complexType", ns, local, "", << >>)
Choice(ns, local, fields) == Decl("complexType", ns, local, "", fields)
Enum(ns, local, values) == Decl("simpleType", ns, local, "", values)
Element(ns, local, tns, type) == Decl("element", ns, local, <<tns, type>>, << >>)

Candidates ==
  {Type("a", "Foo"), Type("a", "foo"), Type("b", "Foo"), Type("a", "FOO"),
   Choice("a", "Foo2", <<"F", "G">>), Type("a", "FooType"),
   Enum("a", "foo", <<"red", "Red", "RED", "", "red">>),
   Element("a", "Foo", "a", "Foo"), Element("a", "foo", "a", "Foo"),
   Element("b", "Foo", "a", "Foo"),
   [Element("a", "FooType", "a", "FooType") EXCEPT !.skip = TRUE]}

ListsOf(S, n) == {ds \in UNION {[1..k -> S] : k \in 0..n} : DistinctKeys(ds)}

CollidingInputs == ListsOf(Candidates, 4)

FooInterface == [name |-> "Foo", package |-> "a"]
MCInterfaceLists == {<< >>, <<FooInterface>>}
NoInterfaces == {<< >>}

(* An enumeration whose constant has the name of another type. *)
HelperInputs == {<<Enum("a", "Foo", <<"Type">>), Type("a", "FooType")>>}

(* The heads foo and Foo, or the heads foo of two namespaces in one package. *)
NoInputs == {<< >>}
SameInterfaces == {<<FooInterface, FooInterface>>}
=============================================================================
