----------------------------- MODULE MCPipeline -----------------------------
(***************************************************************************)
(* Commands for Pipeline: two namespaces and none, whose types refer to one*)
(* another, packages given, made from the namespace or the default, both   *)
(* namespaces in one package, an element that is not declared, with and    *)
(* without a shared runtime package, and with one of a namespace's name.   *)
(***************************************************************************)
EXTENDS Pipeline

MCPackageNameOf == [ns \in Namespaces |-> IF ns = NoNamespace THEN "model" ELSE
                                          IF ns = "urn:a" THEN "a" ELSE "b"]

Type(ns, local, uses, named, served) ==
  [namespace |-> ns, local |-> local, uses |-> uses, named |-> named, served |-> served,
   declared |-> TRUE]
Skipped(ns, local, uses) == [Type(ns, local, uses, FALSE, FALSE) EXCEPT !.declared = FALSE]
Class(local, class) == [local |-> local, class |-> class]

Only(ns, p) == [n \in {ns} |-> p]
Both(p, q) == [n \in {"urn:a", "urn:b"} |-> IF n = "urn:a" THEN p ELSE q]

Command(explicit, auto, runtime, bindings, types) ==
  [explicit |-> explicit, auto |-> auto, package |-> "model", runtime |-> runtime,
   bindings |-> bindings, schemas |-> <<"urn:a", "urn:b", NoNamespace>>, types |-> types]

MutualTypes == <<Type("urn:a", "T", {"urn:b"}, TRUE, FALSE), Type("urn:b", "T", {"urn:a"}, FALSE, FALSE)>>
LooseTypes == <<Type(NoNamespace, "T", {"urn:b"}, FALSE, TRUE),
                Type("urn:b", "U", {NoNamespace}, TRUE, TRUE)>>
SkippedTypes == <<Skipped("urn:a", "T", {"urn:b"}), Type("urn:b", "T", {}, FALSE, TRUE)>>

BindingLists == {<< >>, <<Broken>>,
                 <<<<Class("T", "V"), Class("T", "W")>>, <<Class("U", "V"), Class("T", "U")>>>>,
                 <<<<Class("T", "V")>>, Broken>>}

MCCommands ==
  {Command(e, a, r, << >>, t) :
     e \in {<< >>, Only("urn:a", "b"), Both("b", "a"), Both("b", "b")}, a \in BOOLEAN,
     r \in {NoPackage, "runtime"}, t \in {<< >>, MutualTypes, LooseTypes, SkippedTypes}}
  \cup {Command(<< >>, TRUE, NoPackage, bs, MutualTypes) : bs \in BindingLists}
  \cup {Command(<< >>, TRUE, "b", << >>, LooseTypes)}
=============================================================================
