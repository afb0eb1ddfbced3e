--------------------------- MODULE MCSchemaLoader ---------------------------
(***************************************************************************)
(* Small file systems for SchemaLoader.  A key is a number, 0 is a file    *)
(* that does not exist.  A path is a key spelled relatively or absolutely. *)
(* A location names a key relatively to the directory of the referring     *)
(* file or absolutely, or is a name below "lib/" that only a catalog can   *)
(* turn into a file: the catalog may map the whole name, or the prefix     *)
(* "lib/" (written <<"lib", 0>>).                                           *)
(***************************************************************************)
EXTENDS SchemaLoader, FiniteSets, TLC

CONSTANT Files     \* the files that may exist

MCKey == Files \cup {0}
MCPath == {"rel", "abs"} \X MCKey
MCLocation == {"rel", "abs", "lib", "empty"} \X MCKey
MCEmpty == <<"empty", 0>>
MCBody == {"decls"}

MCAbsKey(p) == p[2]
MCJoin(p, l) == CASE l[1] = "rel" -> <<p[1], l[2]>>
                  [] l[1] = "abs" -> <<"abs", l[2]>>
                  [] OTHER        -> <<p[1], 0>>
MCHasPrefix(l, m) == l[1] = m[1] /\ m[2] \in {0, l[2]}
MCRewrite(t, l, m) == IF m[2] = 0 THEN <<t[1], l[2]>> ELSE t

Ref(l) == [location |-> l, body |-> "decls"]
RefsTo(ls) == [i \in DOMAIN ls |-> Ref(ls[i])]
MkDoc(inc, imp, ovr, red) ==
  [includes |-> RefsTo(inc), imports |-> RefsTo(imp),
   overrides |-> RefsTo(ovr), redefines |-> RefsTo(red), body |-> "decls"]

Rel(k) == <<"rel", k>>
AtMostOne(S) == {<< >>} \cup {<<x>> : x \in S}

(* Every graph over Files whose documents import or redefine up to one     *)
(* file and include up to one, broken files included.                      *)
GraphDocs == {MkDoc(a, b, << >>, << >>) : a, b \in AtMostOne({Rel(k) : k \in Files})}
        \cup {MkDoc(a, << >>, << >>, << >>) : a \in {<<MCEmpty>>, <<Rel(0)>>}}
        \cup {MkDoc(<< >>, << >>, <<Rel(a)>>, <<Rel(5 - a)>>) : a \in {2, 3}}
GraphDisks == {(0 :> Unreadable) @@ d : d \in [Files -> GraphDocs \cup {Unreadable}]}
GraphRoots == {<<Rel(1)>>, <<Rel(1), Rel(2)>>}
NoCatalog == {<< >>}

(* Few graphs, every spelling, and catalogs whose entries compete.         *)
SpelledRefs == {<<s, k>> : s \in {"rel", "abs", "lib"}, k \in Files}
SpelledDocs == {MkDoc(<<a>>, << >>, << >>, << >>) : a \in SpelledRefs}
          \cup {MkDoc(<< >>, <<a>>, <<MCEmpty>>, <<b>>) :
                  a \in {<<"rel", 1>>, <<"lib", 2>>}, b \in {<<"lib", 1>>, <<"abs", 2>>}}
SpelledDisks == {(0 :> Unreadable) @@ d : d \in [Files -> SpelledDocs]}
SpelledRoots == {<<p>> : p \in {"rel", "abs"} \X {1}} \cup {<<Rel(2), <<"abs", 2>>>>}
Entries == [type : {"exact", "rewrite"}, name : {<<"lib", 0>>, <<"lib", 1>>},
            target : {Rel(0), <<"abs", 2>>}]
SpelledCatalogs == {Unreadable, << >>} \cup {<<e>> : e \in Entries}
              \cup {<<e, f>> : e, f \in Entries}
=============================================================================
