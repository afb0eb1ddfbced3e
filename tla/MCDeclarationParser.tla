------------------------- MODULE MCDeclarationParser -------------------------
(***************************************************************************)
(* Small documents for DeclarationParser: below each kind of declaration,  *)
(* two children of any name, the first with a child of its own, and        *)
(* prefixes declared at different depths; documents that break off after   *)
(* any token; documents that are no schema.                                 *)
(***************************************************************************)
EXTENDS DeclarationParser, FiniteSets, SequencesExt, TLC

MCPrefix == {"", "p"}
MCNamespace == {"", "target", "default", "outer", "inner"}

NoDecls == [p \in {} |-> ""]
Outer == "p" :> "outer"
Inner == "p" :> "inner"
Default == "" :> "default"

Text == [kind |-> "text"]
Blank == [kind |-> "blank"]
Broken == [kind |-> "error"]
Prefixed == [prefix |-> "p", local |-> "T"]
Plain == [prefix |-> "", local |-> "T"]

El(name, xsd, decls, ref, content) ==
  <<[kind |-> "start", xsd |-> xsd, name |-> name, decls |-> decls, ref |-> ref,
     target |-> "target"]>>
  \o content \o <<[kind |-> "end", xsd |-> xsd, name |-> name]>>

Document(tokens) ==
  LET open[n \in 0..Len(tokens)] ==
        IF n = 0 THEN << >>
        ELSE CASE tokens[n].kind = "start" -> Append(open[n - 1], n)
               [] tokens[n].kind = "end"   -> Front(open[n - 1])
               [] OTHER                    -> open[n - 1]
  IN  [tokens |-> tokens, open |-> open]

(* Each path leads to a function. *)
Paths == {
  << >>, <<"override">>, <<"redefine">>, <<"complexType">>,
  <<"complexType", "complexContent">>, <<"complexType", "complexContent", "extension">>,
  <<"complexType", "complexContent", "restriction">>,
  <<"complexType", "simpleContent">>, <<"complexType", "simpleContent", "extension">>,
  <<"complexType", "simpleContent", "restriction">>,
  <<"element">>, <<"element", "complexType">>, <<"element", "annotation">>,
  <<"element", "annotation", "documentation">>, <<"group">>, <<"group", "choice", "sequence">>,
  <<"attribute">>, <<"attributeGroup">>, <<"simpleType">>, <<"simpleType", "restriction">>,
  <<"simpleType", "list">>, <<"simpleType", "union">>, <<"attributeGroup", "attributeGroup">>}

Below(path, content) ==
  LET wrap(name, inside) == El(name, TRUE, NoDecls, Prefixed, inside)
  IN  FoldRight(wrap, path, content)

Schema(content) == Document(El("schema", TRUE, Outer, NoName, content))

Names == {"include", "import", "override", "redefine", "element", "attribute",
          "attributeGroup", "group", "complexType", "simpleType", "annotation",
          "complexContent", "simpleContent", "extension", "restriction", "sequence",
          "choice", "any", "anyAttribute", "list", "union", "documentation",
          "enumeration", "unique"}

(* The first child declares prefixes and has a child of its own; the        *)
(* declarations must not reach the second.                                   *)
First(name, xsd, inside) ==
  {El(name, xsd, Inner, Prefixed, <<Blank>> \o El(inside, TRUE, Default, Plain, <<Text>>)),
   El(name, xsd, Default @@ Inner, Plain, El(inside, TRUE, NoDecls, Prefixed, << >>))}

Children(name) ==
  {first \o El(second, TRUE, NoDecls, Plain, <<Text>>) :
     first \in First(name, TRUE, name), second \in {name, "attribute"}}
  \cup {first \o El(second, TRUE, NoDecls, Prefixed, << >>) :
          first \in First(name, TRUE, "simpleType"), second \in {"choice", "restriction"}}

ForeignChildren ==
  UNION {{first \o El("simpleType", TRUE, NoDecls, Plain, << >>) :
            first \in First("element", FALSE, inside)} : inside \in {"element", "simpleType"}}

Mixtures == {Schema(Below(path, content)) : path \in Paths,
             content \in ForeignChildren \cup UNION {Children(name) : name \in Names}}

Whole == El("schema", TRUE, Outer, NoName,
            El("element", TRUE, Inner, Prefixed,
               El("complexType", TRUE, NoDecls, NoName,
                  El("sequence", TRUE, NoDecls, NoName,
                     El("element", TRUE, NoDecls, Prefixed, << >>)))
               \o El("unique", TRUE, NoDecls, NoName, El("field", TRUE, NoDecls, NoName, << >>))))

Truncated == {Document(SubSeq(Whole, 1, n) \o <<Broken>>) : n \in 0..Len(Whole)}

NoSchemas == {Document(t) : t \in {<< >>, <<Text>>, El("schema", FALSE, Outer, NoName, Whole),
                                   El("element", TRUE, Outer, Prefixed, Whole)}}

(* A prefix that is not declared. *)
Undeclared == {Document(El("schema", TRUE, NoDecls, NoName, El("element", TRUE, NoDecls, Prefixed, << >>)))}

MCDocs == Undeclared \cup Mixtures \cup Truncated \cup NoSchemas
=============================================================================
