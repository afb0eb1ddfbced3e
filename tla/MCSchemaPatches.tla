-------------------------- MODULE MCSchemaPatches --------------------------
(***************************************************************************)
(* Small schemas for SchemaPatches: file 1 is the one named by the caller, *)
(* it includes, overrides or redefines files 2 and 3, and file 2 may do    *)
(* the same with file 3.  Paths and locations are those of MCSchemaLoader, *)
(* all spelled relatively.                                                 *)
(***************************************************************************)
EXTENDS SchemaPatches, MCSchemaLoader

MCStem == {"Code", "Item", "Size"}
MCId == Files \X {"own", "child"} \X Kind \X MCStem

Decl(f, origin, kind, stem, refs) ==
  [kind |-> kind, name |-> <<stem, 0>>, refs |-> {<<r, 0>> : r \in refs},
   id |-> <<f, origin, kind, stem>>]

Own(f, kind, stem) == Decl(f, "own", kind, stem, {})

(* A redefined type or group refers to itself, nothing else does. *)
Child(f, op, kind, stem) ==
  Decl(f, "child", kind, stem,
       IF op = "redefine" /\ kind \in RedefinableKinds THEN {stem} ELSE {})

Patchable == {<<"simpleType", "Code">>, <<"element", "Code">>,
              <<"complexType", "Item">>, <<"group", "Item">>,
              <<"attributeGroup", "Size">>, <<"simpleType", "Size">>}

Children(f, op) ==
  LET one(x) == Child(f, op, x[1], x[2])
  IN  {<<one(x)>> : x \in Patchable} \cup
      {<<one(x), one(y)>> : x \in {<<"simpleType", "Code">>, <<"element", "Code">>},
                            y \in Patchable \ {<<"simpleType", "Code">>, <<"element", "Code">>}}

OwnBodies(f) ==
  CASE f = 1 -> {<<Own(1, "element", "Size")>>}
    [] f = 2 -> {<<Own(2, "simpleType", "Code"), Own(2, "complexType", "Item")>>,
                 <<Own(2, "element", "Code"), Own(2, "group", "Item"),
                   Decl(2, "own", "simpleType", "Code", {"Size"})>>}
    [] OTHER -> {<<Own(3, "simpleType", "Size"), Own(3, "attributeGroup", "Size"),
                   Own(3, "attribute", "Code")>>}

MCBodies == UNION {OwnBodies(f) : f \in Files}
       \cup {<< >>, <<Child(2, "redefine", "attribute", "Item")>>}
       \cup UNION {Children(f, op) : f \in Files, op \in {"override", "redefine"}}

To(k, body) == [location |-> Rel(k), body |-> body]
Include(k) == To(k, << >>)
Nowhere(body) == [location |-> MCEmpty, body |-> body]

PatchDoc(inc, ovr, red, body) ==
  [includes |-> inc, imports |-> << >>, overrides |-> ovr, redefines |-> red,
   body |-> body]

(* At most one override and one redefine, of any of the files to.  *)
PatchesOf(f, op, to) ==
  {<< >>} \cup {<<To(k, b)>> : k \in to, b \in Children(f, op)}

Docs1 == {PatchDoc(inc, o, r, b) :
            inc \in {<< >>, <<Include(2)>>, <<Include(3), Include(2)>>},
            o \in PatchesOf(1, "override", {2, 3}),
            r \in PatchesOf(1, "redefine", {2, 3}), b \in OwnBodies(1)}
Docs2 == {PatchDoc(inc, o, r, b) :
            inc \in {<< >>, <<Include(3)>>},
            o \in {<< >>, <<To(3, <<Child(2, "override", "simpleType", "Size")>>)>>},
            r \in {<< >>, <<To(3, <<Child(2, "redefine", "simpleType", "Size")>>)>>,
                   <<Nowhere(<<Child(2, "redefine", "attribute", "Item")>>)>>},
            b \in OwnBodies(2)}
Docs3 == {PatchDoc(inc, << >>, << >>, b) : inc \in {<< >>, <<Include(1)>>},
                                          b \in OwnBodies(3)}

(* The children of the patches in a document, with the file they target. *)
ChildrenTo(doc) ==
  UNION {{<<ref.location[2], c.kind, c.name>> : c \in Range(ref.body)} :
           ref \in Range(doc.overrides \o doc.redefines)}

(* A patch names a declaration of the very file it targets, and no other    *)
(* patch names the same declaration.                                         *)
DirectAndSingle(d1, d2, d3) ==
  /\ \A x \in ChildrenTo(d1) : \E o \in Range(IF x[1] = 2 THEN d2.body ELSE d3.body) :
       Declares(o, x[2], x[3])
  /\ ChildrenTo(d1) \cap ChildrenTo(d2) = {}
  /\ \A e, o \in ChildrenTo(d1) : e[2] = o[2] /\ e[3] = o[3] => e = o
  /\ Len(d2.overrides) + Len(d2.redefines) < 2
  /\ \A o \in Range(Bodies(d1.overrides)), r \in Range(Bodies(d1.redefines)) :
       ~ Declares(o, r.kind, r.name)

DiskOf(d1, d2, d3) == 0 :> Unreadable @@ 1 :> d1 @@ 2 :> d2 @@ 3 :> d3

DirectDisks ==
  {DiskOf(t[1], t[2], t[3]) :
     t \in {u \in Docs1 \X Docs2 \X Docs3 : DirectAndSingle(u[1], u[2], u[3])}}

(* File 1 patches file 2; what it patches is declared in file 2, in file 3  *)
(* that file 2 includes, or in the redefine of file 3 that file 2 holds.     *)
ThroughDocs1(op) ==
  LET refs == <<To(2, <<Child(1, op, "simpleType", "Size")>>)>>
  IN  {PatchDoc(<< >>, refs, << >>, << >>) : x \in {op} \cap {"override"}}
 \cup {PatchDoc(<< >>, << >>, refs, << >>) : x \in {op} \cap {"redefine"}}
ThroughDisks(op) ==
  {DiskOf(d1, d2, d3) : d1 \in ThroughDocs1(op), d2 \in Docs2, d3 \in Docs3}
OverrideThroughDisks ==
  {d \in ThroughDisks("override") : /\ d[2].includes # << >>
                                    /\ d[2].overrides \o d[2].redefines = << >>}
RedefineThroughDisks ==
  {d \in ThroughDisks("redefine") :
     /\ d[2].overrides = << >>
     /\ \E r \in Range(d[2].redefines) : r.location = Rel(3)}

PatchRoots == {<<Rel(1)>>}
=============================================================================
