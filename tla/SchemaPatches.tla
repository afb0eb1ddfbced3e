---------------------------- MODULE SchemaPatches ----------------------------
(***************************************************************************)
(* applySchemaPatches of internal/parser/patches.go, run by the loader     *)
(* once the queue is drained: for every file in the order of the result,   *)
(* its overrides and then its redefines edit the declarations of the file  *)
(* they name.  An override removes the declarations it replaces.  A        *)
(* redefine renames the old declaration to "<name>RedefinedBase" and makes *)
(* the redefining declaration derive from it.                              *)
(*                                                                         *)
(* A declaration is reduced to its kind, its name, the names of its base   *)
(* (of the groups it refers to, for a group or an attribute group), and an *)
(* id that tells its content from that of any other.  All files share one  *)
(* target namespace.                                                       *)
(***************************************************************************)
EXTENDS SchemaLoader, Selections, SequencesExt, FiniteSets

CONSTANTS
  Stem,     \* names as the schemas spell them
  Id        \* identities of declarations

(* A name is a pair: <<"Code", 1>> stands for CodeRedefinedBase. *)
Name == Stem \X Nat

RedefinedBase(name) == <<name[1], name[2] + 1>>

Kind == {"element", "attribute", "attributeGroup", "group",
         "complexType", "simpleType"}

RedefinableKinds == {"simpleType", "complexType", "attributeGroup", "group"}

Declaration == [kind : Kind, name : Name, refs : SUBSET Name, id : Id]

ASSUME BodyAssumption == Body \subseteq Seq(Declaration)

VARIABLES
  decls,    \* decls[i]: the top-level declarations of files[i]
  work      \* the edits of the patch loops that are still to be made

patchVars == <<decls, work>>

(* The children of an override or redefine are declarations of the file     *)
(* too; a schema document holds them before its other declarations.          *)
Bodies(refs) == FlattenSeq([i \in DOMAIN refs |-> refs[i].body])

DeclarationsOf(doc) == Bodies(doc.overrides) \o Bodies(doc.redefines) \o doc.body

-----------------------------------------------------------------------------
(* The edits that the nested loops make, in their order. *)

Edit(op, file, ref, child) ==
  [op |-> op, file |-> file, location |-> ref.location,
   kind |-> child.kind, name |-> child.name]

OfKind(refBody, kind) ==
  AtPlaces(refBody, {i \in DOMAIN refBody : refBody[i].kind = kind})

EditsOfKinds(op, file, ref, kinds) ==
  LET children == FlattenSeq([k \in DOMAIN kinds |-> OfKind(ref.body, kinds[k])])
  IN  [i \in DOMAIN children |-> Edit(op, file, ref, children[i])]

(* Seeded fault: overridden simple types are forgotten. *)
OverrideEditsNoSimpleTypes(file, ref) ==
  EditsOfKinds("remove", file, ref,
    <<"element", "attribute", "attributeGroup", "group", "complexType">>)

OverrideEdits(file, ref) ==
  EditsOfKinds("remove", file, ref,
    <<"element", "attribute", "attributeGroup", "group", "complexType", "simpleType">>)

RedefineEdits(file, ref) ==
     EditsOfKinds("redefine", file, ref,
       <<"simpleType", "complexType", "attributeGroup", "group">>)
  \o EditsOfKinds("remove", file, ref, <<"element", "attribute", "attributeGroup">>)

EditsOf(file, doc) ==
     FlattenSeq([i \in DOMAIN doc.overrides |-> OverrideEdits(file, doc.overrides[i])])
  \o FlattenSeq([i \in DOMAIN doc.redefines |-> RedefineEdits(file, doc.redefines[i])])

(* pathToIndex, looked up under the resolved location of the edit; an empty *)
(* location resolves to a directory, which is never a loaded file.          *)
TargetsOfEdit(e) ==
  IF e.location = EmptyLocation THEN {}
  ELSE LET target == ResolveSchemaLocation(resolver, files[e.file].path, e.location)
       IN  {i \in DOMAIN files : AbsKey(files[i].path) = AbsKey(target)}

Declares(d, kind, name) == d.kind = kind /\ d.name = name

(* Seeded fault: every kind of declaration of the name is removed. *)
WithoutName(ds, kind, name) ==
  AtPlaces(ds, {i \in DOMAIN ds : ds[i].name # name})

WithoutDeclarations(ds, kind, name) ==
  AtPlaces(ds, {i \in DOMAIN ds : ~ Declares(ds[i], kind, name)})

(* Seeded fault: the old declaration keeps its name. *)
RenameNothing(ds, kind, name) ==
  LET n == CHOOSE i \in DOMAIN ds : Declares(ds[i], kind, name)
  IN  Append(RemoveAt(ds, n), ds[n])

(* takeX and the renaming: the first declaration of the name moves to the   *)
(* end under its new name.                                                   *)
RenameFirst(ds, kind, name) ==
  LET n == CHOOSE i \in DOMAIN ds :
             /\ Declares(ds[i], kind, name)
             /\ \A j \in 1..(i - 1) : ~ Declares(ds[j], kind, name)
  IN  Append(RemoveAt(ds, n), [ds[n] EXCEPT !.name = RedefinedBase(name)])

(* rewriteXSelfBase and rewriteXSelfRefs. *)
RewriteSelf(ds, kind, name) ==
  [i \in DOMAIN ds |->
     IF Declares(ds[i], kind, name) /\ name \in ds[i].refs
     THEN [ds[i] EXCEPT !.refs = (@ \ {name}) \cup {RedefinedBase(name)}]
     ELSE ds[i]]

-----------------------------------------------------------------------------

PatchInit ==
  /\ Init
  /\ decls = << >>
  /\ work = << >>

Load ==
  /\ Next
  /\ UNCHANGED patchVars

StartPatches ==
  /\ pc = "parsed"
  /\ pc' = "patching"
  /\ decls' = [i \in DOMAIN files |-> DeclarationsOf(files[i].doc)]
  /\ work' = FlattenSeq([i \in DOMAIN files |-> EditsOf(i, files[i].doc)])
  /\ UNCHANGED <<disk, roots, catalogs, resolver, queue, seen, files, pending>>

Patching ==
  /\ pc = "patching"
  /\ work # << >>
  /\ work' = Tail(work)
  /\ UNCHANGED vars

(* The location names no loaded file, or a redefined declaration is not     *)
(* found where the redefine says: the edit is passed over in silence.        *)
PassOver ==
  /\ Patching
  /\ LET e == Head(work)
     IN  \A t \in TargetsOfEdit(e) :
           /\ e.op = "redefine"
           /\ \A i \in DOMAIN decls[t] : ~ Declares(decls[t][i], e.kind, e.name)
  /\ UNCHANGED decls

RemoveDeclarations ==
  /\ Patching
  /\ LET e == Head(work)
     IN  /\ e.op = "remove"
         /\ \E t \in TargetsOfEdit(e) :
              decls' = [decls EXCEPT ![t] = WithoutDeclarations(@, e.kind, e.name)]

(* Seeded fault: the base is rewritten in the redefined file. *)
ApplyRedefineInTarget ==
  /\ Patching
  /\ LET e == Head(work)
     IN  /\ e.op = "redefine"
         /\ \E t \in TargetsOfEdit(e) :
              /\ \E i \in DOMAIN decls[t] : Declares(decls[t][i], e.kind, e.name)
              /\ decls' = [decls EXCEPT ![t] =
                    RewriteSelf(RenameFirst(@, e.kind, e.name), e.kind, e.name)]

ApplyRedefine ==
  /\ Patching
  /\ LET e == Head(work)
     IN  /\ e.op = "redefine"
         /\ \E t \in TargetsOfEdit(e) :
              /\ \E i \in DOMAIN decls[t] : Declares(decls[t][i], e.kind, e.name)
              /\ LET renamed == [decls EXCEPT ![t] = RenameFirst(@, e.kind, e.name)]
                 IN  decls' = [renamed EXCEPT ![e.file] =
                                 RewriteSelf(@, e.kind, e.name)]

FinishPatches ==
  /\ pc = "patching"
  /\ work = << >>
  /\ pc' = "done"
  /\ UNCHANGED <<disk, roots, catalogs, resolver, queue, seen, files, pending>>
  /\ UNCHANGED patchVars

PatchNext ==
  \/ Load
  \/ StartPatches
  \/ PassOver
  \/ RemoveDeclarations
  \/ ApplyRedefine
  \/ FinishPatches

PatchSpec == PatchInit /\ [][PatchNext]_<<vars, patchVars>>

-----------------------------------------------------------------------------
(* What the patches should leave behind. *)

Declarations == UNION {{decls[f][i] : i \in DOMAIN decls[f]} : f \in DOMAIN decls}

(* The declarations that d derives from or refers to, by kind and name. *)
DerivesFrom(d) == {b \in Declarations : b.kind = d.kind /\ b.name \in d.refs}

(* Declarations are edited, never created: there are as many lists as files. *)
PatchTypeOK ==
  /\ pc \in {"catalogs", "files", "parsed", "failed", "patching", "done"}
  /\ \A f \in DOMAIN decls : decls[f] \in Seq(Declaration)
  /\ Len(decls) = (IF pc \in {"patching", "done"} THEN Len(files) ELSE 0)
  /\ \A e \in Range(work) : e.file \in DOMAIN files /\ e.op \in {"remove", "redefine"}

(* No two files are left with a declaration of one kind and name: whatever  *)
(* was patched is replaced, and a renamed declaration takes a free name.    *)
NamesStayUnique ==
  /\ PatchTypeOK
  /\ pc = "done" =>
       \A f, g \in DOMAIN decls : \A i \in DOMAIN decls[f], j \in DOMAIN decls[g] :
         Declares(decls[f][i], decls[g][j].kind, decls[g][j].name) => f = g /\ i = j

(* A set of declarations each of which derives from a member is a circle.   *)
NoCircularDerivation ==
  pc = "done" =>
    \A S \in SUBSET Declarations :
      S # {} => \E d \in S : DerivesFrom(d) \cap S = {}

(* A redefining declaration that named itself as its base now derives from  *)
(* exactly one declaration: the one that it redefines.                      *)
RedefinesDerive ==
  pc = "done" =>
    \A f \in DOMAIN files : \A ref \in Range(files[f].doc.redefines) :
      \A c \in Range(ref.body) : c.name \in c.refs =>
        \A d \in Declarations :
          d.id = c.id =>
            \E old \in DerivesFrom(d) :
              /\ DerivesFrom(d) = {old}
              /\ old.id # d.id
              /\ \E g \in DOMAIN files :
                   \E o \in Range(DeclarationsOf(files[g].doc)) :
                     o.id = old.id /\ o.kind = c.kind /\ o.name = c.name

(* Only an override, or the redefinition of an element or an attribute,     *)
(* makes a declaration disappear: a redefined type or group is renamed.      *)
Replaced(d, f) ==
  \E g \in DOMAIN files :
    \/ \E ref \in Range(files[g].doc.overrides) : \E c \in Range(ref.body) :
         /\ Declares(d, c.kind, c.name)
         /\ f \in TargetsOfEdit(Edit("remove", g, ref, c))
    \/ \E ref \in Range(files[g].doc.redefines) : \E c \in Range(ref.body) :
         /\ c.kind \notin RedefinableKinds
         /\ Declares(d, c.kind, c.name)
         /\ f \in TargetsOfEdit(Edit("remove", g, ref, c))

NothingElseLost ==
  pc = "done" =>
    \A f \in DOMAIN files : \A d \in Range(DeclarationsOf(files[f].doc)) :
      (\E e \in Declarations : e.id = d.id) <=> ~ Replaced(d, f)
=============================================================================
