--------------------------- MODULE DeclarationParser ---------------------------
(***************************************************************************)
(* Parse of internal/parser/parser.go: one schema document is read token   *)
(* by token by functions that call each other, one per kind of declaration *)
(* (parseSchema, parseComplexType, ...).  Each loops over the tokens of its *)
(* element, hands a child it knows to the function for it, skips any other *)
(* one, and returns at its own end tag; each opens a scope of namespace     *)
(* prefixes when it is entered and closes it when it returns.               *)
(*                                                                         *)
(* The functions that are being executed are an explicit stack of frames.  *)
(* A declaration is the position of its start tag in the document, and     *)
(* fields[<<of, slot>>] lists the declarations that have been stored into   *)
(* the field `slot` of the declaration at position `of`.                    *)
(* Attributes are copied as they are, but for those that hold a QName,      *)
(* which are resolved when the function is entered: one of them stands for *)
(* all those of an element.                                                 *)
(*                                                                         *)
(* encoding/xml is external: it delivers the tokens of a well-formed        *)
(* document, or an error in the place of the first token that makes the    *)
(* document none, its end inside an element included.                       *)
(***************************************************************************)
EXTENDS Naturals, Sequences

CONSTANTS
  Docs,        \* the documents
  Prefix,      \* namespace prefixes, NoPrefix among them
  NoPrefix,
  Namespace,   \* namespace names, NoNamespace among them
  NoNamespace,
  Unresolved   \* no namespace has been looked up

Local == STRING

Scopes == UNION {[P -> Namespace] : P \in SUBSET Prefix}

NoName == [prefix |-> NoPrefix, local |-> ""]

(* A token; xsd tells that the element is in the namespace of XML Schema,   *)
(* name is its local name, decls are its xmlns attributes, ref is an        *)
(* attribute that holds a QName and target is targetNamespace.               *)
StartTokens == [kind : {"start"}, xsd : BOOLEAN, name : Local, decls : Scopes,
                ref : [prefix : Prefix, local : Local], target : Namespace]
EndTokens == [kind : {"end"}, xsd : BOOLEAN, name : Local]
OtherTokens == [kind : {"text", "blank", "error"}]

(* A document is its tokens and the elements open behind each of them.      *)
WellFormed(d) ==
  /\ d.tokens \in Seq(StartTokens \cup EndTokens \cup OtherTokens)
  /\ d.open \in [0..Len(d.tokens) -> Seq(Nat \ {0})]
  /\ d.open[0] = << >>
  /\ \A n \in 1..Len(d.tokens) :
       LET before == d.open[n - 1]
           token == d.tokens[n]
       IN  CASE token.kind = "start" -> d.open[n] = Append(before, n)
             [] token.kind = "end" ->
                  /\ Len(before) > 0
                  /\ d.open[n] = SubSeq(before, 1, Len(before) - 1)
                  /\ before[Len(before)] < n
                  /\ LET start == d.tokens[before[Len(before)]]
                     IN  start.kind = "start" /\ start.xsd = token.xsd /\ start.name = token.name
             [] OTHER -> d.open[n] = before
  /\ Len(d.tokens) > 0 =>
       d.open[Len(d.tokens)] = << >> \/ d.tokens[Len(d.tokens)].kind = "error"

ASSUME DocAssumption == \A d \in Docs : WellFormed(d)
ASSUME NameAssumption ==
  NoPrefix \in Prefix /\ NoNamespace \in Namespace /\ Unresolved \notin Namespace

VARIABLES
  doc,         \* the document
  pos,         \* how many of its tokens have been read
  stack,       \* frames: the functions that have not returned
  nsStack,     \* the scopes they have opened
  target,      \* TargetNamespace of the file
  resolved,    \* the namespace of the QName attribute of each declaration
  text,        \* readTextElement has read text
  fields,       \* the fields of the declarations
  status       \* "reading", "parsed" or "failed"

vars == <<doc, pos, stack, nsStack, target, resolved, text, fields, status>>

-----------------------------------------------------------------------------
(* What each function does with a child of the schema namespace: the        *)
(* function it calls, the field the result is stored into, and whether it   *)
(* is appended or replaces what is there.                                    *)

Rule ==
  {"skip", "leaf", "parseGroupRef", "readTextElement", "parseSchema",
   "parseSchemaPatch", "parseComplexType", "parseComplexContent",
   "parseComplexDerivation", "parseSimpleContent",
   "parseSimpleContentExtension", "parseSimpleContentRestriction",
   "parseElement", "parseParticleGroup", "parseGroup", "parseAttribute",
   "parseAttributeGroup", "parseSimpleType", "parseSimpleRestriction",
   "parseSimpleList", "parseSimpleUnion", "parseAnnotation"}

Slot ==
  {"none", "content", "attributes", "attributeGroups", "anyAttributes",
   "annotation", "complexContent", "simpleContent", "facets",
   "anonymousComplexType", "anonymousSimpleType", "restriction", "list",
   "union", "simpleTypes", "documentation", "elements", "groups",
   "complexTypes", "includes", "imports", "overrides", "redefines",
   "extension"}

Many(rule, slot) == [rule |-> rule, slot |-> slot, many |-> TRUE]
One(rule, slot) == [rule |-> rule, slot |-> slot, many |-> FALSE]
Skipped == Many("skip", "none")

(* Stored as it is; what is inside is skipped. *)
Leaf(slot) == Many("leaf", slot)

Else(child, other) == IF child # Skipped THEN child ELSE other

GroupKinds == {"sequence", "choice", "all"}

ContentChild(name) ==
  CASE name \in GroupKinds -> Many("parseParticleGroup", "content")
    [] name = "group"      -> Many("parseGroupRef", "content")
    [] OTHER               -> Skipped

AttributeChild(name) ==
  CASE name = "attribute"      -> Many("parseAttribute", "attributes")
    [] name = "attributeGroup" -> Many("parseGroupRef", "attributeGroups")
    [] name = "anyAttribute"   -> Leaf("anyAttributes")
    [] OTHER                   -> Skipped

AnnotationChild(name) ==
  IF name = "annotation" THEN One("parseAnnotation", "annotation") ELSE Skipped

(* parseComplexContent returns both derivations of the type, and the caller *)
(* replaces both: they are stored as one.                                    *)
ComplexTypeChild(name) ==
  CASE name = "complexContent" -> One("parseComplexContent", "complexContent")
    [] name = "simpleContent"  -> One("parseSimpleContent", "simpleContent")
    [] OTHER -> Else(AnnotationChild(name), Else(ContentChild(name), AttributeChild(name)))

ComplexContentChild(name) ==
  IF name \in {"extension", "restriction"} THEN One("parseComplexDerivation", name) ELSE Skipped

ComplexDerivationChild(name) == Else(ContentChild(name), AttributeChild(name))

SimpleContentChild(name) ==
  CASE name = "extension"   -> One("parseSimpleContentExtension", name)
    [] name = "restriction" -> One("parseSimpleContentRestriction", name)
    [] OTHER                -> Skipped

SimpleContentRestrictionChild(name) ==
  IF name = "annotation" THEN Skipped ELSE Else(AttributeChild(name), Leaf("facets"))

ElementChild(name) ==
  CASE name = "complexType" -> One("parseComplexType", "anonymousComplexType")
    [] name = "simpleType"  -> One("parseSimpleType", "anonymousSimpleType")
    [] OTHER                -> AnnotationChild(name)

ParticleGroupChild(name) ==
  CASE name = "element" -> Many("parseElement", "content")
    [] name = "any"     -> Leaf("content")
    [] OTHER            -> ContentChild(name)

GroupChild(name) ==
  IF name \in GroupKinds THEN One("parseParticleGroup", "content") ELSE Skipped

AttributeDeclarationChild(name) ==
  IF name = "simpleType" THEN One("parseSimpleType", "anonymousSimpleType")
  ELSE AnnotationChild(name)

SimpleTypeChild(name) ==
  CASE name = "restriction" -> One("parseSimpleRestriction", "restriction")
    [] name = "list"        -> One("parseSimpleList", "list")
    [] name = "union"       -> One("parseSimpleUnion", "union")
    [] OTHER                -> AnnotationChild(name)

SimpleRestrictionChild(name) == IF name = "annotation" THEN Skipped ELSE Leaf("facets")

SimpleListChild(name) ==
  IF name = "simpleType" THEN One("parseSimpleType", "anonymousSimpleType") ELSE Skipped

SimpleUnionChild(name) ==
  IF name = "simpleType" THEN Many("parseSimpleType", "simpleTypes") ELSE Skipped

ParseAnnotationChild(name) ==
  IF name = "documentation" THEN Many("readTextElement", "documentation") ELSE Skipped

(* The declarations that a schema, an override and a redefine may hold. *)
DeclarationChild(name) ==
  CASE name = "element"        -> Many("parseElement", "elements")
    [] name = "attribute"      -> Many("parseAttribute", "attributes")
    [] name = "attributeGroup" -> Many("parseAttributeGroup", "attributeGroups")
    [] name = "group"          -> Many("parseGroup", "groups")
    [] name = "complexType"    -> Many("parseComplexType", "complexTypes")
    [] name = "simpleType"     -> Many("parseSimpleType", "simpleTypes")
    [] OTHER                   -> Skipped

SchemaChild(name) ==
  CASE name = "include"  -> Leaf("includes")
    [] name = "import"   -> Leaf("imports")
    [] name = "override" -> Many("parseSchemaPatch", "overrides")
    [] name = "redefine" -> Many("parseSchemaPatch", "redefines")
    [] OTHER             -> DeclarationChild(name)

(* parseGroupRef stands for parseAttributeGroupRef too: both skip all that  *)
(* is inside, like a leaf, skip itself and readTextElement do.               *)
ChildOf(rule, name) ==
  CASE rule = "parseSchema"                   -> SchemaChild(name)
    [] rule = "parseSchemaPatch"              -> DeclarationChild(name)
    [] rule = "parseComplexType"              -> ComplexTypeChild(name)
    [] rule = "parseComplexContent"           -> ComplexContentChild(name)
    [] rule = "parseComplexDerivation"        -> ComplexDerivationChild(name)
    [] rule = "parseSimpleContent"            -> SimpleContentChild(name)
    [] rule = "parseSimpleContentExtension"   -> AttributeChild(name)
    [] rule = "parseSimpleContentRestriction" -> SimpleContentRestrictionChild(name)
    [] rule = "parseElement"                  -> ElementChild(name)
    [] rule = "parseParticleGroup"            -> ParticleGroupChild(name)
    [] rule = "parseGroup"                    -> GroupChild(name)
    [] rule = "parseAttribute"                -> AttributeDeclarationChild(name)
    [] rule = "parseAttributeGroup"           -> AttributeChild(name)
    [] rule = "parseSimpleType"               -> SimpleTypeChild(name)
    [] rule = "parseSimpleRestriction"        -> SimpleRestrictionChild(name)
    [] rule = "parseSimpleList"               -> SimpleListChild(name)
    [] rule = "parseSimpleUnion"              -> SimpleUnionChild(name)
    [] rule = "parseAnnotation"               -> ParseAnnotationChild(name)
    [] OTHER                                  -> Skipped

Handled(rule, token) == IF token.xsd THEN ChildOf(rule, token.name) ELSE Skipped

(* The functions that resolve a QName when they are entered. *)
Resolving == {"parseElement", "parseAttribute", "parseGroupRef", "parseComplexDerivation",
              "parseSimpleContentExtension", "parseSimpleContentRestriction",
              "parseSimpleRestriction", "parseSimpleList", "parseSimpleUnion"}

-----------------------------------------------------------------------------
(* Namespaces *)

(* The scope of the parser itself declares the prefix xml alone, which stands *)
(* for the same in every document and is left out.                            *)
XMLScope == [p \in {} |-> NoNamespace]

(* lookupNamespace: the innermost scope that declares the prefix. *)
LookupNamespace(scopes, prefix) ==
  LET declaring == {i \in DOMAIN scopes : prefix \in DOMAIN scopes[i]}
      innermost == CHOOSE i \in declaring : \A j \in declaring : j <= i
  IN  IF declaring = {} THEN NoNamespace ELSE scopes[innermost][prefix]

(* parseQName: a name without a prefix that no default namespace covers is  *)
(* one of the target namespace.                                              *)
ParseQName(scopes, ref, targetNS) ==
  LET namespace == LookupNamespace(scopes, ref.prefix)
  IN  IF ref.prefix = NoPrefix /\ namespace = NoNamespace THEN targetNS ELSE namespace

-----------------------------------------------------------------------------
(* The frames *)

Token == doc.tokens[pos + 1]

Top == stack[Len(stack)]

Caller == stack[Len(stack) - 1]

Reads(kind) ==
  /\ status = "reading"
  /\ pos < Len(doc.tokens)
  /\ Token.kind = kind
  /\ pos' = pos + 1

(* Seeded fault: a function that skips its element opens no scope for it.   *)
EnterNoScope(child) ==
  /\ stack' = Append(stack, [rule |-> child.rule, slot |-> child.slot, many |-> child.many,
                             at |-> pos + 1])
  /\ nsStack' = IF child.rule = "skip" THEN nsStack ELSE Append(nsStack, Token.decls)
  /\ resolved' = IF child.rule \in Resolving /\ Token.ref # NoName
                 THEN [resolved EXCEPT ![pos + 1] = ParseQName(nsStack', Token.ref, target)]
                 ELSE resolved

(* Seeded fault: the QName is resolved before the scope is opened.           *)
EnterResolveFirst(child) ==
  /\ stack' = Append(stack, [rule |-> child.rule, slot |-> child.slot, many |-> child.many,
                             at |-> pos + 1])
  /\ nsStack' = Append(nsStack, Token.decls)
  /\ resolved' = IF child.rule \in Resolving /\ Token.ref # NoName
                 THEN [resolved EXCEPT ![pos + 1] = ParseQName(nsStack, Token.ref, target)]
                 ELSE resolved

(* A function is entered at the start tag that is read: pushNamespaceScope, *)
(* and then its attributes are read.  parseGroupRef and a leaf leave the    *)
(* rest of their element to skip, which opens the same scope once more and   *)
(* closes both at the same end tag: they are one frame.                      *)
Enter(child) ==
  /\ stack' = Append(stack, [rule |-> child.rule, slot |-> child.slot, many |-> child.many,
                             at |-> pos + 1])
  /\ nsStack' = Append(nsStack, Token.decls)
  /\ resolved' = IF child.rule \in Resolving /\ Token.ref # NoName
                 THEN [resolved EXCEPT ![pos + 1] = ParseQName(nsStack', Token.ref, target)]
                 ELSE resolved

NoFields == [key \in {} |-> << >>]

Field(of, slot) == IF <<of, slot>> \in DOMAIN fields THEN fields[<<of, slot>>] ELSE << >>

WithField(of, slot, value) ==
  [key \in DOMAIN fields \cup {<<of, slot>>} |->
     IF key = <<of, slot>> THEN value ELSE fields[key]]

(* Seeded fault: a single field keeps its first value. *)
StoredFirst(frame) ==
  LET before == Field(Caller.at, frame.slot)
  IN  WithField(Caller.at, frame.slot,
                IF frame.many \/ before = << >> THEN Append(before, frame.at) ELSE before)

(* The declarations of a patch are also ones of the file. *)
Spread(into, frame, of) ==
  LET declares(slot) == <<frame.at, slot>> \in DOMAIN fields
  IN  [key \in DOMAIN into \cup {<<of, slot>> : slot \in {s \in Slot : declares(s)}} |->
         IF key[1] = of /\ declares(key[2])
         THEN Field(of, key[2]) \o Field(frame.at, key[2])
         ELSE into[key]]

(* The frame's result goes into the caller's declaration. *)
Stored(frame) ==
  LET stored == WithField(Caller.at, frame.slot,
                          IF frame.many THEN Append(Field(Caller.at, frame.slot), frame.at)
                          ELSE <<frame.at>>)
  IN  IF frame.rule = "parseSchemaPatch" THEN Spread(stored, frame, Caller.at) ELSE stored

Init ==
  /\ doc \in Docs
  /\ pos = 0
  /\ stack = << >>
  /\ nsStack = <<XMLScope>>
  /\ target = NoNamespace
  /\ resolved = [i \in 1..Len(doc.tokens) |-> Unresolved]
  /\ text = FALSE
  /\ fields = NoFields
  /\ status = "reading"

(* Parse, until the first element: parseSchema, or skip.                     *)
ReadRoot ==
  /\ Reads("start")
  /\ stack = << >>
  /\ LET isSchema == Token.xsd /\ Token.name = "schema"
     IN  /\ Enter(Many(IF isSchema THEN "parseSchema" ELSE "skip", "none"))
         /\ target' = IF isSchema THEN Token.target ELSE target
  /\ UNCHANGED <<doc, text, fields, status>>

(* A start tag inside: the child is handed to its function, or skipped.      *)
ReadStart ==
  /\ Reads("start")
  /\ stack # << >>
  /\ Enter(Handled(Top.rule, Token))
  /\ text' = (Handled(Top.rule, Token).rule # "readTextElement" /\ text)
  /\ UNCHANGED <<doc, target, fields, status>>

ReadText ==
  /\ Reads("text")
  /\ text' = (text \/ (stack # << >> /\ Top.rule = "readTextElement"))
  /\ UNCHANGED <<doc, stack, nsStack, target, resolved, fields, status>>

(* White space; also what readTextElement trims. *)
ReadBlank ==
  /\ Reads("blank")
  /\ UNCHANGED <<doc, stack, nsStack, target, resolved, text, fields, status>>

(* The end tag of the element of a frame: it returns, and its caller stores *)
(* the result.  Text of nothing but white space is not stored.  Once         *)
(* parseSchema has returned nothing more is read.                            *)
ReadEnd ==
  /\ Reads("end")
  /\ stack # << >>
  /\ LET start == doc.tokens[Top.at] IN start.xsd = Token.xsd /\ start.name = Token.name
  /\ stack' = SubSeq(stack, 1, Len(stack) - 1)
  /\ nsStack' = SubSeq(nsStack, 1, Len(nsStack) - 1)
  /\ fields' = IF Len(stack) = 1 \/ Top.rule = "skip" \/ (Top.rule = "readTextElement" /\ ~ text)
              THEN fields
              ELSE Stored(Top)
  /\ status' = IF Top.rule = "parseSchema" THEN "parsed" ELSE status
  /\ UNCHANGED <<doc, target, resolved, text>>

(* Seeded fault: an error is taken for the end of the document.              *)
ReadErrorAsEOF ==
  /\ Reads("error")
  /\ stack' = << >>
  /\ nsStack' = SubSeq(nsStack, 1, Len(nsStack) - Len(stack))
  /\ status' = "parsed"
  /\ UNCHANGED <<doc, target, resolved, text, fields>>

(* An error of the decoder is returned by every frame, each of which closes *)
(* its scope on the way; the file is dropped.                                *)
ReadError ==
  /\ Reads("error")
  /\ stack' = << >>
  /\ nsStack' = SubSeq(nsStack, 1, Len(nsStack) - Len(stack))
  /\ fields' = NoFields
  /\ status' = "failed"
  /\ UNCHANGED <<doc, target, resolved, text>>

(* io.EOF behind a document that is no schema: a file of no declarations.    *)
ReadEOF ==
  /\ status = "reading"
  /\ pos = Len(doc.tokens)
  /\ status' = "parsed"
  /\ UNCHANGED <<doc, pos, stack, nsStack, target, resolved, text, fields>>

Next == ReadRoot \/ ReadStart \/ ReadText \/ ReadBlank \/ ReadEnd \/ ReadError \/ ReadEOF

(* Parse is a loop that returns when the input ends. *)
Spec == Init /\ [][Next]_vars

-----------------------------------------------------------------------------
(* Properties *)

Frame == [rule : Rule, slot : Slot, many : BOOLEAN, at : Nat \ {0}]

(* Type invariant of one Parse; a name space is one the document declares,   *)
(* never a prefix (parseQName).                                              *)
ParserTypeOK ==
  /\ pos \in 0..Len(doc.tokens)
  /\ stack \in Seq(Frame)
  /\ nsStack \in Seq(Scopes)
  /\ target \in Namespace
  /\ resolved \in [1..Len(doc.tokens) -> Namespace \cup {Unresolved}]
  /\ text \in BOOLEAN
  /\ DOMAIN fields \subseteq (Nat \ {0}) \X Slot
  /\ fields \in [DOMAIN fields -> Seq(Nat \ {0})]
  /\ status \in {"reading", "parsed", "failed"}

(* No function returns early or late: those that have not returned are at    *)
(* the elements of the document that are open, in their order, and the       *)
(* scopes are theirs; an error closes all of them.                           *)
FramesAreOpenElements ==
  /\ status # "failed" =>
       /\ Len(stack) = Len(doc.open[pos])
       /\ \A i \in DOMAIN stack : stack[i].at = doc.open[pos][i]
  /\ Len(nsStack) = Len(stack) + 1
  /\ \A i \in DOMAIN stack : nsStack[i + 1] = doc.tokens[stack[i].at].decls

(* What a prefix means at an element is said by the innermost element around *)
(* it, or by itself, that declares the prefix.                               *)
InScope(at, prefix) ==
  LET around == {i \in DOMAIN doc.open[at] : prefix \in DOMAIN doc.tokens[doc.open[at][i]].decls}
      nearest == CHOOSE i \in around : \A j \in around : j <= i
  IN  IF around = {} THEN NoNamespace ELSE doc.tokens[doc.open[at][nearest]].decls[prefix]

MeantNamespace(at) ==
  LET ref == doc.tokens[at].ref
      inScope == InScope(at, ref.prefix)
  IN  IF ref.prefix = NoPrefix /\ inScope = NoNamespace THEN target ELSE inScope

(* The document read as a tree: the function each element is read by is      *)
(* that of its parent's table.                                               *)
IsStart(i) == doc.tokens[i].kind = "start"

Parent(i) == doc.open[i][Len(doc.open[i]) - 1]

Reading ==
  LET reading[i \in 1..Len(doc.tokens)] ==
        IF ~ IsStart(i) THEN Skipped
        ELSE IF Len(doc.open[i]) > 1 THEN Handled(reading[Parent(i)].rule, doc.tokens[i])
        ELSE IF doc.tokens[i].xsd /\ doc.tokens[i].name = "schema"
             THEN Many("parseSchema", "none") ELSE Skipped
  IN  reading

HasText(i) ==
  \E n \in i..pos : doc.tokens[n].kind = "text" /\ doc.open[n] = doc.open[i]

(* A reference means what the declarations around it say: no scope of an     *)
(* element that is closed, skipped ones included, is left over, and none is  *)
(* missing (pushNamespaceScope, popNamespaceScope, parseQName).               *)
ReferencesMeanWhatTheySay ==
  /\ \A i \in DOMAIN resolved : resolved[i] # Unresolved => resolved[i] = MeantNamespace(i)
  /\ \A k \in DOMAIN stack :
       stack[k].rule \in Resolving /\ doc.tokens[stack[k].at].ref # NoName =>
         resolved[stack[k].at] # Unresolved

(* What has been read is what the closed elements say: every element that a  *)
(* function knows is in the field it belongs to, of the declaration around   *)
(* it, and of the file if that is a patch, in the order of the document;     *)
(* nothing of an element that is skipped is; of what there is one of, the    *)
(* last is kept.                                                             *)
DeclarationsAreRead ==
  LET open == {doc.open[pos][k] : k \in DOMAIN doc.open[pos]}
      inside == {i \in 1..pos : IsStart(i) /\ i \notin open /\ Len(doc.open[i]) > 1}
      own == {row \in {[at |-> i, of |-> Parent(i), as |-> Reading[i]] : i \in inside} :
                /\ row.as.rule # "skip"
                /\ row.as.rule = "readTextElement" => HasText(row.at)}
      patching == {row \in own : row.of \in inside /\ Reading[row.of].rule = "parseSchemaPatch"}
      read == own \cup {[row EXCEPT !.of = Parent(row.of)] : row \in patching}
      replaced(row) == ~ row.as.many /\ \E other \in read :
                         other.at > row.at /\ other.of = row.of /\ other.as.slot = row.as.slot
      meant(of, slot) == {row.at : row \in {r \in read : r.of = of /\ r.as.slot = slot /\ ~ replaced(r)}}
  IN  status # "failed" =>
        /\ DOMAIN fields = {<<row.of, row.as.slot>> : row \in read}
        /\ \A key \in DOMAIN fields :
             /\ {fields[key][i] : i \in DOMAIN fields[key]} = meant(key[1], key[2])
             /\ \A i, j \in DOMAIN fields[key] : i < j => fields[key][i] < fields[key][j]

(* A file is dropped if and only if the document is broken before the end of *)
(* its schema, and nothing of it is kept then.                               *)
BrokenDocumentsFail ==
  /\ status = "failed" => doc.tokens[pos].kind = "error" /\ fields = NoFields
  /\ status = "parsed" => doc.open[pos] = << >> /\ \A i \in 1..pos : doc.tokens[i].kind # "error"
=============================================================================
