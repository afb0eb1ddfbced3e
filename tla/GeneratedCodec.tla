--------------------------- MODULE GeneratedCodec ---------------------------
(***************************************************************************)
(* The UnmarshalXML, MarshalXML and Validate methods the generator emits   *)
(* for one complex type, as programs: generator/fields.go decides which    *)
(* fields the type gets and whether it becomes a mixed-content or a choice *)
(* type; renderer/polymorphic_render.go and renderer/struct_render.go      *)
(* decide what the methods do.  encoding/xml is external: it hands over a  *)
(* document token by token and fills structs by their tags.                *)
(*                                                                         *)
(* The value of a field is the sequence of what it holds: a slice is its   *)
(* items, a pointer is << >> or <<v>>, a plain field is always <<v>>; a    *)
(* Nillable that is nil is Nil, whatever is beside it.  What one type does *)
(* is modelled here; what the types of its fields do is given by constant  *)
(* operators, one for each way in which the generated code uses them.      *)
(*                                                                         *)
(* The content of an element or an attribute is the sequence of its pieces,*)
(* where nothing is the empty string.  Declarations of namespaces, which   *)
(* encoding/xml hands over as attributes too, are left out, and so is the  *)
(* name of the element itself.  Fields of polymorphic type are left to     *)
(* module Polymorphism.                                                    *)
(***************************************************************************)
EXTENDS Naturals, Sequences, FiniteSets, SequencesExt, Selections

CONSTANTS
  Types,            \* the complex types: [mixed |-> .., marked |-> .., fields |-> ..],
                    \* marked if the type implements the interface of a head
  Namespaces, Locals,    \* what the names of elements and attributes are made of
  AnyElementName,   \* the Go type's name, written for a wildcard without a name
  TargetNamespace,
  InScope,          \* the default namespace where a value is written
  DeclaredNames,    \* the names in the generated declaration index
  GoTypes,          \* the types of fields
  Values,           \* what variables of these types hold
  Pieces,           \* what contents are made of
  Bad,              \* no value: the content is not one of the type
  Nil,              \* an empty child with xsi:nil="true"
  Unbounded,        \* schema.OccursUnbounded
  Tokens(_),        \* the tokens of documents for a type: [kind |-> "attribute",
                    \* "child" or "text", name |-> .., value |-> ..]
  MaxTokens,        \* bound: tokens of a document; two less for each that follows
  MaxDocuments      \* bound: documents decoded into the same value

CONSTANTS
  ZeroOf(_),             \* Go's zero of a type
  DecodedAs(_, _, _, _), \* what a variable of the type holds when a content is decoded
                         \* into it, no value if that fails: the type, whether its
                         \* UnmarshalXML validates, what it held before -- a struct
                         \* without a method of its own keeps that where the content
                         \* is silent -- and the content
  EncodedAs(_, _),       \* what encoding/xml or MarshalText make of a value
  Sprint(_, _),          \* fmt.Sprint of a value
  Literal(_, _),         \* the value of defaultValueExpr for a text, none if that does
                         \* not compile or panics
  HasValidate(_),        \* whether the type has a Validate method
  ValidValues(_)         \* the values that ValidateField accepts

NoNamespace == ""
Names == [space : Namespaces, local : Locals]
NoName == [space |-> NoNamespace, local |-> ""]
Contents == Seq(Pieces)

(* A field of the model: what generateFields is given.  Its default and its *)
(* fixed value are texts, empty if there is none.                            *)
Field ==
  [name : Names \cup {NoName}, type : GoTypes, choice : BOOLEAN, required : BOOLEAN,
   nillable : BOOLEAN, kind : {"element", "attribute", "text", "any", "anyAttribute"},
   min : Nat, max : {Unbounded} \cup Nat, default : Contents, fixed : Contents,
   namespaces : SUBSET STRING, process : {"strict", "lax", "skip"}]

(* Attributes and text occur once, text and wildcards have neither a name   *)
(* nor a default, and only elements can be nil.  A type has one text, as    *)
(* module ComplexFields shows.                                              *)
FieldAllowed(f) ==
  /\ f.name = NoName <=> f.kind \in {"text", "any", "anyAttribute"}
  /\ f.max = Unbounded \/ f.min <= f.max
  /\ f.kind \in {"attribute", "text"} => f.max = 1
  /\ f.kind \notin {"element", "attribute"} => f.default = << >> /\ f.fixed = << >>
  /\ f.nillable => f.kind = "element"

ASSUME TypesAssumption ==
  /\ Types \subseteq [mixed : BOOLEAN, marked : BOOLEAN, fields : Seq(Field)]
  /\ \A t \in Types : \A i \in DOMAIN t.fields :
       /\ FieldAllowed(t.fields[i])
       /\ \A j \in DOMAIN t.fields : t.fields[i].kind = "text" /\ t.fields[j].kind = "text" => i = j
  /\ Unbounded \notin Nat

(* What a wildcard catches is kept as it is.                                 *)
Caught == [name : Names \cup {NoName}, value : {Nil} \cup Contents]

ASSUME TokensAssumption ==
  \A t \in Types : \A tok \in Tokens(t) :
    \/ tok \in [kind : {"attribute"}, name : Names, value : Contents]
    \/ tok \in [kind : {"child"}, name : Names, value : {Nil} \cup Contents]
    \/ tok \in [kind : {"text"}, name : {NoName}, value : Contents]

ASSUME NamesAssumption ==
  /\ Namespaces \subseteq STRING /\ Locals \subseteq STRING
  /\ {NoNamespace, InScope} \subseteq Namespaces /\ "" \notin Locals
  /\ AnyElementName \in Names /\ AnyElementName.space = NoNamespace

ASSUME ValuesAssumption ==
  \A ty \in GoTypes :
    /\ ZeroOf(ty) \in Values /\ HasValidate(ty) \in BOOLEAN
    /\ \A v \in Values : EncodedAs(ty, v) \in Contents /\ Sprint(ty, v) \in Contents

ASSUME CodecAssumption ==
  /\ Bad # Nil /\ {Bad, Nil} \cap Values = {} /\ Bad \notin Caught
  /\ MaxTokens \in Nat /\ MaxDocuments \in Nat

VARIABLES
  type,         \* the type the methods were generated for
  validating,   \* --validate-on-unmarshal
  target,       \* *t, the value decoded into
  local,        \* v, the decoder's local copy, where it has one
  before,       \* *t when the current call of UnmarshalXML began
  read,         \* the tokens the current call has read
  rereading,    \* whether the document is one that MarshalXML wrote
  unread,       \* what is left of that document
  original,     \* the value that document was written from
  documents,    \* the documents decoded so far
  phase         \* idle, reading, done or failed: with an error, or by a panic of Validate

codecVars == <<type, validating, target, local, before, read, rereading, unread,
          original, documents, phase>>

-----------------------------------------------------------------------------
(* generateFields: what a meta field becomes.                               *)
Repeated(f) == f.kind # "anyAttribute" /\ (f.max = Unbounded \/ f.max > 1)

Optional(f) == IF f.kind = "attribute" THEN ~f.required
               ELSE f.kind \in {"element", "any"} /\ (f.min = 0 \/ f.choice)

Required(f) == IF f.kind = "attribute" THEN f.required
               ELSE f.kind # "anyAttribute" /\ f.min > 0 /\ ~f.choice

IsPointer(f) == Optional(f) /\ ~Repeated(f)
IsSlice(f) == Repeated(f) \/ f.kind = "anyAttribute"
DefaultText(f) == IF f.fixed # << >> THEN f.fixed ELSE f.default
HasDefault(f) == DefaultText(f) # << >>

(* A struct whose fields are all branches of a choice becomes a choice.     *)
IsChoice(fields) ==
  /\ Len(fields) >= 2
  /\ \A i \in DOMAIN fields :
       /\ fields[i].choice /\ fields[i].kind \in {"element", "any"}
       /\ Repeated(fields[i]) = Repeated(fields[1])
       /\ \A j \in 1 .. i - 1 : fields[i].name # fields[j].name

(* Seeded fault: attributes are not tracked.                                *)
NeedsPresenceTrackingElements(f) ==
  /\ Required(f) /\ ~Repeated(f) /\ ~IsPointer(f) /\ ~f.nillable
  /\ f.kind = "element"

NeedsPresenceTracking(f) ==
  /\ Required(f) /\ ~Repeated(f) /\ ~IsPointer(f) /\ ~f.nillable
  /\ f.kind \in {"element", "attribute"}

AppliesDefault(f) ==
  HasDefault(f) /\ ~Repeated(f) /\ ~f.nillable /\ f.kind \notin {"any", "anyAttribute"}

(* Which UnmarshalXML is rendered: complexType in the generator, then       *)
(* renderStructUnmarshal; "plain" is a struct without one, which            *)
(* encoding/xml fills in place.                                             *)
Shape(t, validate) ==
  IF t.mixed THEN "mixed"
  ELSE IF IsChoice(t.fields) THEN "choice"
  ELSE IF \E i \in DOMAIN t.fields :
            NeedsPresenceTracking(t.fields[i]) \/ AppliesDefault(t.fields[i]) THEN "tracked"
  ELSE IF validate /\ t.fields # << >> THEN "alias"
  ELSE "plain"

fields == type.fields
shape == Shape(type, validating)
HasContent == shape \in {"mixed", "choice"}

(* Where one field makes the method a tracking one, every pointer with a    *)
(* default gets an assignment of it.                                        *)
AssignsDefault(f) == /\ HasDefault(f) /\ ~NeedsPresenceTracking(f)
                     /\ IsPointer(f) \/ (~Repeated(f) /\ ~f.nillable)

(* The expression assigned is a literal of the field's type: there is none  *)
(* of a Nillable, nor of a number for a text that is not one.               *)
DefaultValue(f) == LET v == Literal(f.type, DefaultText(f)) IN IF v \in Values THEN v ELSE Bad
Compiles(t) ==
  Shape(t, FALSE) = "tracked" =>
    \A i \in DOMAIN t.fields :
      AssignsDefault(t.fields[i]) => ~t.fields[i].nillable /\ DefaultValue(t.fields[i]) # Bad

(* xmlTag: a tag has the namespace of an element only.                      *)
TagOf(f) == IF f.kind = "attribute" THEN [f.name EXCEPT !.space = NoNamespace] ELSE f.name

(* encoding/xml takes a tag without a namespace for a name of any, and      *)
(* refuses a struct if a name of one field's tag would match another's.     *)
TagMatches(tag, name) == tag.local = name.local /\ tag.space \in {NoNamespace, name.space}
TagsConflict ==
  ~HasContent /\ \E i, j \in DOMAIN fields :
    /\ i # j /\ fields[i].kind = fields[j].kind /\ fields[i].kind \in {"element", "attribute"}
    /\ TagMatches(TagOf(fields[i]), TagOf(fields[j]))

ZeroItem(f) == IF f.kind = "any" THEN [name |-> NoName, value |-> << >>] ELSE ZeroOf(f.type)
ZeroField(f) == IF IsSlice(f) \/ IsPointer(f) THEN << >> ELSE <<ZeroItem(f)>>
ZeroValue == IF HasContent THEN << >> ELSE [i \in DOMAIN fields |-> ZeroField(fields[i])]

(* The local copy: a field whose absence matters is a pointer there.        *)
IsShadowed(f) == shape = "tracked" /\ (NeedsPresenceTracking(f) \/ AppliesDefault(f))
ZeroLocal == [i \in DOMAIN fields |->
                IF IsShadowed(fields[i]) THEN << >> ELSE ZeroField(fields[i])]
Filled == IF shape = "plain" THEN target ELSE local

-----------------------------------------------------------------------------
Named(kind, name) == {i \in DOMAIN fields : fields[i].kind = kind /\ fields[i].name = name}
Tagged(kind, name) ==
  {i \in DOMAIN fields : fields[i].kind = kind /\ TagMatches(TagOf(fields[i]), name)}
Catching(kind) == {i \in DOMAIN fields : fields[i].kind = kind}
First(S) == IF S = {} THEN 0 ELSE CHOOSE i \in S : \A j \in S : i <= j

(* The field a token goes to, or 0.  A struct takes the first of its tags   *)
(* that match, and catches in its wildcard what none does; the methods of   *)
(* mixed and choice types compare names with their namespaces, attributes   *)
(* they drop.  Text is collected apart, see WithText.                       *)
FieldFor(tok) ==
  CASE tok.kind = "text" -> 0
    [] tok.kind = "attribute" ->
         IF HasContent THEN 0
         ELSE IF Tagged("attribute", tok.name) # {} THEN First(Tagged("attribute", tok.name))
         ELSE First(Catching("anyAttribute"))
    [] tok.kind = "child" ->
         IF HasContent THEN First(Named("element", tok.name))
         ELSE IF Tagged("element", tok.name) # {} THEN First(Tagged("element", tok.name))
         ELSE First(Catching("any"))

IsText(tok) == tok.kind = "text" /\ shape = "mixed"

(* DecodeElement and UnmarshalXMLAttr.  What is nil stays nil: Nillable's   *)
(* UnmarshalXML never clears Nil again, but decodes what comes.             *)
Decode(ty, old, content) ==
  LET v == DecodedAs(ty, validating, old, content) IN IF v \in Values THEN v ELSE Bad
Parsed(f, old, tok) ==
  LET v == Decode(f.type, IF old = Nil THEN ZeroOf(f.type) ELSE old,
                  IF tok.value = Nil THEN << >> ELSE tok.value)
  IN CASE f.kind \in {"any", "anyAttribute"} -> [name |-> tok.name, value |-> tok.value]
       [] f.kind \in {"element", "attribute"} ->
            IF f.nillable /\ (tok.value = Nil \/ (old = Nil /\ v # Bad)) THEN Nil ELSE v

(* The variable it is decoded into: a new item of a slice, otherwise what   *)
(* the field holds, or what a new pointer points to.                        *)
Old(f, held) == IF IsSlice(f) \/ held = << >> THEN ZeroItem(f) ELSE Head(held)
Into(f, held, tok) == LET v == Parsed(f, Old(f, held), tok)
                      IN IF IsSlice(f) THEN Append(held, v) ELSE <<v>>

Fails(tok) == FieldFor(tok) # 0 /\
  LET k == FieldFor(tok)
      f == fields[k]
  IN Parsed(f, IF HasContent THEN ZeroItem(f) ELSE Old(f, Filled[k]), tok) = Bad

-----------------------------------------------------------------------------
(* Validate: renderStructValidate, renderFieldStrictValidation,             *)
(* renderFixedValidation, renderAnyWildcardValidation.                      *)
WildcardNamespaceAllowed(constraint, namespace) ==
  \E c \in IF constraint = {} THEN {"##any"} ELSE constraint :
    CASE c = "##any" -> TRUE
      [] c = "##local" -> namespace = NoNamespace
      [] c = "##targetNamespace" -> namespace = TargetNamespace
      [] c = "##other" -> namespace # TargetNamespace
      [] OTHER -> namespace = c

ProcessContentsAllowed(process, name) == process = "strict" => name \in DeclaredNames

CountAllowed(f, n) == /\ f.min > 0 => n >= f.min
                      /\ f.max = Unbounded \/ (f.max > 0 => n <= f.max)

(* What is printed is compared with the text of the fixed value; a Nillable *)
(* is printed as a struct.                                                  *)
FixedHeld(f, value) == f.fixed # << >> =>
  \A i \in DOMAIN value : ~f.nillable /\ Sprint(f.type, value[i]) = f.fixed

(* ValidateField: every item that has a Validate method, and a pointer that *)
(* is nil, for which that method panics.  Nillable has none.                *)
ItemsValid(f, value) == ~f.nillable =>
  /\ \A i \in DOMAIN value : value[i] \in ValidValues(f.type)
  /\ IsPointer(f) /\ HasValidate(f.type) => value # << >>

FieldValid(f, value) ==
  /\ Repeated(f) => CountAllowed(f, Len(value))
  /\ f.kind \in {"any", "anyAttribute"} => \A i \in DOMAIN value :
       /\ WildcardNamespaceAllowed(f.namespaces, value[i].name.space)
       /\ ProcessContentsAllowed(f.process, value[i].name)
  /\ f.kind \in {"element", "attribute"} => FixedHeld(f, value)
  /\ f.kind \in {"element", "attribute", "text"} => ItemsValid(f, value)

ContentValid(content) ==
  shape = "choice" => IF Repeated(fields[1]) THEN CountAllowed(fields[1], Len(content))
                      ELSE fields[1].min > 0 => content # << >>

Valid(value) == IF HasContent THEN ContentValid(value)
                ELSE \A i \in DOMAIN fields : FieldValid(fields[i], value[i])

-----------------------------------------------------------------------------
(* needsNormalPrefixMarshal: which types write themselves, printing what    *)
(* attributes and text hold.  The others are written by their tags, so      *)
(* their attributes have no namespace.  An element of no namespace is       *)
(* written without a prefix, and so in the default namespace.               *)
IsPrefixed ==
  /\ ~HasContent /\ ~type.marked
  /\ \E i \in DOMAIN fields : \/ fields[i].name.space # NoNamespace
                              \/ fields[i].kind \in {"any", "anyAttribute"}

InDefaultScope(name) == IF name.space = NoNamespace THEN [name EXCEPT !.space = InScope] ELSE name
WrittenName(f) == IF f.kind = "element" THEN InDefaultScope(f.name)
                  ELSE IF IsPrefixed THEN f.name ELSE TagOf(f)

Encoded(f, v) == IF v = Nil THEN Nil
                 ELSE IF IsPrefixed /\ f.kind \in {"attribute", "text"} THEN Sprint(f.type, v)
                 ELSE EncodedAs(f.type, v)

(* The tokens written for a value.  Two texts with nothing between them are *)
(* one in a document.                                                       *)
Child(name, c) == [kind |-> "child", name |-> name, value |-> c]
TextOf(c) == [kind |-> "text", name |-> NoName, value |-> c]

WriteText(doc, c) ==
  IF c = << >> THEN doc
  ELSE IF doc # << >> /\ Last(doc).kind = "text"
       THEN Append(Front(doc), TextOf(Last(doc).value \o c))
       ELSE Append(doc, TextOf(c))

ChildOf(entry) == LET f == fields[FieldFor(entry)]
                  IN Child(InDefaultScope(f.name), Encoded(f, entry.value))
WriteEntry(doc, entry) == IF entry.kind = "text" THEN WriteText(doc, entry.value)
                          ELSE Append(doc, ChildOf(entry))

WriteItem(f, v) ==
  CASE f.kind = "text" -> LET c == Encoded(f, v) IN IF c = << >> THEN << >> ELSE <<TextOf(c)>>
    [] f.kind = "any" ->
         <<Child(InDefaultScope(IF v.name = NoName THEN AnyElementName ELSE v.name), v.value)>>
    [] f.kind = "anyAttribute" ->
         <<[kind |-> "attribute", name |-> v.name, value |-> v.value]>>
    [] OTHER -> <<[kind |-> IF f.kind = "element" THEN "child" ELSE "attribute",
                   name |-> WrittenName(f), value |-> Encoded(f, v)]>>

(* Seeded fault: omitempty on every field.                                  *)
WriteFieldOmitEmpty(f, value) ==
  FlattenSeq([i \in DOMAIN value |->
    IF f.kind \in {"element", "attribute"} /\ value[i] = ZeroOf(f.type) THEN << >>
    ELSE WriteItem(f, value[i])])

WriteField(f, value) == FlattenSeq([i \in DOMAIN value |-> WriteItem(f, value[i])])

IsAttribute(f) == f.kind \in {"attribute", "anyAttribute"}
WriteFields(value, attributes) ==
  FlattenSeq([i \in DOMAIN fields |->
    IF IsAttribute(fields[i]) = attributes THEN WriteField(fields[i], value[i]) ELSE << >>])

WriteContent(content) ==
  LET upTo[n \in 0 .. Len(content)] ==
        IF n = 0 THEN << >> ELSE WriteEntry(upTo[n - 1], content[n])
  IN  upTo[Len(content)]

Written(value) == IF HasContent THEN WriteContent(value)
                  ELSE WriteFields(value, TRUE) \o WriteFields(value, FALSE)

-----------------------------------------------------------------------------
CodecInit ==
  /\ type \in {t \in Types : Compiles(t)} /\ validating \in BOOLEAN
  /\ target = ZeroValue /\ local = << >> /\ before = << >>
  /\ read = << >> /\ rereading = FALSE /\ unread = << >> /\ original = << >>
  /\ documents = 0 /\ phase = "idle"

(* A call of UnmarshalXML on the value t, with a fresh local copy where the *)
(* method has one.                                                          *)
Begin(t) ==
  /\ phase' = IF TagsConflict THEN "failed" ELSE "reading"
  /\ target' = t /\ before' = t /\ read' = << >>
  /\ local' = IF shape \in {"tracked", "alias"} THEN ZeroLocal ELSE << >>
  /\ documents' = documents + 1
  /\ UNCHANGED <<type, validating>>

Decoding ==
  /\ phase \in {"idle", "done", "failed"} /\ ~rereading /\ documents < MaxDocuments
  /\ Begin(target) /\ UNCHANGED <<rereading, unread, original>>

(* What was decoded is written, and the document decoded into a fresh value.*)
Reread ==
  /\ phase = "done" /\ ~rereading
  /\ rereading' = TRUE /\ unread' = Written(target) /\ original' = target
  /\ Begin(ZeroValue)

Offered ==
  IF rereading THEN IF unread = << >> THEN {} ELSE {Head(unread)}
  ELSE IF Len(read) + 2 * (documents - 1) >= MaxTokens THEN {}
  ELSE {tok \in Tokens(type) :
          tok.kind = "attribute" => \A i \in DOMAIN read :
            read[i].kind = "attribute" /\ read[i].name # tok.name}

ReadToken(tok) ==
  /\ phase = "reading" /\ tok \in Offered
  /\ read' = Append(read, tok)
  /\ unread' = IF rereading THEN Tail(unread) ELSE unread
  /\ UNCHANGED <<type, validating, before, rereading, original, documents>>

(* A child or an attribute that has a field.                                *)
ReadKnown == \E tok \in Offered : LET k == FieldFor(tok) IN
  /\ ReadToken(tok) /\ k # 0 /\ ~Fails(tok) /\ ~HasContent
  /\ UNCHANGED phase
  /\ LET WithToken(value) == [value EXCEPT ![k] = Into(fields[k], value[k], tok)]
     IN IF shape = "plain" THEN target' = WithToken(target) /\ UNCHANGED local
                           ELSE local' = WithToken(local) /\ UNCHANGED target

(* The methods of mixed and choice types append to Content; that of a       *)
(* choice of one overwrites it.                                             *)
EntryOf(tok) == LET f == fields[FieldFor(tok)]
                IN IF IsText(tok) THEN tok ELSE [tok EXCEPT !.value = Parsed(f, ZeroItem(f), tok)]

(* Seeded fault: a choice of one keeps its first branch.                    *)
ReadContentKeepsFirst == \E tok \in Offered :
  /\ ReadToken(tok) /\ HasContent /\ (FieldFor(tok) # 0 \/ IsText(tok)) /\ ~Fails(tok)
  /\ UNCHANGED <<phase, local>>
  /\ target' = IF shape = "choice" /\ ~Repeated(fields[1]) /\ target # << >> THEN target
               ELSE Append(target, EntryOf(tok))

ReadContent == \E tok \in Offered :
  /\ ReadToken(tok) /\ HasContent /\ (FieldFor(tok) # 0 \/ IsText(tok)) /\ ~Fails(tok)
  /\ UNCHANGED <<phase, local>>
  /\ target' = IF shape = "choice" /\ ~Repeated(fields[1]) THEN <<EntryOf(tok)>>
               ELSE Append(target, EntryOf(tok))

Skip == \E tok \in Offered :
  /\ FieldFor(tok) = 0 /\ ~IsText(tok)
  /\ ReadToken(tok) /\ UNCHANGED <<phase, target, local>>

(* What a failed decoding leaves behind in a struct that is filled in place *)
(* is the business of the field's type; a slice loses the item again.       *)
LeftBy(places) ==
  \E v \in Values :
    target' = IF shape # "plain" THEN target
              ELSE [i \in DOMAIN fields |->
                      IF i \in places /\ ~IsSlice(fields[i]) /\ target[i] # <<Nil>>
                      THEN <<v>> ELSE target[i]]

ReadBad == \E tok \in Offered :
  /\ ReadToken(tok) /\ Fails(tok) /\ phase' = "failed"
  /\ LeftBy({FieldFor(tok)}) /\ UNCHANGED local

-----------------------------------------------------------------------------
(* The text of a struct is decoded when its element ends.                   *)
TextRead == FlattenSeq([i \in DOMAIN read |->
                          IF read[i].kind = "text" THEN read[i].value ELSE << >>])
TextValue(i) == Decode(fields[i].type, Head(Filled[i]), TextRead)
TextFields == {i \in DOMAIN fields : fields[i].kind = "text"}
TextFails == \E i \in TextFields : TextValue(i) = Bad
WithText == [i \in DOMAIN fields |-> IF i \in TextFields THEN <<TextValue(i)>> ELSE Filled[i]]

Missing == {i \in DOMAIN fields : NeedsPresenceTracking(fields[i]) /\ local[i] = << >>}

(* Seeded fault: a default replaces a zero value.                           *)
AssignedOverZero(i) ==
  IF AssignsDefault(fields[i]) /\ local[i] \in {<< >>, <<ZeroOf(fields[i].type)>>}
  THEN <<DefaultValue(fields[i])>> ELSE WithText[i]

Assigned(i) == IF local[i] = << >> /\ AssignsDefault(fields[i])
               THEN <<DefaultValue(fields[i])>> ELSE WithText[i]

FinishDecoding(value) ==
  /\ target' = value
  /\ phase' = IF validating /\ ~Valid(value) THEN "failed" ELSE "done"

AtEnd == /\ phase = "reading" /\ unread = << >>
         /\ UNCHANGED <<type, validating, local, before, read, rereading, unread,
                        original, documents>>

(* xml.EndElement in a mixed or choice type.                                *)
ReadEnd == AtEnd /\ HasContent /\ FinishDecoding(target)

ReadEndBad == AtEnd /\ ~HasContent /\ TextFails /\ phase' = "failed" /\ LeftBy(TextFields)

(* The end of a struct without a method of its own, and of one whose method *)
(* only validates what it decoded.                                          *)
ReadEndPlain == AtEnd /\ shape = "plain" /\ ~TextFails /\ phase' = "done" /\ target' = WithText
ReadEndAlias == AtEnd /\ shape = "alias" /\ ~TextFails /\ FinishDecoding(WithText)

(* renderPresenceTrackingUnmarshal: the fields are assigned in order, up to *)
(* the first required one that is missing.                                  *)
ReadEndTracked ==
  /\ AtEnd /\ shape = "tracked" /\ ~TextFails
  /\ IF Missing = {} THEN FinishDecoding([i \in DOMAIN fields |-> Assigned(i)])
     ELSE /\ phase' = "failed"
          /\ target' = [i \in DOMAIN fields |->
                          IF i < First(Missing) THEN Assigned(i) ELSE target[i]]

CodecNext == \/ Decoding \/ Reread
        \/ ReadKnown \/ ReadContent \/ Skip \/ ReadBad
        \/ ReadEnd \/ ReadEndBad \/ ReadEndPlain \/ ReadEndAlias \/ ReadEndTracked

CodecSpec == CodecInit /\ [][CodecNext]_codecVars

-----------------------------------------------------------------------------
(* The properties.  A document is said in terms of names with namespaces: a *)
(* struct should hold for a field what has the field's name, and in its     *)
(* wildcard the rest.                                                       *)
FieldNamed(tok) ==
  CASE tok.kind = "text" \/ (tok.kind = "attribute" /\ HasContent) -> 0
    [] tok.kind = "attribute" /\ ~HasContent ->
         First(IF Named("attribute", tok.name) # {} THEN Named("attribute", tok.name)
               ELSE Catching("anyAttribute"))
    [] tok.kind = "child" ->
         First(IF HasContent \/ Named("element", tok.name) # {} THEN Named("element", tok.name)
               ELSE Catching("any"))

TokensOf(i) == AtPlaces(read, {k \in DOMAIN read : FieldNamed(read[k]) = i})
Texts == AtPlaces(read, {k \in DOMAIN read : read[k].kind = "text"})

(* Tags tell names apart only where no other field, or none, has the local  *)
(* name of a tag without a namespace.                                       *)
NamesTold == \A k \in DOMAIN read : FieldFor(read[k]) = FieldNamed(read[k])

(* One child after the other, into the same variable.                       *)
Gathered(f, tokens) ==
  LET upTo[n \in 0 .. Len(tokens)] ==
        IF n = 0 THEN ZeroItem(f)
        ELSE IF upTo[n - 1] = Bad THEN Bad ELSE Parsed(f, upTo[n - 1], tokens[n])
  IN  upTo[Len(tokens)]

(* What the document says of a field: each slice has every child of its     *)
(* name in order, each other field what its children make together, which   *)
(* is the last unless they are structs or nil, or its default as if the     *)
(* document had it, or nothing.                                             *)
DocumentValue(i) ==
  LET f == fields[i]
      tokens == TokensOf(i)
  IN IF f.kind = "text"
     THEN <<Decode(f.type, ZeroOf(f.type), FlattenSeq([k \in DOMAIN Texts |-> Texts[k].value]))>>
     ELSE IF IsSlice(f) THEN [k \in DOMAIN tokens |-> Parsed(f, ZeroItem(f), tokens[k])]
     ELSE IF tokens # << >> THEN <<Gathered(f, tokens)>>
     ELSE IF HasDefault(f) /\ ~f.nillable
     THEN <<Decode(f.type, ZeroOf(f.type), DefaultText(f))>>
     ELSE ZeroField(f)

(* The literals of defaults are what their texts are decoded as: not of     *)
(* integers with leading zeros, which are octal in Go.                      *)
DefaultsAgree ==
  \A i \in DOMAIN fields : LET f == fields[i] IN
    AssignsDefault(f) => DefaultValue(f) = Decode(f.type, ZeroOf(f.type), DefaultText(f))

FieldValueOK(f, value) ==
  /\ \A i \in DOMAIN value :
       IF f.kind \in {"any", "anyAttribute"} THEN value[i].name \in {NoName} \cup Names
       ELSE value[i] \in Values \/ (f.nillable /\ value[i] = Nil)
  /\ IsSlice(f) \/ Len(value) = 1 \/ (IsPointer(f) /\ value = << >>)

(* A Go value of the type: the slices, pointers and plain fields hold what  *)
(* their types allow, whatever was read into them and wherever it stopped.  *)
CodecTypeOK ==
  /\ type \in Types /\ validating \in BOOLEAN /\ rereading \in BOOLEAN
  /\ documents \in 0 .. MaxDocuments + 1
  /\ phase \in {"idle", "reading", "done", "failed"}
  /\ IF HasContent
     THEN \A i \in DOMAIN target :
            \/ target[i].kind = "text" /\ shape = "mixed"
            \/ target[i].kind = "child" /\ Named("element", target[i].name) # {}
     ELSE \A i \in DOMAIN fields : FieldValueOK(fields[i], target[i])

(* A struct that is decoded into a zero value, or by a method that starts   *)
(* from one.                                                                *)
StartsAfresh == before = ZeroValue \/ shape \in {"tracked", "alias"}

(* A struct holds the document, DocumentValue for each of its fields -- and *)
(* zero only if the document says so or the field cannot say otherwise;     *)
(* unless a tag takes a name for another one, or Go's literal for a default *)
(* is not what the schema's text means.  (renderPresenceTrackingUnmarshal   *)
(* and the tags of renderStruct.)                                           *)
FieldsHoldTheDocument ==
  /\ CodecTypeOK
  /\ (phase = "done" /\ ~HasContent /\ StartsAfresh /\ NamesTold /\ DefaultsAgree) =>
       \A i \in DOMAIN fields : target[i] = DocumentValue(i)

(* Mixed and choice types keep the order of the document: Content is what it*)
(* was, followed by the texts and the known children that were read; where  *)
(* the choice may hold one, it is the last of them.  It holds after an error*)
(* too: what came before the error is kept.  (renderMixedContent and        *)
(* renderChoice.)                                                           *)
ContentInOrder ==
  (HasContent /\ phase # "idle") =>
    LET Known(tok) == IsText(tok) \/ (FieldFor(tok) # 0 /\ ~Fails(tok))
        kept == AtPlaces(read, {k \in DOMAIN read : Known(read[k])})
        all == before \o [i \in DOMAIN kept |-> EntryOf(kept[i])]
    IN target = IF shape = "mixed" \/ Repeated(fields[1]) THEN all
                ELSE IF all = << >> THEN << >> ELSE <<Last(all)>>

(* A document is accepted exactly if its contents are those of the types,   *)
(* no required scalar element or attribute is missing, and, where the       *)
(* generated code validates, the occurrences, wildcards, fixed values --    *)
(* as they are printed -- and the values themselves are as the fields say,  *)
(* and no optional one of a type that can be validated is missing, on which *)
(* the check panics.  Stated over the document.                             *)
Count(i) == Len(TokensOf(i))
Demanded(f) == \/ f.kind = "attribute" /\ f.required
               \/ f.kind = "element" /\ f.min > 0 /\ f.max = 1 /\ ~f.choice /\ ~f.nillable
Between(f, n) == n >= f.min /\ (f.max = Unbounded \/ n <= f.max)
KnownChildren == Len(AtPlaces(read, {k \in DOMAIN read : FieldNamed(read[k]) # 0}))

Readable(i) == \A k \in DOMAIN DocumentValue(i) : DocumentValue(i)[k] # Bad

StructAccepts(i) ==
  LET f == fields[i]
      value == DocumentValue(i)
  IN /\ Demanded(f) => Count(i) > 0
     /\ validating =>
          /\ IsSlice(f) /\ f.kind # "anyAttribute" => Between(f, Count(i))
          /\ f.kind \in {"any", "anyAttribute"} => \A k \in DOMAIN value :
               /\ WildcardNamespaceAllowed(f.namespaces, value[k].name.space)
               /\ f.process = "strict" => value[k].name \in DeclaredNames
          /\ f.kind \notin {"any", "anyAttribute"} /\ ~f.nillable =>
               /\ \A k \in DOMAIN value :
                    /\ value[k] \in ValidValues(f.type)
                    /\ f.fixed # << >> => Sprint(f.type, value[k]) = f.fixed
               /\ value # << >> \/ IsSlice(f) \/ ~HasValidate(f.type)
          /\ f.nillable /\ f.fixed # << >> => value = << >>

Acceptable ==
  /\ \A i \in DOMAIN fields : ~HasContent => Readable(i) /\ StructAccepts(i)
  /\ HasContent => \A k \in DOMAIN read : FieldNamed(read[k]) # 0 =>
       LET f == fields[FieldNamed(read[k])] IN Parsed(f, ZeroItem(f), read[k]) # Bad
  /\ shape = "choice" /\ validating =>
       IF Repeated(fields[1]) THEN Between(fields[1], KnownChildren)
       ELSE fields[1].min > 0 => KnownChildren > 0

AcceptedExactly ==
  (StartsAfresh /\ ~rereading /\ ~TagsConflict /\ NamesTold /\ DefaultsAgree) =>
    (phase = "done" => Acceptable) /\ (phase = "failed" => ~Acceptable)

(* What a field holds is read again from what is written of it alone: its   *)
(* name leads back to the field and its content to the value.  That is not  *)
(* so of binary values and lists in an attribute or text of a type that     *)
(* writes itself, which fmt.Sprint prints as Go shows slices; of a wildcard *)
(* without an element; or, in mixed content, in choices and wildcards, of   *)
(* elements without a namespace, which are written into the default one.    *)
ItemSurvives(i, v) ==
  LET f == fields[i]
      tok == Head(WriteItem(f, v))
  IN IF f.kind = "text" THEN Decode(f.type, ZeroOf(f.type), Encoded(f, v)) = v
     ELSE FieldFor(tok) = i /\ Parsed(f, ZeroItem(f), tok) = v

EntrySurvives(entry) ==
  IsText(entry) \/ LET f == fields[FieldFor(entry)] IN
    /\ FieldFor(ChildOf(entry)) = FieldFor(entry)
    /\ Parsed(f, ZeroItem(f), ChildOf(entry)) = entry.value

EachSurvives(value) ==
  IF HasContent THEN \A k \in DOMAIN value : EntrySurvives(value[k])
  ELSE \A i \in DOMAIN fields : \A k \in DOMAIN value[i] : ItemSurvives(i, value[i][k])

(* What was decoded survives, if each item of it survives on its own: the   *)
(* document MarshalXML writes for it is accepted, and decoding that into a  *)
(* fresh value gives the same value, up to texts of mixed content with      *)
(* nothing left between them.                                               *)
RoundTrip ==
  rereading /\ EachSurvives(original) =>
    /\ phase # "failed"
    /\ phase = "done" => IF HasContent THEN WriteContent(target) = WriteContent(original)
                         ELSE target = original
=============================================================================
