----------------------- MODULE DeclarationParser_proofs -----------------------
(***************************************************************************)
(* Whatever a document holds, the functions that read it return at the end *)
(* of their own elements, so that the scopes of prefixes are those of the  *)
(* elements around and a QName means what they say; a document that is      *)
(* broken gives no file; and the fields are what the closed elements say.   *)
(***************************************************************************)
EXTENDS DeclarationParser, IndexLemmas

-----------------------------------------------------------------------------
(* The tables *)

(* The fields and functions are names. *)
LEMMA ChildTyped ==
  ASSUME NEW rule, NEW name
  PROVE  LET c == ChildOf(rule, name)
         IN  /\ c.rule \in Rule /\ c.slot \in Slot /\ c.many \in BOOLEAN
             /\ c.rule # "parseSchema"
<1> DEFINE Good(c) == /\ c.rule \in Rule /\ c.slot \in Slot /\ c.many \in BOOLEAN
                      /\ c.rule # "parseSchema"
<1>0. Good(Skipped)
  BY DEF Rule, Slot, Skipped, Many
<1>1. Good(ContentChild(name)) /\ Good(AttributeChild(name)) /\ Good(AnnotationChild(name))
  BY DEF Rule, Slot, ContentChild, AttributeChild, AnnotationChild, Many, One, Leaf, Skipped, GroupKinds
<1>2. \A c, d : Good(c) /\ Good(d) => Good(Else(c, d))
  BY DEF Else
<1>3. Good(ComplexTypeChild(name))
  <2>1. Good(Else(AnnotationChild(name), Else(ContentChild(name), AttributeChild(name))))
    <3> HIDE DEF Good
    <3> QED  BY <1>1, <1>2
  <2> QED  BY <2>1 DEF Rule, Slot, ComplexTypeChild, One
<1>4. Good(ComplexContentChild(name)) /\ Good(SimpleContentChild(name))
  BY DEF Rule, Slot, ComplexContentChild, SimpleContentChild, Many, One, Skipped
<1>5. Good(ComplexDerivationChild(name))
  <2> HIDE DEF Good
  <2> QED  BY <1>1, <1>2 DEF ComplexDerivationChild
<1>6. Good(SimpleContentRestrictionChild(name))
  <2>1. Good(Leaf("facets"))
    BY DEF Rule, Slot, Leaf, Many
  <2>2. Good(Else(AttributeChild(name), Leaf("facets")))
    <3> HIDE DEF Good
    <3> QED  BY <2>1, <1>1, <1>2
  <2> QED  BY <2>2, <1>0 DEF Rule, Slot, SimpleContentRestrictionChild
<1>7. Good(ElementChild(name)) /\ Good(AttributeDeclarationChild(name)) /\ Good(SimpleTypeChild(name))
  <2>1. /\ Good(One("parseComplexType", "anonymousComplexType"))
        /\ Good(One("parseSimpleType", "anonymousSimpleType"))
        /\ Good(One("parseSimpleRestriction", "restriction"))
        /\ Good(One("parseSimpleList", "list"))
        /\ Good(One("parseSimpleUnion", "union"))
    BY DEF Rule, Slot, One
  <2> HIDE DEF Good
  <2> QED
    BY <1>1, <2>1 DEF ElementChild, AttributeDeclarationChild, SimpleTypeChild
<1>8. Good(ParticleGroupChild(name)) /\ Good(GroupChild(name))
  BY <1>1 DEF Rule, Slot, ParticleGroupChild, GroupChild, Many, One, Leaf, Skipped
<1>9. /\ Good(SimpleRestrictionChild(name)) /\ Good(SimpleListChild(name))
      /\ Good(SimpleUnionChild(name)) /\ Good(ParseAnnotationChild(name))
  BY DEF Rule, Slot, SimpleRestrictionChild, SimpleListChild, SimpleUnionChild, ParseAnnotationChild,
         Many, One, Leaf, Skipped
<1>10. Good(DeclarationChild(name))
  BY DEF Rule, Slot, DeclarationChild, Many, Skipped
<1>11. Good(SchemaChild(name))
  BY <1>10 DEF Rule, Slot, SchemaChild, Many, Leaf
<1> HIDE DEF Good
<1>12. Good(ChildOf(rule, name))
  BY <1>0, <1>1, <1>3, <1>4, <1>5, <1>6, <1>7, <1>8, <1>9, <1>10, <1>11 DEF ChildOf
<1> QED  BY <1>12 DEF Good

(* A child has a function, a field and a mode. *)
LEMMA HandledTyped ==
  ASSUME NEW rule, NEW token
  PROVE  LET c == Handled(rule, token)
         IN  /\ c.rule \in Rule /\ c.slot \in Slot /\ c.many \in BOOLEAN
             /\ c.rule # "parseSchema"
<1>1. CASE token.xsd
  BY <1>1, ChildTyped DEF Handled
<1>2. CASE ~ token.xsd
  BY <1>2 DEF Handled, Skipped, Many, Rule, Slot
<1> QED  BY <1>1, <1>2

(* Inside of what is skipped everything is. *)
LEMMA SkipSkips == ASSUME NEW token PROVE Handled("skip", token).rule = "skip"
  BY DEF Handled, ChildOf, Skipped, Many

-----------------------------------------------------------------------------
(* Namespaces *)

(* lookupNamespace finds a namespace. *)
LEMMA LookupTyped ==
  ASSUME NEW scopes \in Seq(Scopes), NEW prefix
  PROVE  LookupNamespace(scopes, prefix) \in Namespace
<1> DEFINE declaring == {i \in DOMAIN scopes : prefix \in DOMAIN scopes[i]}
           innermost == CHOOSE i \in declaring : \A j \in declaring : j <= i
<1>0. NoNamespace \in Namespace /\ declaring \subseteq 1..Len(scopes)
  BY NameAssumption
<1>1. LookupNamespace(scopes, prefix)
        = IF declaring = {} THEN NoNamespace ELSE scopes[innermost][prefix]
  BY DEF LookupNamespace
<1>2. CASE declaring # {}
  <2>1. \E i \in declaring : \A j \in declaring : j <= i
    <3>1. Len(scopes) \in Nat
      OBVIOUS
    <3> HIDE DEF declaring
    <3> QED  BY <1>0, <1>2, <3>1, LargestIndex
  <2>2. innermost \in declaring
    BY <2>1
  <2>3. innermost \in 1..Len(scopes) /\ prefix \in DOMAIN scopes[innermost]
    BY <2>2
  <2>4. scopes[innermost] \in Scopes
    BY <2>3
  <2>5. \A f \in Scopes : \A x \in DOMAIN f : f[x] \in Namespace
    BY DEF Scopes
  <2> HIDE DEF innermost
  <2>6. scopes[innermost][prefix] \in Namespace
    BY <2>3, <2>4, <2>5
  <2> QED  BY <1>1, <1>2, <2>6
<1>3. CASE declaring = {}
  BY <1>0, <1>1, <1>3
<1> QED  BY <1>2, <1>3

(* parseQName finds a namespace. *)
LEMMA ParseQNameTyped ==
  ASSUME NEW scopes \in Seq(Scopes), NEW ref, NEW targetNS \in Namespace
  PROVE  ParseQName(scopes, ref, targetNS) \in Namespace
  BY LookupTyped DEF ParseQName

(* If the scopes are those of the elements around, the innermost that        *)
(* declares a prefix is that of the innermost element that does.              *)
LEMMA LookupIsInScope ==
  ASSUME NEW at, NEW prefix, NEW scopes \in Seq(Scopes),
         doc.open[at] \in Seq(Nat \ {0}),
         Len(scopes) = Len(doc.open[at]) + 1,
         scopes[1] = XMLScope,
         \A i \in 1..Len(doc.open[at]) : scopes[i + 1] = doc.tokens[doc.open[at][i]].decls
  PROVE  LookupNamespace(scopes, prefix) = InScope(at, prefix)
<1> DEFINE Declares(i) == prefix \in DOMAIN doc.tokens[doc.open[at][i]].decls
           declaring == {i \in DOMAIN scopes : prefix \in DOMAIN scopes[i]}
           around == {i \in DOMAIN doc.open[at] : Declares(i)}
           innermost == CHOOSE i \in declaring : \A j \in declaring : j <= i
           nearest == CHOOSE i \in around : \A j \in around : j <= i
<1> PICK n \in Nat : n = Len(doc.open[at])
  OBVIOUS
<1>0. DOMAIN scopes = 1..(n + 1) /\ DOMAIN doc.open[at] = 1..n
  OBVIOUS
<1>1. LookupNamespace(scopes, prefix)
        = IF declaring = {} THEN NoNamespace ELSE scopes[innermost][prefix]
  BY DEF LookupNamespace
<1>2. InScope(at, prefix)
        = IF around = {} THEN NoNamespace
          ELSE doc.tokens[doc.open[at][nearest]].decls[prefix]
  BY DEF InScope
<1>3. prefix \notin DOMAIN scopes[1]
  BY DEF XMLScope
<1>4. \A i \in 1..n : i \in around <=> i + 1 \in declaring
  <2> TAKE i \in 1..n
  <2>1. i + 1 \in DOMAIN scopes /\ i \in DOMAIN doc.open[at]
    BY <1>0
  <2>2. scopes[i + 1] = doc.tokens[doc.open[at][i]].decls
    OBVIOUS
  <2> QED  BY <2>1, <2>2
<1>5. around \subseteq 1..n
  BY <1>0
<1>6. declaring \subseteq 2..(n + 1)
  BY <1>0, <1>3
<1> HIDE DEF around, declaring
<1>7. \A j \in declaring : j - 1 \in around /\ j \in 2..(n + 1)
  <2> TAKE j \in declaring
  <2>1. j \in 2..(n + 1)
    BY <1>6
  <2>2. j - 1 \in 1..n /\ (j - 1) + 1 = j
    BY <2>1
  <2> QED  BY <2>1, <2>2, <1>4
<1>8. CASE around = {}
  <2>1. declaring = {}
    BY <1>7, <1>8
  <2> QED  BY <1>1, <1>2, <1>8, <2>1
<1>9. CASE around # {}
  <2>1. \E i \in around : \A j \in around : j <= i
    BY <1>9, <1>5, LargestIndex
  <2>2. nearest \in around /\ \A j \in around : j <= nearest
    BY <2>1
  <2> HIDE DEF nearest
  <2>3. nearest \in 1..n /\ nearest + 1 \in declaring
    BY <2>2, <1>4, <1>5
  <2>4. \A j \in declaring : j <= nearest + 1
    <3> TAKE j \in declaring
    <3>1. j - 1 <= nearest /\ j \in 2..(n + 1)
      BY <1>7, <2>2
    <3> QED  BY <3>1, <2>3
  <2>5. innermost \in declaring /\ \A j \in declaring : j <= innermost
    BY <2>3, <2>4
  <2> HIDE DEF innermost
  <2>6. innermost = nearest + 1
    <3>1. innermost <= nearest + 1 /\ nearest + 1 <= innermost /\ innermost \in 2..(n + 1)
      BY <2>3, <2>4, <2>5, <1>7
    <3> QED  BY <3>1, <2>3
  <2>7. scopes[nearest + 1] = doc.tokens[doc.open[at][nearest]].decls
    BY <2>3
  <2>8. declaring # {}
    BY <2>3
  <2> QED  BY <1>1, <1>2, <1>9, <2>6, <2>7, <2>8
<1> QED  BY <1>8, <1>9

-----------------------------------------------------------------------------
(* Documents *)

Tokens == StartTokens \cup EndTokens \cup OtherTokens

(* What the decoder promises of the next token. *)
LEMMA NextToken ==
  ASSUME doc \in Docs, pos \in Nat, pos < Len(doc.tokens)
  PROVE  /\ doc.tokens \in Seq(Tokens)
         /\ Len(doc.tokens) \in Nat
         /\ pos + 1 \in 1..Len(doc.tokens)
         /\ doc.open[pos] \in Seq(Nat \ {0})
         /\ doc.open[pos + 1] \in Seq(Nat \ {0})
         /\ Token \in Tokens
         /\ Token.kind = "start" => doc.open[pos + 1] = Append(doc.open[pos], pos + 1)
         /\ Token.kind = "end" =>
              /\ Len(doc.open[pos]) > 0
              /\ doc.open[pos + 1] = SubSeq(doc.open[pos], 1, Len(doc.open[pos]) - 1)
         /\ Token.kind \in {"text", "blank", "error"} => doc.open[pos + 1] = doc.open[pos]
<1>1. WellFormed(doc)
  BY DocAssumption
<1>2. doc.tokens \in Seq(Tokens) /\ doc.open \in [0..Len(doc.tokens) -> Seq(Nat \ {0})]
  BY <1>1 DEF WellFormed, Tokens
<1>3. Len(doc.tokens) \in Nat /\ pos + 1 \in 1..Len(doc.tokens) /\ pos \in 0..Len(doc.tokens)
  BY <1>2
<1>4. Token \in Tokens
  BY <1>2, <1>3 DEF Token
<1>5. (pos + 1) - 1 = pos
  OBVIOUS
<1>6. LET before == doc.open[pos]
      IN  CASE Token.kind = "start" -> doc.open[pos + 1] = Append(before, pos + 1)
            [] Token.kind = "end" ->
                 /\ Len(before) > 0
                 /\ doc.open[pos + 1] = SubSeq(before, 1, Len(before) - 1)
                 /\ before[Len(before)] < pos + 1
                 /\ LET start == doc.tokens[before[Len(before)]]
                    IN  start.kind = "start" /\ start.xsd = Token.xsd /\ start.name = Token.name
            [] OTHER -> doc.open[pos + 1] = before
  BY <1>1, <1>3, <1>5 DEF WellFormed, Token
<1>7. Token.kind = "start" => doc.open[pos + 1] = Append(doc.open[pos], pos + 1)
  BY <1>6
<1>8. Token.kind = "end" => /\ Len(doc.open[pos]) > 0
                            /\ doc.open[pos + 1] = SubSeq(doc.open[pos], 1, Len(doc.open[pos]) - 1)
  BY <1>6
<1>9. Token.kind \in {"text", "blank", "error"} => doc.open[pos + 1] = doc.open[pos]
  BY <1>6
<1>10. doc.open[pos] \in Seq(Nat \ {0}) /\ doc.open[pos + 1] \in Seq(Nat \ {0})
  <2>1. pos + 1 \in 0..Len(doc.tokens)
    BY <1>3
  <2> QED  BY <1>2, <1>3, <2>1
<1> QED  BY <1>2, <1>3, <1>4, <1>7, <1>8, <1>9, <1>10

(* A start tag has scopes, a target namespace and a QName. *)
LEMMA StartTyped ==
  ASSUME NEW t \in Tokens, t.kind = "start"
  PROVE  t.decls \in Scopes /\ t.target \in Namespace /\ t.xsd \in BOOLEAN
  BY DEF Tokens, StartTokens, EndTokens, OtherTokens

-----------------------------------------------------------------------------
(* The inductive invariant *)

(* The scope at the bottom is that of the parser; a frame stands at a start *)
(* tag that has been read.                                                   *)
FramesAtStarts ==
  /\ nsStack[1] = XMLScope
  /\ \A k \in 1..Len(stack) :
       stack[k].at \in 1..pos /\ doc.tokens[stack[k].at].kind = "start"

(* parseSchema is called by Parse alone; before it is, nothing is resolved. *)
SchemaAtRoot ==
  /\ \A k \in 2..Len(stack) : stack[k].rule # "parseSchema"
  /\ status = "reading" /\ (Len(stack) > 0 => stack[1].rule # "parseSchema") =>
       /\ \A k \in 1..Len(stack) : stack[k].rule = "skip"
       /\ \A i \in DOMAIN resolved : resolved[i] = Unresolved

(* Nothing broken has been read unless Parse has failed. *)
ReadUnbroken ==
  /\ status # "failed" => \A n \in 1..pos : doc.tokens[n].kind # "error"
  /\ status = "parsed" => stack = << >>

PInv ==
  /\ doc \in Docs
  /\ ParserTypeOK
  /\ FramesAreOpenElements
  /\ FramesAtStarts
  /\ SchemaAtRoot
  /\ ReadUnbroken
  /\ ReferencesMeanWhatTheySay
  /\ BrokenDocumentsFail

(* Parse begins with no frame and its own scope. *)
LEMMA PInvInit == ASSUME Init PROVE PInv
<1>1. doc \in Docs /\ WellFormed(doc)
  BY DocAssumption DEF Init
<1>2. Len(doc.tokens) \in Nat /\ doc.open[0] = << >>
  BY <1>1 DEF WellFormed
<1>3. XMLScope \in Scopes
  <2>1. XMLScope \in [{} -> Namespace]
    BY DEF XMLScope
  <2> QED  BY <2>1 DEF Scopes
<1>4. ParserTypeOK
  <2>1. pos \in 0..Len(doc.tokens) /\ stack \in Seq(Frame) /\ nsStack \in Seq(Scopes)
    BY <1>2, <1>3 DEF Init
  <2>2. target \in Namespace /\ text \in BOOLEAN /\ status \in {"reading", "parsed", "failed"}
    BY NameAssumption DEF Init
  <2>3. resolved \in [1..Len(doc.tokens) -> Namespace \cup {Unresolved}]
    BY DEF Init
  <2>4. DOMAIN fields \subseteq (Nat \ {0}) \X Slot /\ fields \in [DOMAIN fields -> Seq(Nat \ {0})]
    BY DEF Init, NoFields
  <2> QED  BY <2>1, <2>2, <2>3, <2>4 DEF ParserTypeOK
<1>5. FramesAreOpenElements
  BY <1>2 DEF Init, FramesAreOpenElements
<1>6. FramesAtStarts /\ SchemaAtRoot /\ ReadUnbroken
  BY DEF Init, FramesAtStarts, SchemaAtRoot, ReadUnbroken
<1>7. ReferencesMeanWhatTheySay
  BY DEF Init, ReferencesMeanWhatTheySay
<1>8. BrokenDocumentsFail
  BY DEF Init, BrokenDocumentsFail
<1> QED  BY <1>1, <1>4, <1>5, <1>6, <1>7, <1>8 DEF PInv

(* FramesAreOpenElements by index, and what is open. *)
LEMMA FramesNow ==
  ASSUME PInv, status # "failed"
  PROVE  /\ Len(stack) \in Nat /\ Len(stack) = Len(doc.open[pos])
         /\ Len(nsStack) = Len(stack) + 1
         /\ \A i \in 1..Len(stack) : stack[i].at = doc.open[pos][i]
         /\ \A i \in 1..Len(stack) : nsStack[i + 1] = doc.tokens[stack[i].at].decls
<1>1. stack \in Seq(Frame)
  BY DEF PInv, ParserTypeOK
<1>2. DOMAIN stack = 1..Len(stack) /\ Len(stack) \in Nat
  BY <1>1
<1>3. /\ Len(stack) = Len(doc.open[pos])
      /\ \A i \in DOMAIN stack : stack[i].at = doc.open[pos][i]
  BY DEF PInv, FramesAreOpenElements
<1>4. /\ Len(nsStack) = Len(stack) + 1
      /\ \A i \in DOMAIN stack : nsStack[i + 1] = doc.tokens[stack[i].at].decls
  BY DEF PInv, FramesAreOpenElements
<1> QED  BY <1>2, <1>3, <1>4

-----------------------------------------------------------------------------
(* A function is entered *)

(* Its frame is that of the element it is entered at, its scope the          *)
(* element's.                                                                *)
LEMMA EnterFrames ==
  ASSUME PInv, Reads("start"), NEW c, c.rule \in Rule, c.slot \in Slot, c.many \in BOOLEAN,
         Enter(c), doc' = doc, status' = status
  PROVE  /\ stack' \in Seq(Frame)
         /\ nsStack' \in Seq(Scopes)
         /\ pos' \in 0..Len(doc.tokens)
         /\ resolved' \in [1..Len(doc.tokens) -> Namespace \cup {Unresolved}]
         /\ FramesAreOpenElements'
         /\ FramesAtStarts'
<1> DEFINE frame == [rule |-> c.rule, slot |-> c.slot, many |-> c.many, at |-> pos + 1]
<1>0. doc \in Docs /\ pos \in Nat /\ pos < Len(doc.tokens) /\ Token.kind = "start"
      /\ pos' = pos + 1 /\ status = "reading"
  BY DEF PInv, ParserTypeOK, Reads
<1>1. /\ doc.tokens \in Seq(Tokens) /\ Len(doc.tokens) \in Nat /\ pos + 1 \in 1..Len(doc.tokens)
      /\ Token \in Tokens
      /\ doc.open[pos] \in Seq(Nat \ {0})
      /\ doc.open[pos + 1] = Append(doc.open[pos], pos + 1)
  BY <1>0, NextToken
<1>2. Token.decls \in Scopes /\ Token.target \in Namespace
  BY <1>0, <1>1, StartTyped
<1>3. stack \in Seq(Frame) /\ nsStack \in Seq(Scopes) /\ target \in Namespace
      /\ resolved \in [1..Len(doc.tokens) -> Namespace \cup {Unresolved}]
  BY DEF PInv, ParserTypeOK
<1>4. stack' = Append(stack, frame) /\ nsStack' = Append(nsStack, Token.decls)
  BY DEF Enter
<1>5. frame \in Frame /\ frame.at = pos + 1
  BY <1>0 DEF Frame
<1> HIDE DEF frame
<1>6. stack' \in Seq(Frame) /\ Len(stack') = Len(stack) + 1
      /\ (\A k \in 1..Len(stack) : stack'[k] = stack[k]) /\ stack'[Len(stack) + 1] = frame
  BY <1>3, <1>4, <1>5
<1>7. nsStack' \in Seq(Scopes) /\ Len(nsStack') = Len(nsStack) + 1
      /\ (\A k \in 1..Len(nsStack) : nsStack'[k] = nsStack[k])
      /\ nsStack'[Len(nsStack) + 1] = Token.decls
  BY <1>2, <1>3, <1>4
<1>8. pos' \in 0..Len(doc.tokens)
  BY <1>0, <1>1
<1>9. resolved' \in [1..Len(doc.tokens) -> Namespace \cup {Unresolved}]
  <2>1. ParseQName(nsStack', Token.ref, target) \in Namespace
    BY <1>3, <1>7, ParseQNameTyped
  <2> QED  BY <2>1, <1>1, <1>3 DEF Enter
<1>10. /\ Len(stack) \in Nat /\ Len(stack) = Len(doc.open[pos])
       /\ Len(nsStack) = Len(stack) + 1
       /\ \A i \in 1..Len(stack) : stack[i].at = doc.open[pos][i]
       /\ \A i \in 1..Len(stack) : nsStack[i + 1] = doc.tokens[stack[i].at].decls
  BY <1>0, FramesNow
<1>11. /\ Len(doc.open[pos + 1]) = Len(stack) + 1
       /\ \A i \in 1..Len(stack) : doc.open[pos + 1][i] = doc.open[pos][i]
       /\ doc.open[pos + 1][Len(stack) + 1] = pos + 1
  BY <1>0, <1>1, <1>10
<1>12. FramesAreOpenElements'
  <2>1. \A i \in 1..(Len(stack) + 1) : stack'[i].at = doc.open[pos + 1][i]
    <3> TAKE i \in 1..(Len(stack) + 1)
    <3>1. CASE i \in 1..Len(stack)
      BY <3>1, <1>6, <1>10, <1>11
    <3>2. CASE i = Len(stack) + 1
      BY <3>2, <1>5, <1>6, <1>11
    <3> QED  BY <3>1, <3>2, <1>10
  <2>2. \A i \in 1..(Len(stack) + 1) : nsStack'[i + 1] = doc.tokens[stack'[i].at].decls
    <3> TAKE i \in 1..(Len(stack) + 1)
    <3>1. CASE i \in 1..Len(stack)
      <4>1. i + 1 \in 1..Len(nsStack)
        BY <3>1, <1>10
      <4> QED  BY <3>1, <4>1, <1>6, <1>7, <1>10
    <3>2. CASE i = Len(stack) + 1
      <4>1. nsStack'[i + 1] = Token.decls /\ stack'[i].at = pos + 1
        BY <3>2, <1>5, <1>6, <1>7, <1>10
      <4> QED  BY <4>1 DEF Token
    <3> QED  BY <3>1, <3>2, <1>10
  <2>3. DOMAIN stack' = 1..(Len(stack) + 1)
    BY <1>6
  <2>4. Len(nsStack') = Len(stack') + 1 /\ Len(stack') = Len(doc.open[pos + 1])
    BY <1>6, <1>7, <1>10, <1>11
  <2> QED  BY <1>0, <2>1, <2>2, <2>3, <2>4 DEF FramesAreOpenElements
<1>13. FramesAtStarts'
  <2>1. nsStack'[1] = XMLScope
    BY <1>7, <1>10 DEF PInv, FramesAtStarts
  <2>2. ASSUME NEW k \in 1..(Len(stack) + 1)
        PROVE  stack'[k].at \in 1..(pos + 1) /\ doc.tokens[stack'[k].at].kind = "start"
    <3>1. CASE k \in 1..Len(stack)
      BY <3>1, <1>0, <1>6 DEF PInv, FramesAtStarts
    <3>2. CASE k = Len(stack) + 1
      BY <3>2, <1>0, <1>5, <1>6 DEF Token
    <3> QED  BY <3>1, <3>2, <1>10
  <2> QED  BY <2>1, <2>2, <1>0, <1>6 DEF FramesAtStarts
<1> QED  BY <1>6, <1>7, <1>8, <1>9, <1>12, <1>13

(* The QName of an element is resolved when its function is entered, in the  *)
(* scopes of the elements around it and its own.                              *)
LEMMA EnterResolves ==
  ASSUME PInv, Reads("start"), NEW c, c.rule \in Rule, c.slot \in Slot, c.many \in BOOLEAN,
         Enter(c), doc' = doc, status' = status,
         target' = target \/ \A i \in DOMAIN resolved : resolved[i] = Unresolved,
         target' # target => c.rule \notin Resolving
  PROVE  ReferencesMeanWhatTheySay'
<1>0. doc \in Docs /\ pos \in Nat /\ pos < Len(doc.tokens) /\ Token.kind = "start"
      /\ pos' = pos + 1 /\ status = "reading" /\ target \in Namespace
      /\ stack \in Seq(Frame)
      /\ resolved \in [1..Len(doc.tokens) -> Namespace \cup {Unresolved}]
      /\ ReferencesMeanWhatTheySay
  BY DEF PInv, ParserTypeOK, Reads
<1>1. /\ pos + 1 \in 1..Len(doc.tokens) /\ doc.open[pos] \in Seq(Nat \ {0})
      /\ doc.open[pos + 1] \in Seq(Nat \ {0}) /\ doc.open[pos + 1] = Append(doc.open[pos], pos + 1)
  BY <1>0, NextToken
<1>2. stack' \in Seq(Frame) /\ nsStack' \in Seq(Scopes) /\ FramesAreOpenElements' /\ FramesAtStarts'
  BY EnterFrames
<1>3. /\ Len(stack') \in Nat /\ DOMAIN stack' = 1..Len(stack')
      /\ Len(stack') = Len(doc.open[pos + 1])
      /\ \A i \in 1..Len(stack') : stack'[i].at = doc.open[pos + 1][i]
  <2>1. Len(stack') \in Nat /\ DOMAIN stack' = 1..Len(stack')
    BY <1>2
  <2>2. status' # "failed"
    BY <1>0
  <2>3. /\ Len(stack') = Len(doc.open[pos + 1])
        /\ \A i \in DOMAIN stack' : stack'[i].at = doc.open[pos + 1][i]
    BY <1>0, <1>2, <2>2 DEF FramesAreOpenElements
  <2> QED  BY <2>1, <2>3
<1>4. /\ Len(nsStack') = Len(stack') + 1
      /\ \A i \in 1..Len(stack') : nsStack'[i + 1] = doc.tokens[stack'[i].at].decls
  BY <1>2, <1>3 DEF FramesAreOpenElements
<1>5. LookupNamespace(nsStack', Token.ref.prefix) = InScope(pos + 1, Token.ref.prefix)
  <2>1. nsStack'[1] = XMLScope
    BY <1>2 DEF FramesAtStarts
  <2>2. Len(nsStack') = Len(doc.open[pos + 1]) + 1
    BY <1>3, <1>4
  <2>3. \A i \in 1..Len(doc.open[pos + 1]) : nsStack'[i + 1] = doc.tokens[doc.open[pos + 1][i]].decls
    BY <1>3, <1>4
  <2> QED  BY <1>1, <1>2, <2>1, <2>2, <2>3, LookupIsInScope
<1>6. ParseQName(nsStack', Token.ref, target) = MeantNamespace(pos + 1)
  BY <1>5 DEF ParseQName, MeantNamespace, Token
<1>7. ParseQName(nsStack', Token.ref, target) # Unresolved
  BY <1>0, <1>2, ParseQNameTyped, NameAssumption
<1>8. /\ DOMAIN resolved' = DOMAIN resolved
      /\ \A i \in DOMAIN resolved : i # pos + 1 => resolved'[i] = resolved[i]
      /\ IF c.rule \in Resolving /\ Token.ref # NoName
         THEN resolved'[pos + 1] = ParseQName(nsStack', Token.ref, target)
         ELSE resolved' = resolved
  BY <1>0, <1>1 DEF Enter
<1>9. \A i : target' = target => MeantNamespace(i)' = MeantNamespace(i)
  BY DEF MeantNamespace, InScope
<1>10. ASSUME NEW i \in DOMAIN resolved', resolved'[i] # Unresolved
       PROVE  resolved'[i] = MeantNamespace(i)'
  <2>1. CASE resolved'[i] = resolved[i]
    <3>1. i \in DOMAIN resolved /\ resolved[i] # Unresolved
      BY <1>8, <1>10, <2>1
    <3>2. target' = target
      BY <3>1
    <3> QED  BY <1>0, <1>9, <2>1, <3>1, <3>2 DEF ReferencesMeanWhatTheySay
  <2>2. CASE resolved'[i] # resolved[i]
    <3>1. i = pos + 1 /\ c.rule \in Resolving /\ resolved'[i] = ParseQName(nsStack', Token.ref, target)
      BY <1>8, <2>2
    <3> QED  BY <1>6, <1>9, <3>1
  <2> QED  BY <2>1, <2>2
<1>11. ASSUME NEW k \in DOMAIN stack', stack'[k].rule \in Resolving,
              doc.tokens[stack'[k].at].ref # NoName
       PROVE  resolved'[stack'[k].at] # Unresolved
  <2>1. Len(stack) \in Nat /\ Len(stack') = Len(stack) + 1 /\ DOMAIN stack = 1..Len(stack)
        /\ (\A j \in 1..Len(stack) : stack'[j] = stack[j])
        /\ stack'[Len(stack) + 1].rule = c.rule /\ stack'[Len(stack) + 1].at = pos + 1
    BY <1>0 DEF Enter
  <2>2. CASE k \in 1..Len(stack)
    <3>1. stack[k].at \in 1..pos
      BY <2>2 DEF PInv, FramesAtStarts
    <3>2. resolved[stack[k].at] # Unresolved
      BY <1>0, <1>11, <2>1, <2>2 DEF ReferencesMeanWhatTheySay
    <3>3. stack[k].at \in DOMAIN resolved /\ stack[k].at # pos + 1
      BY <1>0, <1>1, <3>1
    <3> QED  BY <1>8, <2>1, <2>2, <3>2, <3>3
  <2>3. CASE k = Len(stack) + 1
    <3>1. c.rule \in Resolving /\ Token.ref # NoName
      BY <1>11, <2>1, <2>3 DEF Token
    <3> QED  BY <1>7, <1>8, <2>1, <2>3, <3>1
  <2> QED  BY <1>3, <2>1, <2>2, <2>3
<1> QED  BY <1>0, <1>10, <1>11 DEF ReferencesMeanWhatTheySay

-----------------------------------------------------------------------------
(* Each step preserves the invariant *)

(* Parse enters parseSchema, or skips; nothing has been resolved before. *)
LEMMA ReadRootKeeps == ASSUME PInv, ReadRoot PROVE PInv'
<1> DEFINE isSchema == Token.xsd /\ Token.name = "schema"
           c == Many(IF isSchema THEN "parseSchema" ELSE "skip", "none")
<1>0. /\ Reads("start") /\ stack = << >> /\ Enter(c) /\ doc' = doc /\ status' = status
      /\ fields' = fields /\ text' = text /\ pos' = pos + 1 /\ status = "reading"
      /\ target' = IF isSchema THEN Token.target ELSE target
  BY DEF ReadRoot, Reads
<1>1. c.rule \in {"parseSchema", "skip"} /\ c.rule \in Rule /\ c.slot \in Slot /\ c.many \in BOOLEAN
  BY DEF Many, Rule, Slot
<1>2. c.rule \notin Resolving
  BY <1>1 DEF Resolving
<1>3. \A i \in DOMAIN resolved : resolved[i] = Unresolved
  <2>1. Len(stack) = 0
    BY <1>0
  <2> QED  BY <1>0, <2>1 DEF PInv, SchemaAtRoot
<1> HIDE DEF c
<1>4. stack' \in Seq(Frame) /\ nsStack' \in Seq(Scopes) /\ pos' \in 0..Len(doc.tokens)
      /\ resolved' \in [1..Len(doc.tokens) -> Namespace \cup {Unresolved}]
      /\ FramesAreOpenElements' /\ FramesAtStarts'
  BY <1>0, <1>1, EnterFrames
<1>5. ReferencesMeanWhatTheySay'
  BY <1>0, <1>1, <1>2, <1>3, EnterResolves
<1>6. doc \in Docs /\ pos \in Nat /\ pos < Len(doc.tokens) /\ Token.kind = "start"
  BY <1>0 DEF PInv, ParserTypeOK, Reads
<1>7. target' \in Namespace
  <2>1. Token \in Tokens
    BY <1>6, NextToken
  <2>2. Token.target \in Namespace
    BY <1>6, <2>1, StartTyped
  <2> QED  BY <1>0, <2>2 DEF PInv, ParserTypeOK
<1>8. ParserTypeOK'
  BY <1>0, <1>4, <1>7 DEF PInv, ParserTypeOK
<1>9. Len(stack') = 1 /\ stack'[1].rule = c.rule
  BY <1>0 DEF Enter
<1>10. resolved' = resolved
  BY <1>2, <1>0 DEF Enter
<1>11. SchemaAtRoot'
  BY <1>0, <1>1, <1>3, <1>9, <1>10 DEF SchemaAtRoot
<1>12. ReadUnbroken' /\ BrokenDocumentsFail'
  <2>1. \A n \in 1..(pos + 1) : doc.tokens[n].kind # "error"
    <3> TAKE n \in 1..(pos + 1)
    <3>1. n \in 1..pos \/ n = pos + 1
      BY <1>6
    <3> QED  BY <1>0, <1>6, <3>1 DEF PInv, ReadUnbroken, Token
  <2> QED  BY <1>0, <2>1 DEF ReadUnbroken, BrokenDocumentsFail
<1> QED  BY <1>0, <1>4, <1>5, <1>6, <1>8, <1>11, <1>12 DEF PInv

(* A child is entered; inside of what is skipped it is skipped. *)
LEMMA ReadStartKeeps == ASSUME PInv, ReadStart PROVE PInv'
<1> DEFINE c == Handled(Top.rule, Token)
<1>0. /\ Reads("start") /\ stack # << >> /\ Enter(c) /\ doc' = doc /\ status' = status
      /\ fields' = fields /\ target' = target /\ pos' = pos + 1 /\ status = "reading"
      /\ text' \in BOOLEAN
  <2>1. text \in BOOLEAN
    BY DEF PInv, ParserTypeOK
  <2> QED  BY <2>1 DEF ReadStart, Reads
<1>1. c.rule \in Rule /\ c.slot \in Slot /\ c.many \in BOOLEAN /\ c.rule # "parseSchema"
  BY HandledTyped
<1>2. Top.rule = "skip" => c.rule = "skip"
  BY SkipSkips
<1> HIDE DEF c
<1>3. stack' \in Seq(Frame) /\ nsStack' \in Seq(Scopes) /\ pos' \in 0..Len(doc.tokens)
      /\ resolved' \in [1..Len(doc.tokens) -> Namespace \cup {Unresolved}]
      /\ FramesAreOpenElements' /\ FramesAtStarts'
  BY <1>0, <1>1, EnterFrames
<1>4. ReferencesMeanWhatTheySay'
  BY <1>0, <1>1, EnterResolves
<1>5. doc \in Docs /\ pos \in Nat /\ pos < Len(doc.tokens) /\ Token.kind = "start"
  BY <1>0 DEF PInv, ParserTypeOK, Reads
<1>6. ParserTypeOK'
  BY <1>0, <1>3 DEF PInv, ParserTypeOK
<1>7. SchemaAtRoot'
  <2>1. stack \in Seq(Frame)
    BY DEF PInv, ParserTypeOK
  <2>2. Len(stack) \in Nat /\ Len(stack) > 0 /\ Len(stack') = Len(stack) + 1
        /\ (\A k \in 1..Len(stack) : stack'[k] = stack[k]) /\ stack'[Len(stack) + 1].rule = c.rule
    BY <1>0, <2>1 DEF Enter
  <2>3. \A k \in 2..Len(stack') : stack'[k].rule # "parseSchema"
    <3> TAKE k \in 2..Len(stack')
    <3>1. k \in 2..Len(stack) \/ k = Len(stack) + 1
      BY <2>2
    <3>2. k \in 2..Len(stack) => k \in 1..Len(stack)
      BY <2>2
    <3> QED  BY <1>1, <2>2, <3>1, <3>2 DEF PInv, SchemaAtRoot
  <2>4. ASSUME stack'[1].rule # "parseSchema"
        PROVE  /\ \A k \in 1..Len(stack') : stack'[k].rule = "skip"
               /\ \A i \in DOMAIN resolved' : resolved'[i] = Unresolved
    <3>1. stack[1].rule # "parseSchema"
      <4>1. 1 \in 1..Len(stack)
        BY <2>2
      <4> QED  BY <2>2, <2>4, <4>1
    <3>2. /\ \A k \in 1..Len(stack) : stack[k].rule = "skip"
          /\ \A i \in DOMAIN resolved : resolved[i] = Unresolved
      BY <1>0, <3>1 DEF PInv, SchemaAtRoot
    <3>3. c.rule = "skip"
      BY <1>2, <2>2, <3>2 DEF Top
    <3>4. resolved' = resolved
      BY <1>0, <3>3 DEF Enter, Resolving
    <3>5. \A k \in 1..Len(stack') : k \in 1..Len(stack) \/ k = Len(stack) + 1
      BY <2>2
    <3> QED  BY <2>2, <3>2, <3>3, <3>4, <3>5
  <2>5. Len(stack') > 0
    BY <2>2
  <2> QED  BY <2>3, <2>4, <2>5 DEF SchemaAtRoot
<1>8. ReadUnbroken' /\ BrokenDocumentsFail'
  <2>1. \A n \in 1..(pos + 1) : doc.tokens[n].kind # "error"
    <3> TAKE n \in 1..(pos + 1)
    <3>1. n \in 1..pos \/ n = pos + 1
      BY <1>5
    <3> QED  BY <1>0, <1>5, <3>1 DEF PInv, ReadUnbroken, Token
  <2> QED  BY <1>0, <2>1 DEF ReadUnbroken, BrokenDocumentsFail
<1> QED  BY <1>0, <1>3, <1>4, <1>5, <1>6, <1>7, <1>8 DEF PInv

(* What a QName means is said by the document. *)
LEMMA MeaningStays ==
  ASSUME doc' = doc, target' = target
  PROVE  \A i : MeantNamespace(i)' = MeantNamespace(i)
  BY DEF MeantNamespace, InScope

(* Text changes no frame. *)
LEMMA ReadOtherKeeps == ASSUME PInv, ReadText \/ ReadBlank PROVE PInv'
<1>0. /\ status = "reading" /\ pos < Len(doc.tokens) /\ Token.kind \in {"text", "blank"}
      /\ pos' = pos + 1 /\ text' \in BOOLEAN
      /\ doc' = doc /\ stack' = stack /\ nsStack' = nsStack /\ target' = target
      /\ resolved' = resolved /\ fields' = fields /\ status' = status
  BY DEF PInv, ParserTypeOK, ReadText, ReadBlank, Reads
<1>1. doc \in Docs /\ pos \in Nat
  BY DEF PInv, ParserTypeOK
<1>2. /\ pos + 1 \in 1..Len(doc.tokens) /\ Len(doc.tokens) \in Nat
      /\ doc.open[pos + 1] = doc.open[pos]
  BY <1>0, <1>1, NextToken
<1>3. ParserTypeOK'
  BY <1>0, <1>2 DEF PInv, ParserTypeOK
<1>4. FramesAreOpenElements' /\ SchemaAtRoot'
  BY <1>0, <1>2 DEF PInv, FramesAreOpenElements, SchemaAtRoot
<1>5. FramesAtStarts'
  <2>1. \A k \in 1..Len(stack) :
          stack[k].at \in 1..(pos + 1) /\ doc.tokens[stack[k].at].kind = "start"
    BY <1>1 DEF PInv, FramesAtStarts
  <2> QED  BY <1>0, <2>1 DEF PInv, FramesAtStarts
<1>6. ReferencesMeanWhatTheySay'
  <2>1. \A i : MeantNamespace(i)' = MeantNamespace(i)
    BY <1>0, MeaningStays
  <2> QED  BY <1>0, <2>1 DEF PInv, ReferencesMeanWhatTheySay
<1>7. ReadUnbroken' /\ BrokenDocumentsFail'
  <2>1. \A n \in 1..(pos + 1) : doc.tokens[n].kind # "error"
    <3> TAKE n \in 1..(pos + 1)
    <3>1. n \in 1..pos \/ n = pos + 1
      BY <1>1
    <3> QED  BY <1>0, <3>1 DEF PInv, ReadUnbroken, Token
  <2> QED  BY <1>0, <2>1 DEF ReadUnbroken, BrokenDocumentsFail
<1> QED  BY <1>0, <1>1, <1>3, <1>4, <1>5, <1>6, <1>7 DEF PInv

FieldsTyped(f) == DOMAIN f \subseteq (Nat \ {0}) \X Slot /\ f \in [DOMAIN f -> Seq(Nat \ {0})]

(* A field holds declarations. *)
LEMMA FieldTyped ==
  ASSUME FieldsTyped(fields), NEW of, NEW slot
  PROVE  Field(of, slot) \in Seq(Nat \ {0})
  BY DEF FieldsTyped, Field

(* One more field, or another value of one. *)
LEMMA WithFieldTyped ==
  ASSUME FieldsTyped(fields), NEW of \in Nat \ {0}, NEW slot \in Slot, NEW value \in Seq(Nat \ {0})
  PROVE  FieldsTyped(WithField(of, slot, value))
<1> DEFINE key == <<of, slot>>
           g == WithField(of, slot, value)
<1>1. g = [k \in DOMAIN fields \cup {key} |-> IF k = key THEN value ELSE fields[k]]
  BY DEF WithField
<1>2. key \in (Nat \ {0}) \X Slot
  OBVIOUS
<1> HIDE DEF key, g
<1>3. DOMAIN g = DOMAIN fields \cup {key} /\ \A k \in DOMAIN g : g[k] \in Seq(Nat \ {0})
  BY <1>1 DEF FieldsTyped
<1>4. g \in [DOMAIN g -> Seq(Nat \ {0})]
  <2>1. g = [k \in DOMAIN g |-> g[k]]
    BY <1>1, <1>3
  <2> QED  BY <1>3, <2>1
<1> QED  BY <1>2, <1>3, <1>4 DEF FieldsTyped, g

(* The declarations of a patch stay declarations in the file. *)
LEMMA SpreadTyped ==
  ASSUME FieldsTyped(fields), NEW into, FieldsTyped(into), NEW frame \in Frame, NEW of \in Nat \ {0}
  PROVE  FieldsTyped(Spread(into, frame, of))
<1> DEFINE declares(slot) == <<frame.at, slot>> \in DOMAIN fields
           added == {<<of, slot>> : slot \in {s \in Slot : declares(s)}}
           joined(k) == Field(of, k[2]) \o Field(frame.at, k[2])
           g == Spread(into, frame, of)
<1>1. g = [k \in DOMAIN into \cup added |->
             IF k[1] = of /\ declares(k[2]) THEN joined(k) ELSE into[k]]
  BY DEF Spread
<1>2. added \subseteq (Nat \ {0}) \X Slot /\ \A k \in added : k[1] = of /\ declares(k[2])
  <2> HIDE DEF declares
  <2>1. \A k \in added : \E s \in Slot : declares(s) /\ k = <<of, s>>
    OBVIOUS
  <2> HIDE DEF added
  <2> QED  BY <2>1
<1>4. \A k : joined(k) \in Seq(Nat \ {0})
  <2> TAKE k
  <2>1. Field(of, k[2]) \in Seq(Nat \ {0}) /\ Field(frame.at, k[2]) \in Seq(Nat \ {0})
    BY FieldTyped
  <2> QED  BY <2>1
<1> HIDE DEF declares, added, joined, g
<1>5. DOMAIN g = DOMAIN into \cup added /\ \A k \in DOMAIN g : g[k] \in Seq(Nat \ {0})
  BY <1>1, <1>2, <1>4 DEF FieldsTyped
<1>6. g \in [DOMAIN g -> Seq(Nat \ {0})]
  <2>1. g = [k \in DOMAIN g |-> g[k]]
    BY <1>1, <1>5
  <2> QED  BY <1>5, <2>1
<1> QED  BY <1>2, <1>5, <1>6 DEF FieldsTyped, g

(* What a frame returns is stored as one more declaration of its caller. *)
LEMMA StoredTyped ==
  ASSUME FieldsTyped(fields), NEW frame \in Frame, Caller.at \in Nat \ {0}
  PROVE  FieldsTyped(Stored(frame))
<1> DEFINE value == IF frame.many THEN Append(Field(Caller.at, frame.slot), frame.at)
                    ELSE <<frame.at>>
<1>1. frame.at \in Nat \ {0} /\ frame.slot \in Slot /\ frame.many \in BOOLEAN
  BY DEF Frame
<1>2. value \in Seq(Nat \ {0})
  <2>1. CASE frame.many
    <3>1. value = Append(Field(Caller.at, frame.slot), frame.at)
      BY <2>1
    <3>2. Field(Caller.at, frame.slot) \in Seq(Nat \ {0})
      BY FieldTyped
    <3> HIDE DEF value
    <3> QED  BY <1>1, <3>1, <3>2
  <2>2. CASE ~ frame.many
    <3>1. value = <<frame.at>>
      BY <2>2
    <3> HIDE DEF value
    <3> QED  BY <1>1, <3>1
  <2> QED  BY <2>1, <2>2
<1>3. Stored(frame) = IF frame.rule = "parseSchemaPatch"
                      THEN Spread(WithField(Caller.at, frame.slot, value), frame, Caller.at)
                      ELSE WithField(Caller.at, frame.slot, value)
  BY DEF Stored
<1> HIDE DEF value
<1>4. FieldsTyped(WithField(Caller.at, frame.slot, value))
  BY <1>1, <1>2, WithFieldTyped
<1>5. FieldsTyped(Spread(WithField(Caller.at, frame.slot, value), frame, Caller.at))
  BY <1>4, SpreadTyped
<1> QED  BY <1>3, <1>4, <1>5

(* The innermost frame returns, at the end tag of its own element. *)
LEMMA ReadEndKeeps == ASSUME PInv, ReadEnd PROVE PInv'
<1>0. /\ status = "reading" /\ pos < Len(doc.tokens) /\ Token.kind = "end" /\ pos' = pos + 1
      /\ stack # << >>
      /\ stack' = SubSeq(stack, 1, Len(stack) - 1)
      /\ nsStack' = SubSeq(nsStack, 1, Len(nsStack) - 1)
      /\ doc' = doc /\ target' = target /\ resolved' = resolved /\ text' = text
      /\ status' = IF Top.rule = "parseSchema" THEN "parsed" ELSE status
  BY DEF ReadEnd, Reads
<1>1. /\ doc \in Docs /\ pos \in Nat /\ stack \in Seq(Frame) /\ nsStack \in Seq(Scopes)
      /\ target \in Namespace /\ text \in BOOLEAN
      /\ resolved \in [1..Len(doc.tokens) -> Namespace \cup {Unresolved}]
      /\ DOMAIN fields \subseteq (Nat \ {0}) \X Slot
      /\ fields \in [DOMAIN fields -> Seq(Nat \ {0})]
  BY DEF PInv, ParserTypeOK
<1> PICK n \in Nat : n = Len(stack)
  BY <1>1
<1>2. n > 0
  BY <1>0, <1>1
<1>3. /\ pos + 1 \in 1..Len(doc.tokens) /\ Len(doc.tokens) \in Nat
      /\ doc.open[pos] \in Seq(Nat \ {0}) /\ doc.open[pos + 1] \in Seq(Nat \ {0})
      /\ doc.open[pos + 1] = SubSeq(doc.open[pos], 1, Len(doc.open[pos]) - 1)
  BY <1>0, <1>1, NextToken
<1>4. /\ n = Len(doc.open[pos]) /\ Len(nsStack) = n + 1
      /\ \A i \in 1..n : stack[i].at = doc.open[pos][i]
      /\ \A i \in 1..n : nsStack[i + 1] = doc.tokens[stack[i].at].decls
  BY <1>0, FramesNow
<1>5. /\ stack' \in Seq(Frame) /\ Len(stack') = n - 1
      /\ \A k \in 1..(n - 1) : stack'[k] = stack[k]
  BY <1>0, <1>1, <1>2
<1>6. /\ nsStack' \in Seq(Scopes) /\ Len(nsStack') = n
      /\ \A k \in 1..n : nsStack'[k] = nsStack[k]
  BY <1>0, <1>1, <1>2, <1>4
<1>7. /\ Len(doc.open[pos + 1]) = n - 1
      /\ \A k \in 1..(n - 1) : doc.open[pos + 1][k] = doc.open[pos][k]
  BY <1>2, <1>3, <1>4
<1>8. DOMAIN stack' = 1..(n - 1) /\ DOMAIN stack = 1..n
  BY <1>1, <1>5
<1>9. DOMAIN fields' \subseteq (Nat \ {0}) \X Slot /\ fields' \in [DOMAIN fields' -> Seq(Nat \ {0})]
  <2>1. CASE n > 1 /\ fields' = Stored(Top)
    <3>1. n - 1 \in 1..n /\ n \in 1..n
      BY <2>1
    <3>2. Top \in Frame /\ Caller \in Frame
      BY <1>1, <3>1 DEF Top, Caller
    <3>3. Caller.at \in Nat \ {0}
      BY <3>2 DEF Frame
    <3>4. FieldsTyped(fields)
      BY <1>1 DEF FieldsTyped
    <3>5. FieldsTyped(fields')
      BY <2>1, <3>2, <3>3, <3>4, StoredTyped
    <3> QED  BY <3>5 DEF FieldsTyped
  <2>2. CASE fields' = fields
    BY <1>1, <2>2
  <2>3. n > 1 \/ n = 1
    BY <1>2
  <2> QED  BY <2>1, <2>2, <2>3 DEF ReadEnd
<1>10. status' \in {"reading", "parsed", "failed"}
  BY <1>0
<1>11. ParserTypeOK'
  BY <1>0, <1>1, <1>3, <1>5, <1>6, <1>9, <1>10 DEF ParserTypeOK
<1>12. FramesAreOpenElements'
  <2>1. \A i \in 1..(n - 1) : stack'[i].at = doc.open[pos + 1][i]
    <3> TAKE i \in 1..(n - 1)
    <3>1. i \in 1..n
      OBVIOUS
    <3> QED  BY <3>1, <1>4, <1>5, <1>7
  <2>2. \A i \in 1..(n - 1) : nsStack'[i + 1] = doc.tokens[stack'[i].at].decls
    <3> TAKE i \in 1..(n - 1)
    <3>1. i \in 1..n /\ i + 1 \in 1..n
      OBVIOUS
    <3> QED  BY <3>1, <1>4, <1>5, <1>6
  <2>3. Len(nsStack') = Len(stack') + 1 /\ Len(stack') = Len(doc.open[pos + 1])
    BY <1>5, <1>6, <1>7
  <2> QED  BY <1>0, <1>8, <2>1, <2>2, <2>3 DEF FramesAreOpenElements
<1>13. FramesAtStarts'
  <2>1. nsStack'[1] = XMLScope
    <3>1. 1 \in 1..n
      BY <1>2
    <3> QED  BY <3>1, <1>6 DEF PInv, FramesAtStarts
  <2>2. ASSUME NEW k \in 1..(n - 1)
        PROVE  stack'[k].at \in 1..(pos + 1) /\ doc.tokens[stack'[k].at].kind = "start"
    <3>1. k \in 1..n
      OBVIOUS
    <3>2. stack[k].at \in 1..pos /\ doc.tokens[stack[k].at].kind = "start"
      BY <3>1 DEF PInv, FramesAtStarts
    <3> QED  BY <1>1, <1>5, <3>2
  <2> QED  BY <1>0, <1>5, <2>1, <2>2 DEF FramesAtStarts
<1>14. Top.rule = "parseSchema" => n = 1
  <2>1. n # 1 => n \in 2..n
    BY <1>2
  <2> QED  BY <2>1 DEF PInv, SchemaAtRoot, Top
<1>15. SchemaAtRoot'
  <2>1. \A k \in 2..(n - 1) : stack'[k].rule # "parseSchema"
    <3> TAKE k \in 2..(n - 1)
    <3>1. k \in 2..n /\ k \in 1..(n - 1)
      OBVIOUS
    <3> QED  BY <3>1, <1>5 DEF PInv, SchemaAtRoot
  <2>2. ASSUME status' = "reading", n - 1 > 0 => stack'[1].rule # "parseSchema"
        PROVE  /\ \A k \in 1..(n - 1) : stack'[k].rule = "skip"
               /\ \A i \in DOMAIN resolved' : resolved'[i] = Unresolved
    <3>1. stack[1].rule # "parseSchema"
      <4>1. CASE n = 1
        BY <1>0, <2>2, <4>1 DEF Top
      <4>2. CASE n > 1
        <5>1. 1 \in 1..(n - 1) /\ n - 1 > 0
          BY <4>2
        <5> QED  BY <2>2, <5>1, <1>5
      <4> QED  BY <1>2, <4>1, <4>2
    <3>2. /\ \A k \in 1..n : stack[k].rule = "skip"
          /\ \A i \in DOMAIN resolved : resolved[i] = Unresolved
      BY <1>0, <3>1 DEF PInv, SchemaAtRoot
    <3>3. \A k \in 1..(n - 1) : k \in 1..n
      OBVIOUS
    <3> QED  BY <1>0, <1>5, <3>2, <3>3
  <2> QED  BY <1>5, <2>1, <2>2 DEF SchemaAtRoot
<1>16. ReferencesMeanWhatTheySay'
  <2>1. \A i \in DOMAIN resolved' : resolved'[i] # Unresolved => resolved'[i] = MeantNamespace(i)'
    <3>1. \A i : MeantNamespace(i)' = MeantNamespace(i)
      BY <1>0, MeaningStays
    <3> QED  BY <1>0, <3>1 DEF PInv, ReferencesMeanWhatTheySay
  <2>2. ASSUME NEW k \in DOMAIN stack', stack'[k].rule \in Resolving,
               doc'.tokens[stack'[k].at].ref # NoName
        PROVE  resolved'[stack'[k].at] # Unresolved
    <3>1. k \in 1..(n - 1) /\ k \in DOMAIN stack
      BY <1>8
    <3>2. stack'[k] = stack[k]
      BY <1>5, <3>1
    <3> QED  BY <1>0, <2>2, <3>1, <3>2 DEF PInv, ReferencesMeanWhatTheySay
  <2> QED  BY <2>1, <2>2 DEF ReferencesMeanWhatTheySay
<1>17. ReadUnbroken'
  <2>1. \A i \in 1..(pos + 1) : doc.tokens[i].kind # "error"
    <3> TAKE i \in 1..(pos + 1)
    <3>1. i \in 1..pos \/ i = pos + 1
      BY <1>1
    <3> QED  BY <1>0, <3>1 DEF PInv, ReadUnbroken, Token
  <2>2. status' = "parsed" => stack' = << >>
    <3>1. status' = "parsed" => n = 1
      BY <1>0, <1>14
    <3>2. n = 1 => stack' = << >>
      BY <1>5
    <3> QED  BY <3>1, <3>2
  <2> QED  BY <1>0, <2>1, <2>2 DEF ReadUnbroken
<1>18. BrokenDocumentsFail'
  <2>1. status' = "parsed" => doc.open[pos + 1] = << >>
    <3>1. status' = "parsed" => n = 1
      BY <1>0, <1>14
    <3>2. n = 1 => doc.open[pos + 1] = << >>
      <4> PICK opened : opened = doc.open[pos + 1]
        OBVIOUS
      <4>1. opened \in Seq(Nat \ {0}) /\ Len(opened) = n - 1
        BY <1>3, <1>7
      <4>2. n = 1 => opened = << >>
        BY ONLY <4>1, EmptySeq
      <4> QED  BY <4>2
    <3> QED  BY <3>1, <3>2
  <2> QED  BY <1>0, <1>17, <2>1 DEF ReadUnbroken, BrokenDocumentsFail
<1> QED
  BY <1>0, <1>1, <1>11, <1>12, <1>13, <1>15, <1>16, <1>17, <1>18 DEF PInv

(* An error closes the scopes of all frames. *)
LEMMA ReadErrorKeeps == ASSUME PInv, ReadError PROVE PInv'
<1>0. /\ status = "reading" /\ pos < Len(doc.tokens) /\ Token.kind = "error" /\ pos' = pos + 1
      /\ stack' = << >> /\ nsStack' = SubSeq(nsStack, 1, Len(nsStack) - Len(stack))
      /\ fields' = NoFields /\ status' = "failed"
      /\ doc' = doc /\ target' = target /\ resolved' = resolved /\ text' = text
  BY DEF ReadError, Reads
<1>1. doc \in Docs /\ pos \in Nat /\ nsStack \in Seq(Scopes) /\ stack \in Seq(Frame)
  BY DEF PInv, ParserTypeOK
<1>2. Len(stack) \in Nat /\ Len(nsStack) = Len(stack) + 1
  BY <1>0, FramesNow
<1>3. Len(nsStack) - Len(stack) = 1
  BY <1>2
<1>4. nsStack' \in Seq(Scopes) /\ Len(nsStack') = 1 /\ nsStack'[1] = nsStack[1]
  <2>1. nsStack' = SubSeq(nsStack, 1, 1) /\ Len(nsStack) >= 1
    BY <1>0, <1>2, <1>3
  <2> QED  BY <1>1, <2>1
<1>5. pos + 1 \in 1..Len(doc.tokens)
  BY <1>0, <1>1, NextToken
<1>6. ParserTypeOK'
  <2>1. DOMAIN fields' \subseteq (Nat \ {0}) \X Slot /\ fields' \in [DOMAIN fields' -> Seq(Nat \ {0})]
    BY <1>0 DEF NoFields
  <2>2. pos' \in 0..Len(doc'.tokens) /\ stack' \in Seq(Frame)
    BY <1>0, <1>1, <1>5
  <2> QED  BY <1>0, <1>4, <2>1, <2>2 DEF PInv, ParserTypeOK
<1>7. Len(stack') = 0 /\ DOMAIN stack' = {}
  BY <1>0
<1>8. FramesAreOpenElements' /\ FramesAtStarts'
  BY <1>0, <1>4, <1>7 DEF PInv, FramesAreOpenElements, FramesAtStarts
<1>9. SchemaAtRoot' /\ ReadUnbroken'
  BY <1>0, <1>7 DEF SchemaAtRoot, ReadUnbroken
<1>10. ReferencesMeanWhatTheySay'
  <2>1. \A i : MeantNamespace(i)' = MeantNamespace(i)
    BY <1>0, MeaningStays
  <2> QED  BY <1>0, <1>7, <2>1 DEF PInv, ReferencesMeanWhatTheySay
<1>11. BrokenDocumentsFail'
  BY <1>0 DEF BrokenDocumentsFail, Token
<1> QED  BY <1>0, <1>1, <1>6, <1>8, <1>9, <1>10, <1>11 DEF PInv

(* A document that is not broken ends with no element open. *)
LEMMA ReadEOFKeeps == ASSUME PInv, ReadEOF PROVE PInv'
<1>0. /\ status = "reading" /\ pos = Len(doc.tokens) /\ status' = "parsed"
      /\ doc' = doc /\ pos' = pos /\ stack' = stack /\ nsStack' = nsStack /\ target' = target
      /\ resolved' = resolved /\ text' = text /\ fields' = fields
  BY DEF ReadEOF
<1>1. doc \in Docs /\ WellFormed(doc) /\ pos \in Nat /\ stack \in Seq(Frame)
  BY DocAssumption DEF PInv, ParserTypeOK
<1>2. \A n \in 1..pos : doc.tokens[n].kind # "error"
  BY <1>0 DEF PInv, ReadUnbroken
<1>3. doc.open[pos] = << >>
  <2>1. CASE pos = 0
    BY <1>1, <2>1 DEF WellFormed
  <2>2. CASE pos > 0
    <3>1. pos \in 1..pos
      BY <1>1, <2>2
    <3>2. doc.tokens[pos].kind # "error"
      BY <1>2, <3>1
    <3>3. doc.open[pos] = << >> \/ doc.tokens[pos].kind = "error"
      BY <1>0, <1>1, <2>2 DEF WellFormed
    <3> QED  BY <3>2, <3>3
  <2> QED  BY <1>1, <2>1, <2>2
<1>4. stack = << >>
  <2>1. Len(stack) = 0
    BY <1>0, <1>3, FramesNow
  <2> QED  BY <1>1, <2>1
<1>5. ParserTypeOK'
  BY <1>0 DEF PInv, ParserTypeOK
<1>6. FramesAreOpenElements' /\ FramesAtStarts'
  BY <1>0 DEF PInv, FramesAreOpenElements, FramesAtStarts
<1>7. SchemaAtRoot'
  BY <1>0 DEF PInv, SchemaAtRoot
<1>8. ReadUnbroken' /\ BrokenDocumentsFail'
  BY <1>0, <1>2, <1>3, <1>4 DEF ReadUnbroken, BrokenDocumentsFail
<1>9. ReferencesMeanWhatTheySay'
  <2>1. \A i : MeantNamespace(i)' = MeantNamespace(i)
    BY <1>0, MeaningStays
  <2> QED  BY <1>0, <2>1 DEF PInv, ReferencesMeanWhatTheySay
<1> QED  BY <1>0, <1>1, <1>5, <1>6, <1>7, <1>8, <1>9 DEF PInv

(* A stuttering step changes nothing. *)
LEMMA StutterKeeps == ASSUME PInv, UNCHANGED vars PROVE PInv'
<1>1. /\ doc' = doc /\ pos' = pos /\ stack' = stack /\ nsStack' = nsStack /\ target' = target
      /\ resolved' = resolved /\ text' = text /\ fields' = fields /\ status' = status
  BY DEF vars
<1>2. ParserTypeOK' /\ FramesAreOpenElements' /\ FramesAtStarts' /\ SchemaAtRoot' /\ ReadUnbroken'
  BY <1>1 DEF PInv, ParserTypeOK, FramesAreOpenElements, FramesAtStarts, SchemaAtRoot, ReadUnbroken
<1>3. \A i : MeantNamespace(i)' = MeantNamespace(i)
  BY <1>1, MeaningStays
<1>4. ReferencesMeanWhatTheySay' /\ BrokenDocumentsFail'
  BY <1>1, <1>3 DEF PInv, ReferencesMeanWhatTheySay, BrokenDocumentsFail
<1> QED  BY <1>1, <1>2, <1>4 DEF PInv

(* The inductive invariant holds in every state of every Parse. *)
LEMMA PInvHolds == Spec => []PInv
<1>1. Init => PInv
  BY PInvInit
<1>2. PInv /\ [Next]_vars => PInv'
  BY ReadRootKeeps, ReadStartKeeps, ReadOtherKeeps, ReadEndKeeps, ReadErrorKeeps, ReadEOFKeeps,
     StutterKeeps DEF Next
<1> QED  BY <1>1, <1>2, PTL DEF Spec

-----------------------------------------------------------------------------
(* What holds of every document *)

(* A namespace is one of the document's, never a prefix, and every field is  *)
(* one of the raw model's.                                                    *)
THEOREM ParserTypeCorrect == Spec => []ParserTypeOK
<1>1. PInv => ParserTypeOK
  BY DEF PInv
<1> QED  BY <1>1, PInvHolds, PTL

(* However the functions call each other, each returns at the end of its own *)
(* element and leaves the scopes as it found them.                            *)
THEOREM FramesStayOpen == Spec => []FramesAreOpenElements
<1>1. PInv => FramesAreOpenElements
  BY DEF PInv
<1> QED  BY <1>1, PInvHolds, PTL

(* A QName attribute means what the declarations around it say, whatever is  *)
(* skipped on the way.                                                        *)
THEOREM ReferencesStayMeant == Spec => []ReferencesMeanWhatTheySay
<1>1. PInv => ReferencesMeanWhatTheySay
  BY DEF PInv
<1> QED  BY <1>1, PInvHolds, PTL

(* A file comes of a document that is not broken up to the end of its schema, *)
(* and of no other.                                                           *)
THEOREM BrokenGiveNoFile == Spec => []BrokenDocumentsFail
<1>1. PInv => BrokenDocumentsFail
  BY DEF PInv
<1> QED  BY <1>1, PInvHolds, PTL

-----------------------------------------------------------------------------
(* The document as a tree *)

Size == Len(doc.tokens)

(* An element that is open has been so since its start tag, with the ones     *)
(* around it; the one at place k has k - 1 around it.                         *)
OpenSince(n) ==
  \A k \in 1 .. Len(doc.open[n]) :
    LET t == doc.open[n][k]
    IN  /\ t \in 1 .. n /\ IsStart(t)
        /\ Len(doc.open[t]) = k
        /\ \A m \in t .. n : /\ Len(doc.open[m]) >= k
                             /\ \A j \in 1 .. k : doc.open[m][j] = doc.open[n][j]

(* One more token opens an element, closes the last one, or does neither.     *)
LEMMA OpenNext ==
  ASSUME doc \in Docs, NEW n \in Nat, n < Size
  PROVE  /\ doc.open[n] \in Seq(Nat \ {0}) /\ doc.open[n + 1] \in Seq(Nat \ {0})
         /\ Len(doc.open[n]) \in Nat /\ Len(doc.open[n + 1]) \in Nat
         /\ IsStart(n + 1) => /\ doc.open[n + 1] = Append(doc.open[n], n + 1)
                              /\ Len(doc.open[n + 1]) = Len(doc.open[n]) + 1
                              /\ doc.open[n + 1][Len(doc.open[n]) + 1] = n + 1
         /\ ~ IsStart(n + 1) => Len(doc.open[n + 1]) <= Len(doc.open[n])
         /\ \A k \in 1 .. Len(doc.open[n + 1]) :
              k <= Len(doc.open[n]) => doc.open[n + 1][k] = doc.open[n][k]
<1>1. WellFormed(doc) /\ Len(doc.tokens) \in Nat
  <2>1. WellFormed(doc)
    BY DocAssumption
  <2>2. doc.tokens \in Seq(Tokens)
    BY <2>1 DEF WellFormed, Tokens
  <2> QED  BY <2>1, <2>2, LenProperties
<1>2. doc.open \in [0 .. Len(doc.tokens) -> Seq(Nat \ {0})]
  BY <1>1 DEF WellFormed
<1>3. n \in 0 .. Len(doc.tokens) /\ n + 1 \in 0 .. Len(doc.tokens) /\ n + 1 \in 1 .. Len(doc.tokens)
  BY <1>1 DEF Size
<1>4. PICK old \in Seq(Nat \ {0}) : old = doc.open[n]
  BY <1>2, <1>3
<1>5. PICK new \in Seq(Nat \ {0}) : new = doc.open[n + 1]
  BY <1>2, <1>3
<1>6. LET before == doc.open[n]
          token == doc.tokens[n + 1]
      IN  CASE token.kind = "start" -> doc.open[n + 1] = Append(before, n + 1)
            [] token.kind = "end" ->
                 /\ Len(before) > 0
                 /\ doc.open[n + 1] = SubSeq(before, 1, Len(before) - 1)
                 /\ before[Len(before)] < n + 1
                 /\ LET start == doc.tokens[before[Len(before)]]
                    IN  start.kind = "start" /\ start.xsd = token.xsd /\ start.name = token.name
            [] OTHER -> doc.open[n + 1] = before
  <2>1. (n + 1) - 1 = n
    OBVIOUS
  <2> QED  BY <1>1, <1>3, <2>1 DEF WellFormed
<1>7. /\ IsStart(n + 1) => new = Append(old, n + 1)
      /\ ~ IsStart(n + 1) => new = old \/ (Len(old) > 0 /\ new = SubSeq(old, 1, Len(old) - 1))
  BY <1>4, <1>5, <1>6 DEF IsStart
<1>8. /\ IsStart(n + 1) => Len(new) = Len(old) + 1 /\ new[Len(old) + 1] = n + 1
      /\ ~ IsStart(n + 1) => Len(new) <= Len(old)
      /\ \A k \in 1 .. Len(new) : k <= Len(old) => new[k] = old[k]
  <2>1. Len(old) \in Nat /\ n + 1 \in Nat \ {0}
    BY LenProperties
  <2>2. CASE IsStart(n + 1)
    <3>1. new = Append(old, n + 1)
      BY <1>7, <2>2
    <3>2. Len(new) = Len(old) + 1 /\ new[Len(old) + 1] = n + 1
      BY ONLY <2>1, <3>1, old \in Seq(Nat \ {0}), AppendProperties
    <3>3. \A k \in 1 .. Len(old) : new[k] = old[k]
      BY ONLY <2>1, <3>1, old \in Seq(Nat \ {0}), AppendProperties
    <3> QED  BY <2>1, <2>2, <3>2, <3>3
  <2>3. CASE new = old /\ ~ IsStart(n + 1)
    BY <2>3, <2>1
  <2>4. CASE Len(old) > 0 /\ new = SubSeq(old, 1, Len(old) - 1) /\ ~ IsStart(n + 1)
    <3> PICK a \in Nat : a = Len(old)
      BY <2>1
    <3>1. a > 0 /\ new = SubSeq(old, 1, a - 1)
      BY <2>4
    <3>2. Len(new) = a - 1 /\ \A k \in 1 .. (a - 1) : new[k] = old[k]
      BY ONLY <3>1, a = Len(old), a \in Nat, old \in Seq(Nat \ {0})
    <3> QED  BY <2>1, <2>4, <3>2
  <2> QED  BY <1>7, <2>2, <2>3, <2>4
<1>9. Len(old) \in Nat /\ Len(new) \in Nat
  BY LenProperties
<1> QED  BY <1>4, <1>5, <1>7, <1>8, <1>9

(* By induction over the tokens.                                               *)
LEMMA OpenIsSince ==
  ASSUME doc \in Docs, NEW n \in 0 .. Size
  PROVE  OpenSince(n)
<1>1. WellFormed(doc) /\ Size \in Nat
  <2>1. WellFormed(doc)
    BY DocAssumption
  <2>2. doc.tokens \in Seq(Tokens)
    BY <2>1 DEF WellFormed, Tokens
  <2> QED  BY <2>1, <2>2, LenProperties DEF Size
<1> DEFINE Good == {m \in Nat : m <= Size => OpenSince(m)}
<1>2. 0 \in Good
  <2>1. Len(doc.open[0]) = 0
    BY <1>1 DEF WellFormed
  <2> QED  BY <2>1 DEF OpenSince
<1>3. ASSUME NEW m \in Nat, m \in Good PROVE m + 1 \in Good
  <2> SUFFICES ASSUME m + 1 <= Size PROVE OpenSince(m + 1)
    OBVIOUS
  <2>1. m < Size /\ OpenSince(m)
    BY <1>1, <1>3
  <2> PICK old, new : old = doc.open[m] /\ new = doc.open[m + 1]
    OBVIOUS
  <2>2. /\ old \in Seq(Nat \ {0}) /\ new \in Seq(Nat \ {0})
        /\ Len(old) \in Nat /\ Len(new) \in Nat
        /\ IsStart(m + 1) => Len(new) = Len(old) + 1 /\ new[Len(old) + 1] = m + 1
        /\ ~ IsStart(m + 1) => Len(new) <= Len(old)
        /\ \A k \in 1 .. Len(new) : k <= Len(old) => new[k] = old[k]
    BY <2>1, OpenNext
  <2> SUFFICES ASSUME NEW k \in 1 .. Len(new)
               PROVE  /\ new[k] \in 1 .. (m + 1) /\ IsStart(new[k])
                      /\ Len(doc.open[new[k]]) = k
                      /\ \A l \in new[k] .. (m + 1) :
                           /\ Len(doc.open[l]) >= k
                           /\ \A j \in 1 .. k : doc.open[l][j] = new[j]
    BY DEF OpenSince
  <2> PICK a \in Nat : a = Len(old)
    BY <2>2
  <2> PICK b \in Nat : b = Len(new)
    BY <2>2
  <2>5. k \in 1 .. b /\ \A j \in 1 .. b : j <= a => new[j] = old[j]
    BY <2>2
  <2>3. CASE k <= Len(old)
    <3>0. k <= a
      BY <2>3
    <3>1. k \in 1 .. Len(old) /\ new[k] = old[k]
      <4>1. k \in 1 .. a
        BY ONLY <2>5, <3>0, a \in Nat, b \in Nat
      <4> QED  BY <4>1, <2>5, <3>0
    <3>2. /\ old[k] \in 1 .. m /\ IsStart(old[k])
          /\ Len(doc.open[old[k]]) = k
          /\ \A l \in old[k] .. m : /\ Len(doc.open[l]) >= k
                                    /\ \A j \in 1 .. k : doc.open[l][j] = old[j]
      BY <2>1, <3>1 DEF OpenSince
    <3>3. \A j \in 1 .. k : new[j] = old[j]
      BY ONLY <2>5, <3>0, a \in Nat, b \in Nat
    <3>4. ASSUME NEW l \in new[k] .. (m + 1)
          PROVE  Len(doc.open[l]) >= k /\ \A j \in 1 .. k : doc.open[l][j] = new[j]
      <4>1. CASE l = m + 1
        BY <2>2, <4>1
      <4>2. CASE l # m + 1
        <5>1. l \in old[k] .. m
          BY <3>1, <3>2, <4>2
        <5> QED  BY <3>2, <3>3, <5>1
      <4> QED  BY <4>1, <4>2
    <3> QED  BY <3>1, <3>2, <3>4
  <2>4. CASE k > Len(old)
    <3>1. IsStart(m + 1) /\ k = Len(old) + 1 /\ k = Len(new) /\ new[k] = m + 1
      BY <2>2, <2>4
    <3>2. \A l \in new[k] .. (m + 1) : l = m + 1
      BY <3>1
    <3>3. new[k] \in 1 .. (m + 1) /\ IsStart(new[k])
      BY <3>1
    <3>4. Len(doc.open[new[k]]) = k
      BY <3>1
    <3>5. ASSUME NEW l \in new[k] .. (m + 1)
          PROVE  Len(doc.open[l]) >= k /\ \A j \in 1 .. k : doc.open[l][j] = new[j]
      <4>1. doc.open[l] = new /\ Len(doc.open[l]) = k /\ k \in Nat
        BY <2>2, <3>1, <3>2
      <4> QED  BY ONLY <4>1
    <3> QED  BY <3>3, <3>4, <3>5
  <2> QED  BY <2>2, <2>3, <2>4
<1>4. Nat \subseteq Good
  <2> HIDE DEF Good
  <2> QED  BY <1>2, <1>3, NumbersByInduction
<1> QED  BY <1>1, <1>4

(* The elements around one come before it, the nearest is its parent.         *)
LEMMA OpenAround ==
  ASSUME doc \in Docs, NEW n \in 0 .. Size, NEW k \in 1 .. Len(doc.open[n])
  PROVE  /\ doc.open[n][k] \in 1 .. n
         /\ IsStart(doc.open[n][k])
         /\ Len(doc.open[doc.open[n][k]]) = k
         /\ \A j \in 1 .. Len(doc.open[n]) : j < k => doc.open[n][j] < doc.open[n][k]
         /\ k > 1 => Parent(doc.open[n][k]) = doc.open[n][k - 1]
<1>1. OpenSince(n) /\ Len(doc.open[n]) \in Nat /\ Size \in Nat
  <2>1. WellFormed(doc)
    BY DocAssumption
  <2>2. doc.open[n] \in Seq(Nat \ {0}) /\ doc.tokens \in Seq(Tokens)
    BY <2>1 DEF WellFormed, Size, Tokens
  <2> QED  BY <2>2, OpenIsSince, LenProperties DEF Size
<1> PICK t : t = doc.open[n][k]
  OBVIOUS
<1>2. /\ t \in 1 .. n /\ IsStart(t) /\ Len(doc.open[t]) = k
      /\ \A j \in 1 .. k : doc.open[t][j] = doc.open[n][j]
  BY <1>1 DEF OpenSince
<1>3. ASSUME NEW j \in 1 .. Len(doc.open[n]), j < k PROVE doc.open[n][j] < t
  <2>1. t \in 0 .. Size /\ OpenSince(t)
    <3>1. t \in 0 .. Size
      BY <1>2, <1>1
    <3> QED  BY <3>1, OpenIsSince
  <2>2. j \in 1 .. k /\ j \in 1 .. Len(doc.open[t])
    BY <1>1, <1>2, <1>3
  <2>3. doc.open[t][j] \in 1 .. t /\ Len(doc.open[doc.open[t][j]]) = j
    BY <2>1, <2>2 DEF OpenSince
  <2>4. doc.open[t][j] = doc.open[n][j]
    BY <1>2, <2>2
  <2>5. doc.open[t][j] # t
    BY <1>2, <1>3, <2>3
  <2> QED  BY <1>2, <2>3, <2>4, <2>5
<1>4. k > 1 => Parent(t) = doc.open[n][k - 1]
  <2>1. k > 1 => k - 1 \in 1 .. k
    BY <1>1
  <2> QED  BY <1>2, <2>1 DEF Parent
<1> QED  BY <1>2, <1>3, <1>4

(* A start tag opens its own element, inside of its parent.                   *)
LEMMA StartIsOpen ==
  ASSUME doc \in Docs, NEW i \in 1 .. Size, IsStart(i)
  PROVE  /\ Len(doc.open[i]) \in Nat \ {0} /\ doc.open[i][Len(doc.open[i])] = i
         /\ Len(doc.open[i]) > 1 =>
              /\ Parent(i) \in 1 .. (i - 1) /\ IsStart(Parent(i))
              /\ Len(doc.open[Parent(i)]) = Len(doc.open[i]) - 1
<1>1. Size \in Nat /\ i - 1 \in Nat /\ i - 1 < Size /\ (i - 1) + 1 = i /\ i \in 0 .. Size
  <2>1. WellFormed(doc)
    BY DocAssumption
  <2>2. doc.tokens \in Seq(Tokens)
    BY <2>1 DEF WellFormed, Tokens
  <2> QED  BY <2>2, LenProperties DEF Size
<1>2. /\ Len(doc.open[i - 1]) \in Nat
      /\ Len(doc.open[i]) = Len(doc.open[i - 1]) + 1
      /\ doc.open[i][Len(doc.open[i - 1]) + 1] = i
  BY <1>1, OpenNext
<1> PICK last : last = Len(doc.open[i])
  OBVIOUS
<1>3. last \in Nat \ {0} /\ doc.open[i][last] = i
  BY <1>2
<1>4. ASSUME last > 1
      PROVE  /\ Parent(i) \in 1 .. (i - 1) /\ IsStart(Parent(i))
             /\ Len(doc.open[Parent(i)]) = last - 1
  <2>1. last - 1 \in 1 .. Len(doc.open[i]) /\ last \in 1 .. Len(doc.open[i]) /\ last - 1 < last
    BY <1>3, <1>4
  <2>2. Parent(i) = doc.open[i][last - 1]
    BY DEF Parent
  <2>3. /\ doc.open[i][last - 1] \in 1 .. i /\ IsStart(doc.open[i][last - 1])
        /\ Len(doc.open[doc.open[i][last - 1]]) = last - 1
    BY <1>1, <2>1, OpenAround
  <2>4. doc.open[i][last - 1] < doc.open[i][last]
    BY <1>1, <2>1, OpenAround
  <2> QED  BY <1>3, <2>2, <2>3, <2>4
<1> QED  BY <1>3, <1>4

(* What starts after an open element is inside of it.                         *)
LEMMA InsideOfOpen ==
  ASSUME doc \in Docs, NEW n \in 0 .. Size, NEW k \in 1 .. Len(doc.open[n]),
         NEW i \in 1 .. n, IsStart(i), doc.open[n][k] < i
  PROVE  Len(doc.open[i]) > 1 /\ Parent(i) >= doc.open[n][k]
<1>1. Size \in Nat /\ i \in 1 .. Size /\ i \in 0 .. Size
  <2>1. WellFormed(doc)
    BY DocAssumption
  <2>2. doc.tokens \in Seq(Tokens)
    BY <2>1 DEF WellFormed, Tokens
  <2> QED  BY <2>2, LenProperties DEF Size
<1> PICK t : t = doc.open[n][k]
  OBVIOUS
<1> PICK last : last = Len(doc.open[i])
  OBVIOUS
<1>2. last \in Nat \ {0} /\ doc.open[i][last] = i
  BY <1>1, StartIsOpen
<1>3. t \in 1 .. n /\ k \in Nat
  BY OpenAround
<1>4. last >= k /\ doc.open[i][k] = t
  <2>1. OpenSince(n) /\ i \in t .. n
    BY <1>3, OpenIsSince
  <2>2. k \in 1 .. k
    BY <1>3
  <2> QED  BY <2>1, <2>2 DEF OpenSince
<1>5. last > k
  BY <1>2, <1>3, <1>4
<1>6. last - 1 \in 1 .. last /\ k \in 1 .. last /\ k <= last - 1 /\ last > 1
  BY <1>2, <1>3, <1>5
<1>7. doc.open[i][k] <= doc.open[i][last - 1]
  <2>1. CASE k = last - 1
    <3>1. doc.open[i][k] = doc.open[i][last - 1] /\ t \in Nat
      BY <1>3, <2>1
    <3> QED  BY <3>1, <1>4
  <2>2. CASE k < last - 1
    <3>1. last - 1 \in 1 .. Len(doc.open[i]) /\ k \in 1 .. Len(doc.open[i])
      BY <1>6
    <3>2. doc.open[i][k] < doc.open[i][last - 1] /\ doc.open[i][last - 1] \in 1 .. i
      BY <1>1, <2>2, <3>1, OpenAround
    <3> QED  BY <1>1, <1>3, <1>4, <3>2
  <2> QED  BY <1>6, <2>1, <2>2
<1> QED  BY <1>4, <1>6, <1>7 DEF Parent

(* A document has an end.                                                      *)
LEMMA SizeIsNat == ASSUME doc \in Docs PROVE Size \in Nat
<1>1. WellFormed(doc)
  BY DocAssumption
<1>2. doc.tokens \in Seq(Tokens)
  BY <1>1 DEF WellFormed, Tokens
<1> QED  BY <1>2, LenProperties DEF Size

(* What an element is read by follows from what its parent is read by.        *)
ReadAs(f, i) ==
  IF ~ IsStart(i) THEN Skipped
  ELSE IF Len(doc.open[i]) > 1 THEN Handled(f[Parent(i)].rule, doc.tokens[i])
  ELSE IF doc.tokens[i].xsd /\ doc.tokens[i].name = "schema"
       THEN Many("parseSchema", "none") ELSE Skipped

(* There is such a reading: a parent comes before its children.                 *)
LEMMA ReadingExists ==
  ASSUME doc \in Docs
  PROVE  \E f : f = [i \in 1 .. Size |-> ReadAs(f, i)]
<1>1. Size \in Nat
  BY SizeIsNat
<1> DEFINE Good == {m \in Nat : m <= Size => \E f : f = [i \in 1 .. m |-> ReadAs(f, i)]}
<1>2. 0 \in Good
  <2> DEFINE f == [i \in 1 .. 0 |-> Skipped]
  <2>1. f = [i \in 1 .. 0 |-> ReadAs(f, i)]
    OBVIOUS
  <2> QED  BY <2>1
<1>3. ASSUME NEW m \in Nat, m \in Good PROVE m + 1 \in Good
  <2> SUFFICES ASSUME m + 1 <= Size
               PROVE  \E f : f = [i \in 1 .. (m + 1) |-> ReadAs(f, i)]
    OBVIOUS
  <2>1. PICK f : f = [i \in 1 .. m |-> ReadAs(f, i)]
    BY <1>1, <1>3
  <2> DEFINE g == [i \in 1 .. (m + 1) |-> IF i <= m THEN f[i] ELSE ReadAs(f, i)]
  <2>2. \A j \in 1 .. m : g[j] = f[j]
    OBVIOUS
  <2>3. ASSUME NEW i \in 1 .. (m + 1) PROVE g[i] = ReadAs(g, i)
    <3>1. i \in 1 .. Size
      BY <1>1
    <3>2. IsStart(i) /\ Len(doc.open[i]) > 1 => Parent(i) \in 1 .. m
      <4> SUFFICES ASSUME IsStart(i), Len(doc.open[i]) > 1 PROVE Parent(i) \in 1 .. m
        OBVIOUS
      <4>1. Parent(i) \in 1 .. (i - 1)
        BY <3>1, StartIsOpen
      <4> QED  BY <4>1
    <3>3. ReadAs(g, i) = ReadAs(f, i)
      <4> HIDE DEF g
      <4> QED  BY <2>2, <3>2 DEF ReadAs
    <3>4. g[i] = ReadAs(f, i)
      <4>1. CASE i <= m
        <5>1. i \in 1 .. m /\ g[i] = f[i]
          BY <4>1
        <5> QED  BY <2>1, <5>1
      <4>2. CASE ~ (i <= m)
        BY <4>2
      <4> QED  BY <4>1, <4>2
    <3> QED  BY <3>3, <3>4
  <2>4. g = [i \in 1 .. (m + 1) |-> ReadAs(g, i)]
    BY <2>3
  <2> QED  BY <2>4
<1>4. Nat \subseteq Good
  <2> HIDE DEF Good
  <2> QED  BY <1>2, <1>3, NumbersByInduction
<1> QED  BY <1>1, <1>4

(* The reading is the one that the recursion says.                              *)
LEMMA ReadingIs ==
  ASSUME doc \in Docs
  PROVE  \A i \in 1 .. Size : Reading[i] = ReadAs(Reading, i)
<1>1. PICK f : f = [i \in 1 .. Size |-> ReadAs(f, i)]
  BY ReadingExists
<1>2. Reading = [i \in 1 .. Size |-> ReadAs(Reading, i)]
  BY <1>1 DEF Reading, ReadAs, Size
<1> QED  BY <1>2

(* A document is read in one way.                                             *)
LEMMA ReadingStays ==
  ASSUME doc' = doc
  PROVE  /\ Size' = Size /\ Reading' = Reading
         /\ \A i : IsStart(i)' = IsStart(i) /\ Parent(i)' = Parent(i)
<1>1. Reading' = Reading
  BY DEF Reading, IsStart, Parent
<1> QED  BY <1>1 DEF Size, IsStart, Parent

-----------------------------------------------------------------------------
(* The fields *)

(* The fields that hold one declaration.                                      *)
IsSingle(rule, slot) ==
  \/ slot \in {"annotation", "complexContent", "simpleContent", "extension", "restriction",
               "list", "union", "anonymousComplexType", "anonymousSimpleType"}
  \/ rule = "parseGroup" /\ slot = "content"

(* A function stores into a field always in the same way.                     *)
LEMMA ChildMode ==
  ASSUME NEW rule, NEW name
  PROVE  LET c == ChildOf(rule, name) IN c.many <=> ~ IsSingle(rule, c.slot)
<1> DEFINE Good(c) == c.many <=> ~ IsSingle(rule, c.slot)
<1>0. Good(Skipped)
  BY DEF IsSingle, Skipped, Many
<1>1. Good(AttributeChild(name)) /\ Good(AnnotationChild(name))
  BY DEF IsSingle, AttributeChild, AnnotationChild, Many, One, Leaf, Skipped
<1>2. \A c, d : Good(c) /\ Good(d) => Good(Else(c, d))
  BY DEF Else
<1>3. rule # "parseGroup" => Good(ContentChild(name))
  BY DEF IsSingle, ContentChild, Many, One, Leaf, Skipped
<1>4. CASE rule = "parseGroup"
  <2>1. Good(GroupChild(name))
    BY <1>4 DEF IsSingle, GroupChild, One, Many, Skipped
  <2>2. ChildOf(rule, name) = GroupChild(name)
    BY <1>4 DEF ChildOf
  <2> QED  BY <2>1, <2>2
<1>5. CASE rule # "parseGroup"
  <2>1. Good(ComplexTypeChild(name))
    <3>1. Good(Else(AnnotationChild(name), Else(ContentChild(name), AttributeChild(name))))
      <4> HIDE DEF Good
      <4> QED  BY <1>1, <1>2, <1>3, <1>5
    <3> QED  BY <3>1 DEF IsSingle, ComplexTypeChild, One
  <2>2. Good(ComplexContentChild(name)) /\ Good(SimpleContentChild(name))
    BY DEF IsSingle, ComplexContentChild, SimpleContentChild, Many, One, Skipped
  <2>3. Good(ComplexDerivationChild(name))
    <3> HIDE DEF Good
    <3> QED  BY <1>1, <1>2, <1>3, <1>5 DEF ComplexDerivationChild
  <2>4. Good(SimpleContentRestrictionChild(name))
    <3>1. Good(Leaf("facets"))
      BY DEF IsSingle, Leaf, Many
    <3>2. Good(Else(AttributeChild(name), Leaf("facets")))
      <4> HIDE DEF Good
      <4> QED  BY <3>1, <1>1, <1>2
    <3> QED  BY <3>2, <1>0 DEF SimpleContentRestrictionChild
  <2>5. Good(ElementChild(name)) /\ Good(AttributeDeclarationChild(name)) /\ Good(SimpleTypeChild(name))
    BY <1>1 DEF IsSingle, ElementChild, AttributeDeclarationChild, SimpleTypeChild, One
  <2>6. Good(ParticleGroupChild(name))
    BY <1>3, <1>5 DEF IsSingle, ParticleGroupChild, Many, Leaf
  <2>7. /\ Good(SimpleRestrictionChild(name)) /\ Good(SimpleListChild(name))
        /\ Good(SimpleUnionChild(name)) /\ Good(ParseAnnotationChild(name))
    BY DEF IsSingle, SimpleRestrictionChild, SimpleListChild, SimpleUnionChild,
           ParseAnnotationChild, Many, One, Leaf, Skipped
  <2>8. Good(DeclarationChild(name))
    BY DEF IsSingle, DeclarationChild, Many, Skipped
  <2>9. Good(SchemaChild(name))
    BY <2>8 DEF IsSingle, SchemaChild, Many, Leaf
  <2> HIDE DEF Good
  <2>10. Good(ChildOf(rule, name))
    BY <1>0, <1>1, <1>5, <2>1, <2>2, <2>3, <2>4, <2>5, <2>6, <2>7, <2>8, <2>9 DEF ChildOf
  <2> QED  BY <2>10 DEF Good
<1> QED  BY <1>4, <1>5

(* The same of a child of any name space.                                       *)
LEMMA HandledMode ==
  ASSUME NEW rule, NEW token
  PROVE  LET c == Handled(rule, token) IN c.many <=> ~ IsSingle(rule, c.slot)
BY ChildMode DEF Handled, Skipped, Many, IsSingle

(* A schema holds patches, and a patch declarations only; both hold many of   *)
(* everything.                                                                 *)
LEMMA PatchChildren ==
  ASSUME NEW rule, NEW token
  PROVE  LET c == Handled(rule, token)
         IN  /\ c.rule = "parseSchemaPatch" =>
                  rule = "parseSchema" /\ c.slot \in {"overrides", "redefines"}
             /\ rule = "parseSchemaPatch" =>
                  c.rule # "parseSchemaPatch" /\ c.slot \notin {"overrides", "redefines"}
             /\ rule \in {"parseSchema", "parseSchemaPatch"} => c.many
             /\ rule \in {"skip", "readTextElement"} => c.rule = "skip"
<1> DEFINE Other(c) == c.rule # "parseSchemaPatch"
<1> PICK name : name = token.name
  OBVIOUS
<1>1. /\ Other(Skipped) /\ Skipped.slot = "none" /\ Skipped.many /\ Skipped.rule = "skip"
  BY DEF Skipped, Many
<1>2. /\ Other(DeclarationChild(name)) /\ DeclarationChild(name).many
      /\ DeclarationChild(name).slot \notin {"overrides", "redefines"}
  BY DEF DeclarationChild, Many, Skipped
<1>3. /\ SchemaChild(name).many
      /\ SchemaChild(name).rule = "parseSchemaPatch" => SchemaChild(name).slot \in {"overrides", "redefines"}
  BY <1>2 DEF SchemaChild, Many, Leaf
<1>4. \A c, d : Other(c) /\ Other(d) => Other(Else(c, d))
  BY DEF Else
<1>5. Other(ContentChild(name)) /\ Other(AttributeChild(name)) /\ Other(AnnotationChild(name))
  BY DEF ContentChild, AttributeChild, AnnotationChild, Many, One, Leaf, Skipped
<1>6. Other(ComplexTypeChild(name)) /\ Other(ComplexDerivationChild(name))
  BY <1>4, <1>5 DEF ComplexTypeChild, ComplexDerivationChild, One
<1>7. Other(SimpleContentRestrictionChild(name))
  BY <1>1, <1>4, <1>5 DEF SimpleContentRestrictionChild, Leaf, Many
<1>8. /\ Other(ComplexContentChild(name)) /\ Other(SimpleContentChild(name))
      /\ Other(ElementChild(name)) /\ Other(AttributeDeclarationChild(name))
      /\ Other(SimpleTypeChild(name)) /\ Other(ParticleGroupChild(name)) /\ Other(GroupChild(name))
  BY <1>1, <1>5 DEF ComplexContentChild, SimpleContentChild, ElementChild, AttributeDeclarationChild,
     SimpleTypeChild, ParticleGroupChild, GroupChild, Many, One, Leaf
<1>9. /\ Other(SimpleRestrictionChild(name)) /\ Other(SimpleListChild(name))
      /\ Other(SimpleUnionChild(name)) /\ Other(ParseAnnotationChild(name))
  BY <1>1 DEF SimpleRestrictionChild, SimpleListChild, SimpleUnionChild, ParseAnnotationChild,
     Many, One, Leaf
<1>10. rule # "parseSchema" => Other(ChildOf(rule, name))
  <2> HIDE DEF Other
  <2> QED  BY <1>1, <1>2, <1>5, <1>6, <1>7, <1>8, <1>9 DEF ChildOf
<1>11. /\ rule = "parseSchema" => ChildOf(rule, name) = SchemaChild(name)
       /\ rule = "parseSchemaPatch" => ChildOf(rule, name) = DeclarationChild(name)
       /\ rule \in {"skip", "readTextElement"} => ChildOf(rule, name) = Skipped
  BY DEF ChildOf
<1>12. Handled(rule, token) = IF token.xsd THEN ChildOf(rule, name) ELSE Skipped
  BY DEF Handled
<1> HIDE DEF Other
<1>13. CASE token.xsd
  <2>1. Handled(rule, token) = ChildOf(rule, name)
    BY <1>12, <1>13
  <2>2. CASE rule = "parseSchema"
    BY <2>1, <2>2, <1>3, <1>11
  <2>3. CASE rule = "parseSchemaPatch"
    BY <2>1, <2>3, <1>2, <1>11 DEF Other
  <2>4. CASE rule \notin {"parseSchema", "parseSchemaPatch"}
    BY <2>1, <2>4, <1>1, <1>10, <1>11 DEF Other
  <2> QED  BY <2>2, <2>3, <2>4
<1>14. CASE ~ token.xsd
  BY <1>1, <1>12, <1>14 DEF Other
<1> QED  BY <1>13, <1>14

-----------------------------------------------------------------------------
(* What is closed *)

(* An element inside of another one whose end tag has been read.              *)
Closed(i) ==
  /\ i \in 1 .. pos /\ IsStart(i) /\ Len(doc.open[i]) > 1
  /\ \A k \in 1 .. Len(doc.open[pos]) : doc.open[pos][k] # i

(* An end tag closes the innermost element that is open, nothing else closes  *)
(* one.                                                                        *)
LEMMA ClosedNext ==
  ASSUME doc \in Docs, pos \in Nat, pos < Size, doc' = doc, pos' = pos + 1, NEW i
  PROVE  Closed(i)' <=>
           \/ Closed(i)
           \/ /\ Token.kind = "end" /\ Len(doc.open[pos]) > 1
              /\ i = doc.open[pos][Len(doc.open[pos])]
<1> PICK old, new : old = doc.open[pos] /\ new = doc.open[pos + 1]
  OBVIOUS
<1>1. /\ old \in Seq(Nat \ {0}) /\ new \in Seq(Nat \ {0})
      /\ Token \in Tokens
      /\ Token.kind = "start" => new = Append(old, pos + 1)
      /\ Token.kind = "end" => Len(old) > 0 /\ new = SubSeq(old, 1, Len(old) - 1)
      /\ Token.kind \in {"text", "blank", "error"} => new = old
  BY NextToken DEF Size
<1>2. Token.kind \in {"start", "end", "text", "blank", "error"}
  BY <1>1 DEF Tokens, StartTokens, EndTokens, OtherTokens
<1>3. IsStart(pos + 1) <=> Token.kind = "start"
  BY DEF IsStart, Token
<1>9. old \in Seq(Nat \ {0})
  BY <1>1
<1> PICK a \in Nat : a = Len(old)
  BY <1>1
<1>4. /\ Closed(i) <=> /\ i \in 1 .. pos /\ IsStart(i) /\ Len(doc.open[i]) > 1
                       /\ \A k \in 1 .. a : old[k] # i
      /\ Closed(i)' <=> /\ i \in 1 .. pos + 1 /\ IsStart(i) /\ Len(doc.open[i]) > 1
                        /\ \A k \in 1 .. Len(new) : new[k] # i
  BY DEF Closed, IsStart
<1>5. /\ \A k \in 1 .. a : /\ old[k] \in 1 .. pos /\ IsStart(old[k])
                           /\ Len(doc.open[old[k]]) = k
  <2>1. pos \in 0 .. Size
    BY SizeIsNat
  <2> QED  BY <2>1, OpenAround
<1>6. CASE Token.kind = "start"
  <2>1. /\ Len(new) = a + 1 /\ new[a + 1] = pos + 1
        /\ \A k \in 1 .. a : new[k] = old[k]
    <3>1. new = Append(old, pos + 1) /\ pos + 1 \in Nat \ {0}
      BY <1>1, <1>6
    <3> QED  BY ONLY <3>1, a = Len(old), <1>9, AppendProperties
  <2>2. ASSUME i \in 1 .. pos
        PROVE  (\A k \in 1 .. Len(new) : new[k] # i) <=> (\A k \in 1 .. a : old[k] # i)
    <3>1. i # pos + 1
      BY <2>2
    <3>2. \A k : k \in 1 .. a + 1 <=> k \in 1 .. a \/ k = a + 1
      OBVIOUS
    <3>3. (\A k \in 1 .. a + 1 : new[k] # i) <=> (\A k \in 1 .. a : new[k] # i)
      BY <2>1, <3>1, <3>2
    <3>4. (\A k \in 1 .. a : new[k] # i) <=> (\A k \in 1 .. a : old[k] # i)
      BY ONLY <2>1
    <3> QED  BY <2>1, <3>3, <3>4
  <2>3. i = pos + 1 => ~ Closed(i)'
    <3>1. a + 1 \in 1 .. Len(new)
      BY <2>1
    <3> QED  BY <1>4, <2>1, <3>1
  <2>4. i \in 1 .. pos + 1 <=> i \in 1 .. pos \/ i = pos + 1
    OBVIOUS
  <2> QED  BY <1>4, <1>6, <2>2, <2>3, <2>4
<1>7. CASE Token.kind = "end"
  <2>1. a > 0 /\ Len(new) = a - 1 /\ \A k \in 1 .. (a - 1) : new[k] = old[k]
    <3>1. a > 0 /\ new = SubSeq(old, 1, a - 1)
      BY <1>1, <1>7
    <3> QED  BY ONLY <3>1, a = Len(old), a \in Nat, <1>9
  <2>2. a \in 1 .. a /\ \A k \in 1 .. (a - 1) : k \in 1 .. a /\ k # a
    BY <2>1
  <2>3. ASSUME NEW k \in 1 .. (a - 1) PROVE new[k] # old[a]
    <3>1. k \in 1 .. a /\ k # a /\ new[k] = old[k]
      BY <2>1, <2>2
    <3>2. Len(doc.open[old[k]]) = k /\ Len(doc.open[old[a]]) = a
      BY <1>5, <2>2, <3>1
    <3> QED  BY ONLY <3>1, <3>2
  <2>4. \A k \in 1 .. a : k = a \/ k \in 1 .. (a - 1)
    OBVIOUS
  <2>5. old[a] \in 1 .. pos /\ IsStart(old[a]) /\ Len(doc.open[old[a]]) = a
    BY <1>5, <2>2
  <2>6. i \in 1 .. pos + 1 /\ IsStart(i) <=> i \in 1 .. pos /\ IsStart(i)
    <3>1. i \in 1 .. pos + 1 <=> i \in 1 .. pos \/ i = pos + 1
      OBVIOUS
    <3>2. ~ IsStart(pos + 1)
      BY <1>3, <1>7
    <3> QED  BY <3>1, <3>2
  <2>7. Closed(i)' <=> /\ i \in 1 .. pos /\ IsStart(i) /\ Len(doc.open[i]) > 1
                       /\ \A k \in 1 .. (a - 1) : old[k] # i
    BY <1>4, <2>1, <2>6
  <2>8. CASE i = old[a]
    <3>1. Closed(i)' <=> a > 1
      BY <2>1, <2>3, <2>5, <2>7, <2>8
    <3>2. ~ Closed(i)
      BY <1>4, <2>2, <2>8
    <3> QED  BY <1>7, <2>8, <3>1, <3>2
  <2>9. CASE i # old[a]
    <3>1. Closed(i)' <=> Closed(i)
      BY <1>4, <2>2, <2>4, <2>7, <2>9
    <3> QED  BY <2>9, <3>1
  <2> QED  BY <2>8, <2>9
<1>8. CASE Token.kind \in {"text", "blank", "error"}
  <2>1. new = old /\ ~ IsStart(pos + 1)
    BY <1>1, <1>3, <1>8
  <2>2. i \in 1 .. pos + 1 <=> i \in 1 .. pos \/ i = pos + 1
    OBVIOUS
  <2>3. Closed(i)' <=> Closed(i)
    BY <1>4, <2>1, <2>2
  <2> QED  BY <1>8, <2>3
<1> QED  BY <1>2, <1>6, <1>7, <1>8

(* Only text is text of an element, and only of the innermost that is open.   *)
LEMMA TextNext ==
  ASSUME doc \in Docs, pos \in Nat, pos < Size, doc' = doc, pos' = pos + 1, NEW i \in 1 .. pos + 1
  PROVE  HasText(i)' <=>
           HasText(i) \/ (Token.kind = "text" /\ doc.open[pos] = doc.open[i])
<1>1. HasText(i)' <=> \E n \in i .. pos + 1 : doc.tokens[n].kind = "text" /\ doc.open[n] = doc.open[i]
  BY DEF HasText
<1>2. \A n : n \in i .. pos + 1 <=> n \in i .. pos \/ n = pos + 1
  OBVIOUS
<1>3. Token.kind = "text" => doc.open[pos + 1] = doc.open[pos]
  BY NextToken DEF Size
<1> QED  BY <1>1, <1>2, <1>3 DEF HasText, Token

(* What is open behind a start tag is what is open as long as nothing more is. *)
LEMMA InnermostOpen ==
  ASSUME doc \in Docs, NEW n \in 0 .. Size, NEW i \in 1 .. n, IsStart(i)
  PROVE  doc.open[n] = doc.open[i] <=>
           Len(doc.open[n]) > 0 /\ doc.open[n][Len(doc.open[n])] = i
<1> PICK all, some : all = doc.open[n] /\ some = doc.open[i]
  OBVIOUS
<1>1. i \in 1 .. Size /\ i \in 0 .. Size
  BY SizeIsNat
<1>2. WellFormed(doc)
  BY DocAssumption
<1>3. all \in Seq(Nat \ {0}) /\ some \in Seq(Nat \ {0})
  BY <1>1, <1>2 DEF WellFormed, Size
<1>4. Len(some) \in Nat \ {0} /\ some[Len(some)] = i
  BY <1>1, StartIsOpen
<1>5. all = some => Len(all) > 0 /\ all[Len(all)] = i
  BY <1>4
<1>6. ASSUME Len(all) > 0, all[Len(all)] = i PROVE all = some
  <2>1. Len(all) \in 1 .. Len(all) /\ Len(all) \in Nat
    BY <1>3, <1>6
  <2>2. Len(some) = Len(all)
    BY <1>6, <2>1, OpenAround
  <2>3. OpenSince(n) /\ i \in i .. n
    BY OpenIsSince
  <2>4. \A j \in 1 .. Len(all) : some[j] = all[j]
    BY <1>6, <2>1, <2>3 DEF OpenSince
  <2> QED  BY ONLY <1>3, <2>2, <2>4
<1> QED  BY <1>5, <1>6

-----------------------------------------------------------------------------
(* The frames and the document *)

Quiet == {"skip", "readTextElement"}

(* Each frame reads its element as the tables say of its place in the         *)
(* document, and hands nothing on inside of what is skipped or is text.        *)
FramesRead ==
  \A k \in 1 .. Len(stack) :
    /\ stack[k].rule = Reading[stack[k].at].rule
    /\ stack[k].slot = Reading[stack[k].at].slot
    /\ stack[k].many = Reading[stack[k].at].many
    /\ stack[k].rule \in Quiet =>
         \A l \in 1 .. Len(stack) : l > k => stack[l].rule = "skip"

(* What readTextElement remembers is whether its own element has text.        *)
TextRead ==
  \A k \in 1 .. Len(stack) :
    stack[k].rule = "readTextElement" => (text <=> HasText(stack[k].at))

(* The elements that are read into a declaration: those of the element around *)
(* them, and those of a patch that has been read into it.                      *)
Kept(i) ==
  /\ Closed(i)
  /\ Reading[i].rule # "skip"
  /\ Reading[i].rule = "readTextElement" => HasText(i)

Into(i, of) ==
  \/ of = Parent(i)
  \/ /\ Closed(Parent(i)) /\ Reading[Parent(i)].rule = "parseSchemaPatch"
     /\ of = Parent(Parent(i))

Goes(i, of, slot) == Kept(i) /\ Into(i, of) /\ Reading[i].slot = slot

(* A field of one declaration holds the last of them.                         *)
Held(i, of, slot) ==
  /\ Goes(i, of, slot)
  /\ IsSingle(Reading[of].rule, slot) => \A j : Goes(j, of, slot) => j <= i

Increasing(s) == \A i, j \in 1 .. Len(s) : i < j => s[i] < s[j]

In(i, s) == \E j \in 1 .. Len(s) : s[j] = i

(* The fields hold what the closed elements say.                              *)
FieldsRead ==
  status # "failed" =>
    \A of, slot :
      /\ <<of, slot>> \in DOMAIN fields <=> \E i : Goes(i, of, slot)
      /\ \A i : In(i, Field(of, slot)) <=> Held(i, of, slot)
      /\ Increasing(Field(of, slot))

RInv == PInv /\ FramesRead /\ TextRead /\ FieldsRead

(* An element inside of another is read by the table of that one.             *)
LEMMA ReadingInside ==
  ASSUME doc \in Docs, NEW i \in 1 .. Size, IsStart(i), Len(doc.open[i]) > 1
  PROVE  Reading[i] = Handled(Reading[Parent(i)].rule, doc.tokens[i])
BY ReadingIs DEF ReadAs

(* The frames stand at elements that are open, in the order of the document.   *)
LEMMA FramesOpen ==
  ASSUME PInv, status # "failed"
  PROVE  /\ doc \in Docs /\ Size \in Nat /\ pos \in 0 .. Size
         /\ Len(stack) = Len(doc.open[pos]) /\ Len(stack) \in Nat
         /\ \A k \in 1 .. Len(stack) :
              /\ stack[k].at = doc.open[pos][k]
              /\ stack[k].at \in 1 .. pos /\ IsStart(stack[k].at)
              /\ Len(doc.open[stack[k].at]) = k
              /\ k > 1 => Parent(stack[k].at) = stack[k - 1].at
<1>1. doc \in Docs /\ pos \in 0 .. Size
  BY DEF PInv, ParserTypeOK, Size
<1>2. /\ Len(stack) \in Nat /\ Len(stack) = Len(doc.open[pos])
      /\ \A i \in 1 .. Len(stack) : stack[i].at = doc.open[pos][i]
  BY FramesNow
<1>3. ASSUME NEW k \in 1 .. Len(stack)
      PROVE  /\ stack[k].at \in 1 .. pos /\ IsStart(stack[k].at)
             /\ Len(doc.open[stack[k].at]) = k
             /\ k > 1 => Parent(stack[k].at) = stack[k - 1].at
  <2>1. k \in 1 .. Len(doc.open[pos])
    BY <1>2
  <2>2. /\ doc.open[pos][k] \in 1 .. pos /\ IsStart(doc.open[pos][k])
        /\ Len(doc.open[doc.open[pos][k]]) = k
        /\ k > 1 => Parent(doc.open[pos][k]) = doc.open[pos][k - 1]
    BY <1>1, <2>1, OpenAround
  <2>3. k > 1 => k - 1 \in 1 .. Len(stack)
    BY <1>2
  <2> QED  BY <1>2, <2>2, <2>3
<1> QED  BY <1>1, <1>2, <1>3, SizeIsNat

(* One more frame is that of the next element, read as its place says.         *)
LEMMA EnteredRead ==
  ASSUME PInv, FramesRead, Reads("start"), NEW c, Enter(c), doc' = doc,
         Len(stack) = 0 => c = Many(IF Token.xsd /\ Token.name = "schema"
                                    THEN "parseSchema" ELSE "skip", "none"),
         Len(stack) > 0 => c = Handled(Top.rule, Token)
  PROVE  FramesRead' /\ c = Reading[pos + 1]
<1>0. /\ status = "reading" /\ pos < Size /\ pos' = pos + 1 /\ Token.kind = "start"
      /\ Token = doc.tokens[pos + 1] /\ IsStart(pos + 1)
      /\ stack' = Append(stack, [rule |-> c.rule, slot |-> c.slot, many |-> c.many, at |-> pos + 1])
  BY DEF Reads, Size, Token, IsStart, Enter
<1>1. /\ doc \in Docs /\ Size \in Nat /\ pos \in 0 .. Size /\ pos \in Nat
      /\ Len(stack) = Len(doc.open[pos]) /\ Len(stack) \in Nat
      /\ \A k \in 1 .. Len(stack) : stack[k].at = doc.open[pos][k]
      /\ pos + 1 \in 1 .. Size
  <2>1. status # "failed"
    BY <1>0
  <2>2. /\ doc \in Docs /\ Size \in Nat /\ pos \in 0 .. Size
        /\ Len(stack) = Len(doc.open[pos]) /\ Len(stack) \in Nat
        /\ \A k \in 1 .. Len(stack) : stack[k].at = doc.open[pos][k]
    BY <2>1, FramesOpen
  <2> QED  BY <1>0, <2>2
<1> PICK n \in Nat : n = Len(stack)
  BY <1>1
<1> PICK frame : frame = [rule |-> c.rule, slot |-> c.slot, many |-> c.many, at |-> pos + 1]
  OBVIOUS
<1>2. /\ Len(doc.open[pos + 1]) = n + 1
      /\ \A k \in 1 .. n : doc.open[pos + 1][k] = doc.open[pos][k]
  <2>1. /\ Len(doc.open[pos + 1]) = Len(doc.open[pos]) + 1
        /\ \A k \in 1 .. Len(doc.open[pos + 1]) :
             k <= Len(doc.open[pos]) => doc.open[pos + 1][k] = doc.open[pos][k]
    BY <1>0, <1>1, OpenNext
  <2> QED  BY <1>1, <2>1
<1>3. /\ Len(stack') = n + 1 /\ stack'[n + 1] = frame
      /\ \A k \in 1 .. n : stack'[k] = stack[k]
  <2>1. stack \in Seq(Frame)
    BY DEF PInv, ParserTypeOK
  <2>2. stack' = Append(stack, frame) /\ stack \in Seq(Frame \cup {frame})
    BY <1>0, <2>1
  <2> QED  BY ONLY <2>2, n = Len(stack), frame \in Frame \cup {frame}, AppendProperties
<1>4. c = Reading[pos + 1]
  <2>1. Reading[pos + 1] = ReadAs(Reading, pos + 1)
    BY <1>1, ReadingIs
  <2>2. CASE n = 0
    BY <1>0, <1>2, <2>1, <2>2 DEF ReadAs, Skipped
  <2>3. CASE n > 0
    <3>1. n \in 1 .. n /\ (n + 1) - 1 = n /\ n + 1 > 1
      BY <2>3
    <3>2. Parent(pos + 1) = Top.at
      BY <1>1, <1>2, <3>1 DEF Parent, Top
    <3>3. Top.rule = Reading[Top.at].rule
      BY <3>1 DEF FramesRead, Top
    <3>4. Reading[pos + 1] = Handled(Reading[Parent(pos + 1)].rule, doc.tokens[pos + 1])
      BY <1>0, <1>2, <2>1, <3>1 DEF ReadAs
    <3> QED  BY <1>0, <2>3, <3>2, <3>3, <3>4
  <2> QED  BY <2>2, <2>3
<1>5. ASSUME NEW k \in 1 .. n, stack[k].rule \in Quiet PROVE c.rule = "skip"
  <2>1. n \in 1 .. n /\ n > 0
    OBVIOUS
  <2>2. Top.rule \in Quiet
    <3>1. k = n \/ k < n
      OBVIOUS
    <3>2. k < n => stack[n].rule = "skip"
      BY <1>5, <2>1 DEF FramesRead
    <3> QED  BY <1>5, <3>1, <3>2 DEF Top, Quiet
  <2>3. c = Handled(Top.rule, Token)
    BY <2>1
  <2> QED  BY <2>2, <2>3, PatchChildren DEF Quiet
<1>6. Reading' = Reading
  BY ReadingStays
<1>7. FramesRead'
  <2> SUFFICES ASSUME NEW k \in 1 .. n + 1
               PROVE  /\ stack'[k].rule = Reading[stack'[k].at].rule
                      /\ stack'[k].slot = Reading[stack'[k].at].slot
                      /\ stack'[k].many = Reading[stack'[k].at].many
                      /\ stack'[k].rule \in Quiet =>
                           \A l \in 1 .. n + 1 : l > k => stack'[l].rule = "skip"
    BY <1>3, <1>6 DEF FramesRead
  <2>1. CASE k = n + 1
    BY <1>3, <1>4, <2>1
  <2>2. CASE k # n + 1
    <3>1. k \in 1 .. n /\ stack'[k] = stack[k]
      BY <1>3, <2>2
    <3>2. ASSUME stack[k].rule \in Quiet, NEW l \in 1 .. n + 1, l > k PROVE stack'[l].rule = "skip"
      <4>1. CASE l = n + 1
        BY <1>3, <1>5, <3>1, <3>2, <4>1
      <4>2. CASE l # n + 1
        <5>1. l \in 1 .. n
          BY <4>2
        <5> QED  BY <1>3, <3>1, <3>2, <5>1 DEF FramesRead
      <4> QED  BY <4>1, <4>2
    <3> QED  BY <3>1, <3>2 DEF FramesRead
  <2> QED  BY <2>1, <2>2
<1> QED  BY <1>4, <1>7

(* A token that closes no element and is not text of a closed one changes      *)
(* nothing of what has been read.                                               *)
LEMMA GoesStays ==
  ASSUME doc \in Docs, pos \in Nat, pos < Size, doc' = doc, pos' = pos + 1,
         Token.kind = "end" => Len(doc.open[pos]) <= 1
  PROVE  \A i, of, slot : Goes(i, of, slot)' <=> Goes(i, of, slot)
<1>0. Reading' = Reading /\ \A i : Parent(i)' = Parent(i)
  BY ReadingStays
<1>1. ASSUME NEW i PROVE Closed(i)' <=> Closed(i)
  <2>1. WellFormed(doc) /\ pos \in 0 .. Len(doc.tokens)
    BY DocAssumption, SizeIsNat DEF Size
  <2>2. doc.open[pos] \in Seq(Nat \ {0})
    BY <2>1 DEF WellFormed
  <2>3. Len(doc.open[pos]) \in Nat
    BY <2>2
  <2>4. ~ (Token.kind = "end" /\ Len(doc.open[pos]) > 1)
    BY <2>3
  <2> QED  BY <2>4, ClosedNext
<1>2. ASSUME NEW i, Closed(i) PROVE HasText(i)' <=> HasText(i)
  <2>1. i \in 1 .. pos /\ IsStart(i) /\ \A k \in 1 .. Len(doc.open[pos]) : doc.open[pos][k] # i
    BY <1>2 DEF Closed
  <2>2. pos \in 0 .. Size /\ i \in 1 .. pos + 1
    BY <2>1, SizeIsNat
  <2>3. doc.open[pos] # doc.open[i]
    <3>1. Len(doc.open[pos]) \in Nat
      <4>1. WellFormed(doc)
        BY DocAssumption
      <4>2. doc.open[pos] \in Seq(Nat \ {0})
        BY <2>2, <4>1 DEF WellFormed, Size
      <4> QED  BY <4>2
    <3>2. Len(doc.open[pos]) > 0 => Len(doc.open[pos]) \in 1 .. Len(doc.open[pos])
      BY <3>1
    <3> QED  BY <2>1, <2>2, <3>2, InnermostOpen
  <2> QED  BY <2>2, <2>3, TextNext
<1>3. \A i : Kept(i)' <=> Kept(i)
  BY <1>0, <1>1, <1>2 DEF Kept
<1>4. \A i, of : Into(i, of)' <=> Into(i, of)
  BY <1>0, <1>1 DEF Into
<1> QED  BY <1>0, <1>3, <1>4 DEF Goes

(* As long as nothing else is read the fields hold what they held.              *)
LEMMA FieldsStay ==
  ASSUME FieldsRead, status' = status, fields' = fields, Reading' = Reading,
         \A i, of, slot : Goes(i, of, slot)' <=> Goes(i, of, slot)
  PROVE  FieldsRead'
<1>1. \A i, of, slot : Held(i, of, slot)' <=> Held(i, of, slot)
  BY DEF Held
<1>2. \A of, slot : Field(of, slot)' = Field(of, slot)
  BY DEF Field
<1> QED  BY <1>1, <1>2 DEF FieldsRead

(* A start tag closes nothing and its frame is that of its place.               *)
LEMMA EnterKeepsRead ==
  ASSUME RInv, ReadRoot \/ ReadStart
  PROVE  FramesRead' /\ TextRead' /\ FieldsRead'
<1> DEFINE c == IF Len(stack) = 0
                THEN Many(IF Token.xsd /\ Token.name = "schema"
                          THEN "parseSchema" ELSE "skip", "none")
                ELSE Handled(Top.rule, Token)
<1>0. /\ PInv /\ FramesRead /\ TextRead /\ FieldsRead
      /\ Reads("start") /\ doc' = doc /\ status' = status /\ fields' = fields
      /\ status = "reading" /\ pos < Size /\ pos' = pos + 1 /\ Token.kind = "start"
      /\ Token = doc.tokens[pos + 1] /\ stack \in Seq(Frame)
  BY DEF RInv, PInv, ParserTypeOK, ReadRoot, ReadStart, Reads, Size, Token
<1>1. doc \in Docs /\ pos \in Nat /\ Size \in Nat /\ Len(stack) \in Nat
      /\ \A k \in 1 .. Len(stack) : stack[k].at \in 1 .. pos
  <2>1. status # "failed"
    BY <1>0
  <2>2. /\ doc \in Docs /\ pos \in 0 .. Size /\ Size \in Nat /\ Len(stack) \in Nat
        /\ \A k \in 1 .. Len(stack) : stack[k].at \in 1 .. pos
    BY <1>0, <2>1, FramesOpen
  <2> QED  BY <2>2
<1>2. stack = << >> <=> Len(stack) = 0
  BY <1>0
<1>3. /\ Enter(c)
      /\ text' = text \/ (text' <=> (c.rule # "readTextElement" /\ text))
      /\ c.rule = "readTextElement" => (text' <=> (c.rule # "readTextElement" /\ text))
  <2>1. CASE ReadRoot
    <3>1. c.rule # "readTextElement"
      BY <1>2, <2>1 DEF ReadRoot, Many
    <3> QED  BY <1>2, <2>1, <3>1 DEF ReadRoot
  <2>2. CASE ReadStart
    BY <1>2, <2>2 DEF ReadStart
  <2> QED  BY <2>1, <2>2
<1> HIDE DEF c
<1>4. /\ Len(stack) = 0 => c = Many(IF Token.xsd /\ Token.name = "schema"
                                    THEN "parseSchema" ELSE "skip", "none")
      /\ Len(stack) > 0 => c = Handled(Top.rule, Token)
  BY <1>1 DEF c
<1>5. FramesRead' /\ c = Reading[pos + 1]
  BY <1>0, <1>3, <1>4, EnteredRead
<1> PICK n \in Nat : n = Len(stack)
  BY <1>1
<1> PICK frame : frame = [rule |-> c.rule, slot |-> c.slot, many |-> c.many, at |-> pos + 1]
  OBVIOUS
<1>6. /\ Len(stack') = n + 1 /\ stack'[n + 1] = frame
      /\ \A k \in 1 .. n : stack'[k] = stack[k]
  <2>1. stack' = Append(stack, frame) /\ stack \in Seq(Frame \cup {frame})
    BY <1>0, <1>3 DEF Enter
  <2> QED  BY ONLY <2>1, n = Len(stack), frame \in Frame \cup {frame}, AppendProperties
<1>7. \A i \in 1 .. pos + 1 : HasText(i)' <=> HasText(i)
  BY <1>0, <1>1, TextNext
<1>8. TextRead'
  <2> SUFFICES ASSUME NEW k \in 1 .. n + 1, stack'[k].rule = "readTextElement",
                      NEW i, i = stack'[k].at
               PROVE  text' <=> HasText(i)'
    BY <1>6 DEF TextRead
  <2>1. CASE k = n + 1
    <3>1. c.rule = "readTextElement" /\ i = pos + 1
      BY <1>6, <2>1
    <3>2. ~ text'
      BY <1>3, <3>1
    <3>3. ~ HasText(i)
      BY <1>1, <3>1 DEF HasText
    <3>4. i \in 1 .. pos + 1
      BY <1>1, <3>1
    <3>5. ~ HasText(i)'
      BY <1>7, <3>3, <3>4
    <3> QED  BY <3>2, <3>5
  <2>2. CASE k # n + 1
    <3>1. k \in 1 .. n /\ stack'[k] = stack[k] /\ k < n + 1
      BY <1>6, <2>2
    <3>2. c.rule = "skip"
      <4>1. stack'[k].rule \in Quiet /\ n + 1 \in 1 .. n + 1
        BY DEF Quiet
      <4>2. stack'[n + 1].rule = "skip"
        BY <1>5, <1>6, <3>1, <4>1 DEF FramesRead
      <4> QED  BY <1>6, <4>2
    <3>3. text' <=> text
      BY <1>3, <3>2
    <3>4. text <=> HasText(i)
      BY <1>0, <3>1 DEF TextRead
    <3>5. i \in 1 .. pos + 1
      BY <1>1, <3>1
    <3>6. HasText(i)' <=> HasText(i)
      BY <1>7, <3>5
    <3> QED  BY <3>3, <3>4, <3>6
  <2> QED  BY <2>1, <2>2
<1>9. FieldsRead'
  <2>1. \A i, of, slot : Goes(i, of, slot)' <=> Goes(i, of, slot)
    BY <1>0, <1>1, GoesStays
  <2>2. Reading' = Reading
    BY <1>0, ReadingStays
  <2> QED  BY <1>0, <2>1, <2>2, FieldsStay
<1> QED  BY <1>5, <1>8, <1>9

(* The text of an element that is read for its text is its own.                *)
LEMMA OtherKeepsRead ==
  ASSUME RInv, ReadText \/ ReadBlank
  PROVE  FramesRead' /\ TextRead' /\ FieldsRead'
<1>0. /\ PInv /\ FramesRead /\ TextRead /\ FieldsRead
      /\ doc' = doc /\ status' = status /\ fields' = fields /\ stack' = stack
      /\ status = "reading" /\ pos < Size /\ pos' = pos + 1 /\ Token.kind \in {"text", "blank"}
      /\ stack \in Seq(Frame) /\ text \in BOOLEAN
  BY DEF RInv, PInv, ParserTypeOK, ReadText, ReadBlank, Reads, Size, Token
<1>1. /\ doc \in Docs /\ pos \in 0 .. Size /\ pos \in Nat /\ Size \in Nat
      /\ Len(stack) = Len(doc.open[pos]) /\ Len(stack) \in Nat
      /\ \A k \in 1 .. Len(stack) : /\ stack[k].at = doc.open[pos][k]
                                    /\ stack[k].at \in 1 .. pos /\ IsStart(stack[k].at)
                                    /\ Len(doc.open[stack[k].at]) = k
  <2>1. status # "failed"
    BY <1>0
  <2>2. /\ doc \in Docs /\ pos \in 0 .. Size /\ Size \in Nat
        /\ Len(stack) = Len(doc.open[pos]) /\ Len(stack) \in Nat
        /\ \A k \in 1 .. Len(stack) : /\ stack[k].at = doc.open[pos][k]
                                      /\ stack[k].at \in 1 .. pos /\ IsStart(stack[k].at)
                                      /\ Len(doc.open[stack[k].at]) = k
    BY <1>0, <2>1, FramesOpen
  <2> QED  BY <2>2
<1>2. Reading' = Reading
  BY <1>0, ReadingStays
<1>3. FramesRead'
  BY <1>0, <1>2 DEF FramesRead
<1>4. FieldsRead'
  <2>1. \A i, of, slot : Goes(i, of, slot)' <=> Goes(i, of, slot)
    BY <1>0, <1>1, GoesStays
  <2> QED  BY <1>0, <1>2, <2>1, FieldsStay
<1>5. TextRead'
  <2> SUFFICES ASSUME NEW k \in 1 .. Len(stack), stack[k].rule = "readTextElement",
                      NEW i, i = stack[k].at
               PROVE  text' <=> HasText(i)'
    BY <1>0 DEF TextRead
  <2>1. text <=> HasText(i)
    BY <1>0 DEF TextRead
  <2>2. HasText(i)' <=> HasText(i) \/ (Token.kind = "text" /\ doc.open[pos] = doc.open[i])
    <3>1. i \in 1 .. pos + 1
      BY <1>1
    <3> QED  BY <1>0, <1>1, <3>1, TextNext
  <2>3. doc.open[pos] = doc.open[i] <=> k = Len(stack)
    <3>1. doc.open[pos] = doc.open[i] => k = Len(stack)
      BY <1>1
    <3>2. k = Len(stack) => doc.open[pos] = doc.open[i]
      BY <1>1, InnermostOpen
    <3> QED  BY <3>1, <3>2
  <2>4. Top.rule = "readTextElement" <=> k = Len(stack)
    <3>1. Len(stack) \in 1 .. Len(stack) /\ (k = Len(stack) \/ k < Len(stack))
      BY <1>1
    <3>2. k < Len(stack) => stack[Len(stack)].rule = "skip"
      BY <1>0, <3>1 DEF FramesRead, Quiet
    <3> QED  BY <3>1, <3>2 DEF Top
  <2>5. text' <=> text \/ (Token.kind = "text" /\ Top.rule = "readTextElement")
    <3>1. stack # << >>
      BY <1>1
    <3>2. CASE ReadText
      BY <3>1, <3>2 DEF ReadText, Reads
    <3>3. CASE ReadBlank
      BY <3>3 DEF ReadBlank, Reads
    <3> QED  BY <3>2, <3>3
  <2> QED  BY <2>1, <2>2, <2>3, <2>4, <2>5
<1> QED  BY <1>3, <1>4, <1>5

-----------------------------------------------------------------------------
(* A function returns *)

(* What a declaration holds is inside of it.                                   *)
LEMMA GoesInside ==
  ASSUME doc \in Docs, pos \in 0 .. Size, NEW i, NEW of, NEW slot, Goes(i, of, slot)
  PROVE  /\ i \in 1 .. pos /\ IsStart(i) /\ Len(doc.open[i]) > 1
         /\ of \in Nat /\ of < i
         /\ \A k \in 1 .. Len(doc.open[pos]) :
              /\ doc.open[pos][k] # i
              /\ doc.open[pos][k] < i => of >= doc.open[pos][k]
<1>1. /\ i \in 1 .. pos /\ IsStart(i) /\ Len(doc.open[i]) > 1
      /\ \A k \in 1 .. Len(doc.open[pos]) : doc.open[pos][k] # i
  BY DEF Goes, Kept, Closed
<1>2. i \in 1 .. Size /\ Size \in Nat
  BY <1>1, SizeIsNat
<1> PICK p : p = Parent(i)
  OBVIOUS
<1>3. p \in 1 .. (i - 1) /\ IsStart(p)
  BY <1>1, <1>2, StartIsOpen
<1>4. \A k \in 1 .. Len(doc.open[pos]) : doc.open[pos][k] < i => p >= doc.open[pos][k]
  BY <1>1, InsideOfOpen
<1>5. CASE of = p
  BY <1>1, <1>3, <1>4, <1>5
<1>6. CASE Closed(p) /\ of = Parent(p)
  <2>1. /\ p \in 1 .. pos /\ Len(doc.open[p]) > 1
        /\ \A k \in 1 .. Len(doc.open[pos]) : doc.open[pos][k] # p
    BY <1>6 DEF Closed
  <2>2. p \in 1 .. Size
    BY <1>2, <1>3
  <2>3. of \in 1 .. (p - 1)
    BY <1>3, <1>6, <2>1, <2>2, StartIsOpen
  <2>4. ASSUME NEW k \in 1 .. Len(doc.open[pos]), doc.open[pos][k] < i
        PROVE  of >= doc.open[pos][k]
    <3>1. doc.open[pos][k] \in 1 .. pos /\ doc.open[pos][k] # p /\ p >= doc.open[pos][k]
      BY <1>4, <2>1, <2>4, OpenAround
    <3>2. doc.open[pos][k] < p
      BY <1>3, <3>1
    <3> QED  BY <1>3, <1>6, <2>1, <3>2, InsideOfOpen
  <2> QED  BY <1>1, <1>3, <2>3, <2>4
<1> QED  BY <1>5, <1>6 DEF Goes, Into

(* All that goes into one field goes there in the same way.                    *)
LEMMA GoesMode ==
  ASSUME doc \in Docs, pos \in 0 .. Size, NEW i, NEW of, NEW slot, Goes(i, of, slot)
  PROVE  Reading[i].many <=> ~ IsSingle(Reading[of].rule, slot)
<1>1. /\ i \in 1 .. pos /\ IsStart(i) /\ Len(doc.open[i]) > 1 /\ Reading[i].slot = slot
  BY DEF Goes, Kept, Closed
<1>2. i \in 1 .. Size /\ Size \in Nat
  BY <1>1, SizeIsNat
<1> PICK p : p = Parent(i)
  OBVIOUS
<1>3. Reading[i] = Handled(Reading[p].rule, doc.tokens[i])
  BY <1>1, <1>2, ReadingInside
<1>4. Reading[i].many <=> ~ IsSingle(Reading[p].rule, slot)
  BY <1>1, <1>3, HandledMode
<1>5. CASE of = p
  BY <1>4, <1>5
<1>6. CASE Closed(p) /\ Reading[p].rule = "parseSchemaPatch" /\ of = Parent(p)
  <2>1. p \in 1 .. Size /\ IsStart(p) /\ Len(doc.open[p]) > 1
    BY <1>2, <1>6 DEF Closed
  <2>2. Reading[p] = Handled(Reading[of].rule, doc.tokens[p])
    BY <1>6, <2>1, ReadingInside
  <2>3. Reading[of].rule = "parseSchema"
    BY <1>6, <2>2, PatchChildren
  <2>4. Reading[p].rule # "parseGroup" /\ Reading[of].rule # "parseGroup"
    BY <1>6, <2>3
  <2>5. IsSingle(Reading[p].rule, slot) <=> IsSingle(Reading[of].rule, slot)
    BY <2>4 DEF IsSingle
  <2> QED  BY <1>4, <2>5
<1> QED  BY <1>5, <1>6 DEF Goes, Into

(* A patch holds no patch: what is read into one is right inside of it.        *)
LEMMA IntoPatch ==
  ASSUME doc \in Docs, pos \in 0 .. Size, NEW i, NEW t, Reading[t].rule = "parseSchemaPatch"
  PROVE  Into(i, t) <=> t = Parent(i)
<1> SUFFICES ASSUME Closed(Parent(i)), Reading[Parent(i)].rule = "parseSchemaPatch",
                    t = Parent(Parent(i))
             PROVE  FALSE
  BY DEF Into
<1> PICK p : p = Parent(i)
  OBVIOUS
<1>1. p \in 1 .. Size /\ IsStart(p) /\ Len(doc.open[p]) > 1
  BY SizeIsNat DEF Closed
<1>2. Reading[p] = Handled(Reading[t].rule, doc.tokens[p])
  BY <1>1, ReadingInside
<1>3. Handled(Reading[t].rule, doc.tokens[p]).rule = "parseSchemaPatch"
  BY <1>2
<1> QED  BY <1>3, PatchChildren

(* The frame that returns is read into that of its caller, and a patch into    *)
(* the file.                                                                    *)
Stores == Len(stack) > 1 /\ Top.rule # "skip" /\ (Top.rule = "readTextElement" => text)

(* Where the two frames stand.                                                  *)
LEMMA ReturningFrame ==
  ASSUME PInv, FramesRead, TextRead, status # "failed", Len(stack) > 0
  PROVE  /\ doc \in Docs /\ pos \in 0 .. Size /\ Size \in Nat
         /\ Len(stack) = Len(doc.open[pos]) /\ Len(stack) \in Nat \ {0}
         /\ Top.at = doc.open[pos][Len(stack)]
         /\ Top.at \in 1 .. pos /\ IsStart(Top.at) /\ Len(doc.open[Top.at]) = Len(stack)
         /\ Top.rule = Reading[Top.at].rule /\ Top.slot = Reading[Top.at].slot
         /\ Top.many = Reading[Top.at].many
         /\ Top.rule = "readTextElement" => (text <=> HasText(Top.at))
         /\ Len(stack) > 1 =>
              /\ Caller.at = Parent(Top.at) /\ Caller.at = doc.open[pos][Len(stack) - 1]
              /\ Caller.at \in 1 .. pos /\ Caller.at < Top.at
              /\ Reading[Top.at] = Handled(Reading[Caller.at].rule, doc.tokens[Top.at])
<1>1. /\ doc \in Docs /\ Size \in Nat /\ pos \in 0 .. Size
      /\ Len(stack) = Len(doc.open[pos]) /\ Len(stack) \in Nat
      /\ \A k \in 1 .. Len(stack) :
           /\ stack[k].at = doc.open[pos][k]
           /\ stack[k].at \in 1 .. pos /\ IsStart(stack[k].at)
           /\ Len(doc.open[stack[k].at]) = k
           /\ k > 1 => Parent(stack[k].at) = stack[k - 1].at
  BY FramesOpen
<1>2. Len(stack) \in 1 .. Len(stack)
  BY <1>1
<1>3. Len(stack) > 1 => Len(stack) - 1 \in 1 .. Len(stack)
  BY <1>1
<1>4. /\ Top.at = doc.open[pos][Len(stack)]
      /\ Top.at \in 1 .. pos /\ IsStart(Top.at) /\ Len(doc.open[Top.at]) = Len(stack)
      /\ Top.rule = Reading[Top.at].rule /\ Top.slot = Reading[Top.at].slot
      /\ Top.many = Reading[Top.at].many
      /\ Top.rule = "readTextElement" => (text <=> HasText(Top.at))
  BY <1>1, <1>2 DEF FramesRead, TextRead, Top
<1>5. ASSUME Len(stack) > 1
      PROVE  /\ Caller.at = Parent(Top.at) /\ Caller.at = doc.open[pos][Len(stack) - 1]
             /\ Caller.at \in 1 .. pos /\ Caller.at < Top.at
             /\ Reading[Top.at] = Handled(Reading[Caller.at].rule, doc.tokens[Top.at])
  <2>1. Caller.at = Parent(Top.at) /\ Caller.at = doc.open[pos][Len(stack) - 1] /\ Caller.at \in 1 .. pos
    BY <1>1, <1>2, <1>3, <1>5 DEF Top, Caller
  <2>2. Top.at \in 1 .. Size
    BY <1>1, <1>4
  <2>3. Parent(Top.at) \in 1 .. (Top.at - 1)
    BY <1>1, <1>4, <1>5, <2>2, StartIsOpen
  <2>4. Reading[Top.at] = Handled(Reading[Caller.at].rule, doc.tokens[Top.at])
    BY <1>1, <1>4, <1>5, <2>1, <2>2, ReadingInside
  <2>5. Top.at \in Nat
    BY <2>2
  <2> QED  BY <2>1, <2>3, <2>4, <2>5
<1> QED  BY <1>1, <1>4, <1>5

(* What has been read grows by the frame that returns, and for a patch by what *)
(* it holds.                                                                    *)
LEMMA GoesEnd ==
  ASSUME PInv, FramesRead, TextRead, ReadEnd, NEW i, NEW of, NEW slot
  PROVE  Goes(i, of, slot)' <=>
           \/ Goes(i, of, slot)
           \/ Stores /\ i = Top.at /\ of = Caller.at /\ slot = Top.slot
           \/ Stores /\ Top.rule = "parseSchemaPatch" /\ of = Caller.at /\ Goes(i, Top.at, slot)
<1> PICK t, c : t = Top.at /\ c = Caller.at
  OBVIOUS
<1>0. /\ status = "reading" /\ pos < Size /\ Token.kind = "end" /\ pos' = pos + 1 /\ doc' = doc
      /\ stack \in Seq(Frame) /\ stack # << >> /\ text \in BOOLEAN
  BY DEF PInv, ParserTypeOK, ReadEnd, Reads, Size
<1>1. /\ doc \in Docs /\ pos \in 0 .. Size /\ pos \in Nat /\ Size \in Nat
      /\ Len(stack) = Len(doc.open[pos]) /\ Len(stack) \in Nat \ {0}
      /\ t = doc.open[pos][Len(stack)]
      /\ t \in 1 .. pos /\ IsStart(t) /\ Len(doc.open[t]) = Len(stack)
      /\ Top.rule = Reading[t].rule /\ Top.slot = Reading[t].slot
      /\ Top.many = Reading[t].many
      /\ Top.rule = "readTextElement" => (text <=> HasText(t))
      /\ Len(stack) > 1 =>
              /\ c = Parent(t) /\ c = doc.open[pos][Len(stack) - 1]
              /\ c \in 1 .. pos /\ c < t
              /\ Reading[t] = Handled(Reading[c].rule, doc.tokens[t])
  <2>1. status # "failed" /\ Len(stack) > 0
    BY <1>0
  <2>2. pos \in Nat
    BY DEF PInv, ParserTypeOK
  <2> QED  BY <2>1, <2>2, ReturningFrame
<1>2. \A j : Closed(j)' <=> Closed(j) \/ (Len(stack) > 1 /\ j = t)
  BY <1>0, <1>1, ClosedNext
<1>3. ~ Closed(t) /\ (Len(stack) > 1 => ~ Closed(c))
  <2>1. Len(stack) \in 1 .. Len(stack) /\ (Len(stack) > 1 => Len(stack) - 1 \in 1 .. Len(stack))
    BY <1>1
  <2> QED  BY <1>1, <2>1 DEF Closed
<1>4. Reading' = Reading /\ \A j : Parent(j)' = Parent(j)
  BY <1>0, ReadingStays
<1>5. \A j \in 1 .. pos : HasText(j)' <=> HasText(j)
  <2>1. \A j \in 1 .. pos : j \in 1 .. pos + 1
    BY <1>1
  <2> QED  BY <1>0, <1>1, <2>1, TextNext
<1>6. \A j : Kept(j)' <=> Kept(j) \/ (Stores /\ j = t)
  <2> TAKE j
  <2>1. CASE j = t
    <3>1. HasText(t)' <=> HasText(t)
      BY <1>1, <1>5
    <3>2. Kept(t)' <=> /\ Len(stack) > 1 /\ Reading[t].rule # "skip"
                       /\ Reading[t].rule = "readTextElement" => HasText(t)
      BY <1>2, <1>3, <1>4, <3>1 DEF Kept
    <3>3. Kept(t)' <=> Stores
      BY <1>1, <3>2 DEF Stores
    <3> QED  BY <1>3, <2>1, <3>3 DEF Kept
  <2>2. CASE j # t
    <3>1. Closed(j)' <=> Closed(j)
      BY <1>2, <2>2
    <3>2. Closed(j) => (HasText(j)' <=> HasText(j))
      BY <1>5 DEF Closed
    <3> QED  BY <1>4, <2>2, <3>1, <3>2 DEF Kept
  <2> QED  BY <2>1, <2>2
<1>7. Into(i, of)' <=>
        \/ Into(i, of)
        \/ /\ Len(stack) > 1 /\ Parent(i) = t /\ Top.rule = "parseSchemaPatch" /\ of = c
  <2>1. Into(i, of)' <=> \/ of = Parent(i)
                         \/ /\ Closed(Parent(i)) \/ (Len(stack) > 1 /\ Parent(i) = t)
                            /\ Reading[Parent(i)].rule = "parseSchemaPatch"
                            /\ of = Parent(Parent(i))
    BY <1>2, <1>4 DEF Into
  <2>2. Len(stack) > 1 /\ Parent(i) = t =>
          /\ Reading[Parent(i)].rule = "parseSchemaPatch" <=> Top.rule = "parseSchemaPatch"
          /\ Parent(Parent(i)) = c
    BY <1>1
  <2> QED  BY <2>1, <2>2 DEF Into
<1>8. ASSUME i = t, Stores PROVE Into(i, of)' <=> of = c
  <2>1. Parent(i) = c /\ ~ Closed(c) /\ c # t
    BY <1>1, <1>3, <1>8 DEF Stores
  <2> QED  BY <1>7, <2>1 DEF Into
<1>9. Top.rule = "parseSchemaPatch" => (Into(i, t) <=> t = Parent(i))
  BY <1>1, IntoPatch
<1>10. Top.rule = "parseSchemaPatch" /\ Len(stack) > 1 => Stores
  BY DEF Stores
<1>11. Stores => Len(stack) > 1
  BY DEF Stores
<1>12. Goes(i, of, slot)' <=> Kept(i)' /\ Into(i, of)' /\ Reading[i].slot = slot
  BY <1>4 DEF Goes
<1>13. CASE i = t /\ Stores
  <2>1. ~ Kept(i)
    BY <1>3, <1>13 DEF Kept
  <2> QED  BY <1>1, <1>6, <1>8, <1>12, <1>13, <2>1 DEF Goes
<1>14. CASE ~ (i = t /\ Stores)
  <2>1. Kept(i)' <=> Kept(i)
    BY <1>6, <1>14
  <2>2. CASE Top.rule = "parseSchemaPatch" /\ Len(stack) > 1
    <3>1. Stores
      BY <1>10, <2>2
    <3>2. Into(i, of)' <=> Into(i, of) \/ (Parent(i) = t /\ of = c)
      BY <1>7, <2>2
    <3>3. Goes(i, t, slot) <=> Kept(i) /\ Parent(i) = t /\ Reading[i].slot = slot
      BY <1>9, <2>2 DEF Goes
    <3> QED  BY <1>12, <1>14, <2>1, <2>2, <3>1, <3>2, <3>3 DEF Goes
  <2>3. CASE ~ (Top.rule = "parseSchemaPatch" /\ Len(stack) > 1)
    <3>1. Into(i, of)' <=> Into(i, of)
      BY <1>7, <2>3
    <3> QED  BY <1>11, <1>12, <1>14, <2>1, <2>3, <3>1 DEF Goes
  <2> QED  BY <2>2, <2>3
<1> QED  BY <1>13, <1>14

(* A field in a record of fields, empty if it is not there.                     *)
FieldIn(f, of, slot) == IF <<of, slot>> \in DOMAIN f THEN f[<<of, slot>>] ELSE << >>

(* One field has another value, the others are as they were.                    *)
LEMMA WithFieldIs ==
  ASSUME NEW o, NEW s, NEW value, NEW of, NEW slot
  PROVE  /\ <<of, slot>> \in DOMAIN WithField(o, s, value) <=>
              <<of, slot>> \in DOMAIN fields \/ (of = o /\ slot = s)
         /\ FieldIn(WithField(o, s, value), of, slot)
              = IF of = o /\ slot = s THEN value ELSE Field(of, slot)
<1> PICK g : g = WithField(o, s, value)
  OBVIOUS
<1>1. g = [key \in DOMAIN fields \cup {<<o, s>>} |-> IF key = <<o, s>> THEN value ELSE fields[key]]
  BY DEF WithField
<1>2. <<of, slot>> = <<o, s>> <=> of = o /\ slot = s
  OBVIOUS
<1>3. <<of, slot>> \in DOMAIN g <=> <<of, slot>> \in DOMAIN fields \/ (of = o /\ slot = s)
  BY <1>1, <1>2
<1>4. <<of, slot>> \in DOMAIN g =>
        g[<<of, slot>>] = IF of = o /\ slot = s THEN value ELSE fields[<<of, slot>>]
  BY <1>1, <1>2
<1> QED  BY <1>3, <1>4 DEF FieldIn, Field

(* A record with the fields of the one at a place joined to those of another.   *)
IsSpread(g, into, at, o, of, slot) ==
  LET spreads == of = o /\ <<at, slot>> \in DOMAIN fields
  IN  /\ <<of, slot>> \in DOMAIN g <=> <<of, slot>> \in DOMAIN into \/ spreads
      /\ FieldIn(g, of, slot) = IF spreads THEN Field(o, slot) \o Field(at, slot)
                               ELSE FieldIn(into, of, slot)

(* The fields of a patch are joined to those of the file.                       *)
LEMMA SpreadIs ==
  ASSUME DOMAIN fields \subseteq (Nat \ {0}) \X Slot, NEW into, NEW frame, NEW o, NEW of, NEW slot
  PROVE  IsSpread(Spread(into, frame, o), into, frame.at, o, of, slot)
<1> DEFINE declares(s) == <<frame.at, s>> \in DOMAIN fields
           added == {<<o, s>> : s \in {x \in Slot : declares(x)}}
<1> PICK g : g = Spread(into, frame, o)
  OBVIOUS
<1>1. g = [k \in DOMAIN into \cup added |->
             IF k[1] = o /\ declares(k[2]) THEN Field(o, k[2]) \o Field(frame.at, k[2]) ELSE into[k]]
  BY DEF Spread
<1>2. <<of, slot>> \in added <=> of = o /\ declares(slot)
  <2>1. declares(slot) => slot \in Slot
    OBVIOUS
  <2> HIDE DEF declares
  <2> QED  BY <2>1
<1> PICK key : key = <<of, slot>>
  OBVIOUS
<1>3. key[1] = of /\ key[2] = slot
  OBVIOUS
<1> PICK joined : joined = Field(o, slot) \o Field(frame.at, slot)
  OBVIOUS
<1> HIDE DEF declares, added
<1>4. key \in DOMAIN g <=> key \in DOMAIN into \/ (of = o /\ declares(slot))
  BY <1>1, <1>2
<1>5. key \in DOMAIN g => g[key] = IF of = o /\ declares(slot) THEN joined ELSE into[key]
  BY <1>1, <1>3
<1> QED  BY <1>4, <1>5 DEF IsSpread, FieldIn, declares

(* What is joined in order stays in order.                                      *)
LEMMA JoinedInOrder ==
  ASSUME NEW s \in Seq(Nat \ {0}), NEW t \in Seq(Nat \ {0}), Increasing(s), Increasing(t),
         \A i, j : In(i, s) /\ In(j, t) => i < j
  PROVE  /\ Increasing(s \o t)
         /\ \A i : In(i, s \o t) <=> In(i, s) \/ In(i, t)
<1> PICK u : u = s \o t
  OBVIOUS
<1> PICK a \in Nat, b \in Nat : a = Len(s) /\ b = Len(t)
  OBVIOUS
<1>1. /\ Len(u) = a + b
      /\ \A i \in 1 .. a : u[i] = s[i]
      /\ \A i \in 1 .. b : u[a + i] = t[i]
  BY ConcatProperties
<1>2. \A n \in 1 .. a + b : n \in 1 .. a \/ (n - a \in 1 .. b /\ n = a + (n - a))
  OBVIOUS
<1>3. \A n \in 1 .. a : n \in 1 .. a + b
  OBVIOUS
<1>4. \A n \in 1 .. b : a + n \in 1 .. a + b
  OBVIOUS
<1>5. ASSUME NEW i, NEW j, i \in 1 .. a + b, j \in 1 .. a + b, i < j PROVE u[i] < u[j]
  <2>1. CASE j \in 1 .. a
    <3>1. i \in 1 .. a
      BY <1>5, <2>1
    <3>2. s[i] < s[j]
      BY <1>5, <2>1, <3>1 DEF Increasing
    <3> QED  BY <1>1, <2>1, <3>1, <3>2
  <2>2. CASE i \in 1 .. a /\ j \notin 1 .. a
    <3>1. j - a \in 1 .. b /\ u[j] = t[j - a] /\ u[i] = s[i]
      BY <1>1, <1>2, <1>5, <2>2
    <3>2. In(s[i], s) /\ In(t[j - a], t)
      BY <2>2, <3>1 DEF In
    <3> QED  BY <3>1, <3>2
  <2>3. CASE i \notin 1 .. a /\ j \notin 1 .. a
    <3>1. i - a \in 1 .. b /\ j - a \in 1 .. b /\ i - a < j - a
      BY <1>2, <1>5, <2>3
    <3>2. u[i] = t[i - a] /\ u[j] = t[j - a]
      BY <1>1, <1>2, <1>5, <2>3
    <3>3. t[i - a] < t[j - a]
      BY <3>1 DEF Increasing
    <3> QED  BY <3>2, <3>3
  <2> QED  BY <2>1, <2>2, <2>3
<1>6. ASSUME NEW i PROVE In(i, u) <=> In(i, s) \/ In(i, t)
  <2>1. ASSUME In(i, s) PROVE In(i, u)
    <3>1. PICK n \in 1 .. a : s[n] = i
      BY <2>1 DEF In
    <3> QED  BY <1>1, <1>3, <3>1 DEF In
  <2>2. ASSUME In(i, t) PROVE In(i, u)
    <3>1. PICK n \in 1 .. b : t[n] = i
      BY <2>2 DEF In
    <3>2. a + n \in 1 .. a + b /\ u[a + n] = i
      BY <1>1, <1>4, <3>1
    <3> QED  BY <1>1, <3>2 DEF In
  <2>3. ASSUME In(i, u) PROVE In(i, s) \/ In(i, t)
    <3>1. PICK n \in 1 .. a + b : u[n] = i
      BY <1>1, <2>3 DEF In
    <3>2. CASE n \in 1 .. a
      BY <1>1, <3>1, <3>2 DEF In
    <3>3. CASE n - a \in 1 .. b /\ n = a + (n - a)
      <4>1. t[n - a] = i
        BY <1>1, <3>1, <3>3
      <4> QED  BY <3>3, <4>1 DEF In
    <3> QED  BY <1>2, <3>2, <3>3
  <2> QED  BY <2>1, <2>2, <2>3
<1>7. Increasing(u)
  BY <1>1, <1>5 DEF Increasing
<1> QED  BY <1>6, <1>7

(* One declaration is in order.                                                 *)
LEMMA OneInOrder ==
  ASSUME NEW e \in Nat \ {0}
  PROVE  /\ <<e>> \in Seq(Nat \ {0}) /\ Increasing(<<e>>)
         /\ \A i : In(i, <<e>>) <=> i = e
<1>1. <<e>> \in Seq(Nat \ {0}) /\ Len(<<e>>) = 1 /\ <<e>>[1] = e
  OBVIOUS
<1>2. \A i : i \in 1 .. 1 <=> i = 1
  OBVIOUS
<1> QED  BY <1>1, <1>2 DEF Increasing, In

(* What one field holds is what goes there.                                     *)
KeyRead(of, slot) ==
  /\ <<of, slot>> \in DOMAIN fields <=> \E i : Goes(i, of, slot)
  /\ \A i : In(i, Field(of, slot)) <=> Held(i, of, slot)
  /\ Increasing(Field(of, slot))

(* If nothing more goes there it is as before.                                  *)
LEMMA KeyStays ==
  ASSUME NEW of, NEW slot, KeyRead(of, slot), Reading' = Reading,
         <<of, slot>> \in DOMAIN fields' <=> <<of, slot>> \in DOMAIN fields,
         FieldIn(fields', of, slot) = Field(of, slot),
         \A i : Goes(i, of, slot)' <=> Goes(i, of, slot)
  PROVE  KeyRead(of, slot)'
<1>1. \A i : Held(i, of, slot)' <=> Held(i, of, slot)
  BY DEF Held
<1>2. Field(of, slot)' = Field(of, slot)
  BY DEF Field, FieldIn
<1> QED  BY <1>1, <1>2 DEF KeyRead

(* One more declaration, behind those that are there or in their place.         *)
LEMMA KeyGrows ==
  ASSUME NEW of, NEW slot, KeyRead(of, slot), Reading' = Reading,
         Field(of, slot) \in Seq(Nat \ {0}), NEW t \in Nat \ {0},
         <<of, slot>> \in DOMAIN fields',
         FieldIn(fields', of, slot) = IF IsSingle(Reading[of].rule, slot) THEN <<t>>
                                      ELSE Append(Field(of, slot), t),
         \A i : Goes(i, of, slot)' <=> Goes(i, of, slot) \/ i = t,
         \A i : Goes(i, of, slot) => i \in Nat /\ i < t
  PROVE  KeyRead(of, slot)'
<1> PICK old, new : old = Field(of, slot) /\ new = FieldIn(fields', of, slot)
  OBVIOUS
<1>1. Field(of, slot)' = new
  BY DEF Field, FieldIn
<1>2. /\ <<t>> \in Seq(Nat \ {0}) /\ Increasing(<<t>>)
      /\ \A i : In(i, <<t>>) <=> i = t
  BY OneInOrder
<1>3. Increasing(old) /\ \A i : In(i, old) <=> Held(i, of, slot)
  BY DEF KeyRead
<1>4. CASE IsSingle(Reading[of].rule, slot)
  <2>1. \A i : Held(i, of, slot)' <=> i = t
    <3> TAKE i
    <3>1. Held(i, of, slot)' <=> /\ Goes(i, of, slot) \/ i = t
                                 /\ \A j : Goes(j, of, slot) \/ j = t => j <= i
      BY <1>4 DEF Held
    <3>2. Goes(i, of, slot) => ~ (t <= i)
      <4>1. ASSUME Goes(i, of, slot) PROVE ~ (t <= i)
        <5>1. i \in Nat /\ i < t
          BY <4>1
        <5> QED  BY <5>1
      <4> QED  BY <4>1
    <3>3. i = t => \A j : Goes(j, of, slot) \/ j = t => j <= i
      <4>1. \A j : Goes(j, of, slot) \/ j = t => j \in Nat /\ (j < t \/ j = t)
        OBVIOUS
      <4>2. \A j \in Nat : j < t \/ j = t => j <= t
        OBVIOUS
      <4> QED  BY <4>1, <4>2
    <3> QED  BY <3>1, <3>2, <3>3
  <2>2. new = <<t>>
    BY <1>4
  <2> QED  BY <1>1, <1>2, <2>1, <2>2 DEF KeyRead
<1>5. CASE ~ IsSingle(Reading[of].rule, slot)
  <2>1. new = Append(old, t)
    BY <1>5
  <2>2. new = old \o <<t>>
    BY <2>1, AppendIsConcat
  <2>3. \A i, j : In(i, old) /\ In(j, <<t>>) => i < j
    BY <1>2, <1>3 DEF Held
  <2>4. Increasing(new) /\ \A i : In(i, new) <=> In(i, old) \/ i = t
    <3> PICK one \in Seq(Nat \ {0}) : one = <<t>>
      BY <1>2
    <3>1. old \in Seq(Nat \ {0}) /\ new = old \o one
      BY <2>2
    <3>2. /\ Increasing(old) /\ Increasing(one)
          /\ \A i, j : In(i, old) /\ In(j, one) => i < j
      BY <1>2, <1>3, <2>3
    <3>3. /\ Increasing(old \o one)
          /\ \A i : In(i, old \o one) <=> In(i, old) \/ In(i, one)
      BY <3>1, <3>2, JoinedInOrder
    <3> QED  BY <1>2, <3>1, <3>3
  <2>5. \A i : Held(i, of, slot)' <=> Held(i, of, slot) \/ i = t
    BY <1>5 DEF Held
  <2> QED  BY <1>1, <1>3, <2>4, <2>5 DEF KeyRead
<1> QED  BY <1>4, <1>5

(* Those of a patch, behind those that are there.                                *)
LEMMA KeySpreads ==
  ASSUME NEW of, NEW slot, NEW t, KeyRead(of, slot), KeyRead(t, slot), Reading' = Reading,
         Field(of, slot) \in Seq(Nat \ {0}), Field(t, slot) \in Seq(Nat \ {0}),
         <<of, slot>> \in DOMAIN fields', \E i : Goes(i, t, slot),
         FieldIn(fields', of, slot) = Field(of, slot) \o Field(t, slot),
         ~ IsSingle(Reading[of].rule, slot), ~ IsSingle(Reading[t].rule, slot),
         \A i : Goes(i, of, slot)' <=> Goes(i, of, slot) \/ Goes(i, t, slot),
         \A i, j : Goes(i, of, slot) /\ Goes(j, t, slot) => i < j
  PROVE  KeyRead(of, slot)'
<1> PICK first, second : first = Field(of, slot) /\ second = Field(t, slot)
  OBVIOUS
<1>1. Field(of, slot)' = first \o second
  BY DEF Field, FieldIn
<1>2. /\ Increasing(first) /\ Increasing(second)
      /\ \A i : In(i, first) <=> Goes(i, of, slot)
      /\ \A i : In(i, second) <=> Goes(i, t, slot)
  BY DEF KeyRead, Held
<1>3. /\ Increasing(first \o second)
      /\ \A i : In(i, first \o second) <=> In(i, first) \/ In(i, second)
  <2>1. \A i, j : In(i, first) /\ In(j, second) => i < j
    BY <1>2
  <2> QED  BY <1>2, <2>1, JoinedInOrder
<1>4. \A i : Held(i, of, slot)' <=> Goes(i, of, slot) \/ Goes(i, t, slot)
  BY DEF Held
<1> QED  BY <1>1, <1>2, <1>3, <1>4 DEF KeyRead

(* The caller has one more declaration, and those of a patch.                   *)
LEMMA EndKeepsRead ==
  ASSUME RInv, ReadEnd
  PROVE  FramesRead' /\ TextRead' /\ FieldsRead'
<1> PICK t, c : t = Top.at /\ c = Caller.at
  OBVIOUS
<1>0. /\ PInv /\ FramesRead /\ TextRead /\ FieldsRead
      /\ status = "reading" /\ pos < Size /\ Token.kind = "end" /\ pos' = pos + 1 /\ doc' = doc
      /\ stack \in Seq(Frame) /\ stack # << >> /\ text \in BOOLEAN /\ text' = text
      /\ DOMAIN fields \subseteq (Nat \ {0}) \X Slot /\ fields \in [DOMAIN fields -> Seq(Nat \ {0})]
      /\ stack' = SubSeq(stack, 1, Len(stack) - 1)
      /\ fields' = IF Len(stack) = 1 \/ Top.rule = "skip" \/ (Top.rule = "readTextElement" /\ ~ text)
                   THEN fields ELSE Stored(Top)
  BY DEF RInv, PInv, ParserTypeOK, ReadEnd, Reads, Size
<1>1. /\ doc \in Docs /\ pos \in 0 .. Size /\ pos \in Nat /\ Size \in Nat
      /\ Len(stack) = Len(doc.open[pos]) /\ Len(stack) \in Nat \ {0}
      /\ t = doc.open[pos][Len(stack)] /\ t \in 1 .. pos
      /\ Top.rule = Reading[t].rule /\ Top.slot = Reading[t].slot /\ Top.many = Reading[t].many
      /\ Len(stack) > 1 =>
              /\ c = doc.open[pos][Len(stack) - 1] /\ c \in 1 .. pos /\ c < t
              /\ Reading[t] = Handled(Reading[c].rule, doc.tokens[t])
  <2>1. status # "failed" /\ Len(stack) > 0
    BY <1>0
  <2>2. pos \in Nat
    BY <1>0 DEF PInv, ParserTypeOK
  <2> QED  BY <1>0, <2>1, <2>2, ReturningFrame
<1>11. t \in 1 .. pos /\ pos \in Nat /\ pos \in 0 .. Size /\ Size \in Nat
  BY <1>1
<1>12. t \in Nat \ {0}
  BY ONLY <1>11
<1>13. \A i : i \in 1 .. pos => i \in 1 .. Size /\ i \in Nat
  BY ONLY <1>11
<1>14. Len(stack) = Len(doc.open[pos]) /\ Len(stack) \in Nat \ {0}
  BY <1>1
<1>15. /\ Len(stack) \in 1 .. Len(doc.open[pos])
       /\ ~ (Len(stack) > 1) => Len(stack) = 1
  <2> PICK n \in Nat \ {0} : n = Len(stack)
    BY <1>14
  <2>1. n \in 1 .. n /\ (~ (n > 1) => n = 1)
    BY ONLY n \in Nat \ {0}
  <2>2. n = Len(doc.open[pos])
    BY <1>14
  <2> QED  BY <2>1, <2>2
<1>2. Reading' = Reading
  BY <1>0, ReadingStays
<1>3. Len(stack') = Len(stack) - 1 /\ \A k \in 1 .. Len(stack) - 1 : stack'[k] = stack[k]
  <2> PICK n \in Nat : n = Len(stack)
    BY <1>1
  <2>1. n > 0 /\ stack' = SubSeq(stack, 1, n - 1) /\ stack \in Seq(Frame)
    BY <1>0, <1>1
  <2>2. Len(stack') = n - 1 /\ \A k \in 1 .. n - 1 : stack'[k] = stack[k]
    BY ONLY <2>1, n = Len(stack), n \in Nat
  <2> QED  BY <2>2
<1>4. \A k \in 1 .. Len(stack) - 1 : k \in 1 .. Len(stack)
  BY <1>1
<1>5. FramesRead'
  BY <1>0, <1>2, <1>3, <1>4 DEF FramesRead
<1>6. TextRead'
  <2> SUFFICES ASSUME NEW k \in 1 .. Len(stack) - 1, stack[k].rule = "readTextElement",
                      NEW i, i = stack[k].at
               PROVE  text' <=> HasText(i)'
    BY <1>3 DEF TextRead
  <2>1. text <=> HasText(i)
    BY <1>0, <1>4 DEF TextRead
  <2>2. i \in 1 .. pos + 1
    <3>1. status # "failed"
      BY <1>0
    <3>2. stack[k].at \in 1 .. pos
      BY <1>0, <1>4, <3>1, FramesOpen
    <3> QED  BY <1>1, <3>2
  <2>3. HasText(i)' <=> HasText(i)
    BY <1>0, <1>1, <2>2, TextNext
  <2> QED  BY <1>0, <2>1, <2>3
<1>7. \A i, of, slot :
        Goes(i, of, slot)' <=>
          \/ Goes(i, of, slot)
          \/ Stores /\ i = t /\ of = c /\ slot = Top.slot
          \/ Stores /\ Top.rule = "parseSchemaPatch" /\ of = c /\ Goes(i, t, slot)
  BY <1>0, GoesEnd
<1>8. \A of, slot : KeyRead(of, slot)
  BY <1>0 DEF FieldsRead, KeyRead
<1>9. ASSUME NEW of, NEW slot PROVE KeyRead(of, slot)'
  <2>1. KeyRead(of, slot) /\ KeyRead(t, slot)
    BY <1>8
  <2>2. CASE ~ Stores
    <3>1. fields' = fields
      BY <1>0, <1>15, <2>2 DEF Stores
    <3>2. FieldIn(fields', of, slot) = Field(of, slot)
      BY <3>1 DEF Field, FieldIn
    <3>3. \A i : Goes(i, of, slot)' <=> Goes(i, of, slot)
      BY <1>7, <2>2
    <3> QED  BY <1>2, <2>1, <3>1, <3>2, <3>3, KeyStays
  <2>3. CASE Stores
    <3>1. Len(stack) > 1 /\ Top.rule # "skip" /\ fields' = Stored(Top)
      BY <1>0, <2>3 DEF Stores
    <3> PICK value : value = IF Top.many THEN Append(Field(c, Top.slot), t) ELSE <<t>>
      OBVIOUS
    <3> PICK stored : stored = WithField(c, Top.slot, value)
      OBVIOUS
    <3>2. fields' = IF Top.rule = "parseSchemaPatch" THEN Spread(stored, Top, c) ELSE stored
      BY <3>1 DEF Stored
    <3>3. /\ <<of, slot>> \in DOMAIN stored <=>
               <<of, slot>> \in DOMAIN fields \/ (of = c /\ slot = Top.slot)
          /\ FieldIn(stored, of, slot) = IF of = c /\ slot = Top.slot THEN value ELSE Field(of, slot)
      BY WithFieldIs
    <3>4. Top.many <=> ~ IsSingle(Reading[c].rule, Top.slot)
      BY <1>1, <3>1, HandledMode
    <3>5. c < t /\ c \in 1 .. pos /\ t \in Nat \ {0}
      BY <1>1, <1>12, <3>1
    <3>6. FieldsTyped(fields)
      BY <1>0 DEF FieldsTyped
    <3>7. Field(of, slot) \in Seq(Nat \ {0}) /\ Field(t, slot) \in Seq(Nat \ {0})
      BY <3>6, FieldTyped
    <3>8. \A i : Goes(i, c, slot) => i \in Nat /\ i < t
      <4> SUFFICES ASSUME NEW i, Goes(i, c, slot) PROVE i \in Nat /\ i < t
        OBVIOUS
      <4>1. /\ i \in 1 .. pos
            /\ \A k \in 1 .. Len(doc.open[pos]) :
                 /\ doc.open[pos][k] # i
                 /\ doc.open[pos][k] < i => c >= doc.open[pos][k]
        BY <1>1, GoesInside
      <4>2. t # i /\ (t < i => c >= t)
        BY <1>1, <1>15, <4>1
      <4>3. i \in Nat /\ c \in Nat
        BY <1>13, <3>5, <4>1
      <4> QED  BY ONLY <3>5, <4>2, <4>3
    <3>9. \A i : Goes(i, t, slot) => i \in Nat /\ i > t
      <4> SUFFICES ASSUME NEW i, Goes(i, t, slot) PROVE i \in Nat /\ i > t
        OBVIOUS
      <4>1. i \in 1 .. pos /\ t \in Nat /\ t < i
        BY <1>1, GoesInside
      <4> QED  BY <4>1
    <3>10. Top.rule = "parseSchemaPatch" =>
             /\ Reading[c].rule = "parseSchema" /\ Top.slot \in {"overrides", "redefines"}
      <4> PICK child : child = Handled(Reading[c].rule, doc.tokens[t])
        OBVIOUS
      <4>1. child.rule = Top.rule /\ child.slot = Top.slot
        BY <1>1, <3>1
      <4>2. child.rule = "parseSchemaPatch" =>
              Reading[c].rule = "parseSchema" /\ child.slot \in {"overrides", "redefines"}
        BY PatchChildren
      <4> QED  BY <4>1, <4>2
    <3>11. ASSUME Top.rule = "parseSchemaPatch", NEW i, Goes(i, t, slot)
           PROVE  /\ slot # Top.slot
                  /\ ~ IsSingle(Reading[c].rule, slot) /\ ~ IsSingle(Reading[t].rule, slot)
      <4>1. Reading[i].many <=> ~ IsSingle(Reading[t].rule, slot)
        BY <1>1, <3>11, GoesMode
      <4>2. Reading[t].rule = "parseSchemaPatch"
        BY <1>1, <3>11
      <4>3. /\ i \in 1 .. Size /\ IsStart(i) /\ Len(doc.open[i]) > 1 /\ Reading[i].slot = slot
            /\ Into(i, t)
        BY <1>13, <3>11 DEF Goes, Kept, Closed
      <4>4. Parent(i) = t
        BY <1>1, <4>2, <4>3, IntoPatch
      <4>5. Reading[i] = Handled(Reading[t].rule, doc.tokens[i])
        BY <1>1, <4>3, <4>4, ReadingInside
      <4>6. Reading[i].many /\ Reading[i].slot \notin {"overrides", "redefines"}
        BY <4>2, <4>5, PatchChildren
      <4>7. ~ IsSingle(Reading[t].rule, slot)
        BY <4>1, <4>6
      <4>8. IsSingle(Reading[c].rule, slot) <=> IsSingle(Reading[t].rule, slot)
        <5>1. Reading[c].rule # "parseGroup" /\ Reading[t].rule # "parseGroup"
          BY <3>10, <3>11, <4>2
        <5> QED  BY <5>1 DEF IsSingle
      <4> QED  BY <3>10, <3>11, <4>3, <4>6, <4>7, <4>8
    <3>12. CASE Top.rule # "parseSchemaPatch"
      <4>1. fields' = stored
        BY <3>2, <3>12
      <4>2. CASE of = c /\ slot = Top.slot
        <5>1. \A i : Goes(i, of, slot)' <=> Goes(i, of, slot) \/ i = t
          BY <1>7, <2>3, <3>12, <4>2
        <5>2. FieldIn(fields', of, slot) = IF IsSingle(Reading[of].rule, slot) THEN <<t>>
                                           ELSE Append(Field(of, slot), t)
          BY <3>3, <3>4, <4>1, <4>2
        <5>3. <<of, slot>> \in DOMAIN fields'
          BY <3>3, <4>1, <4>2
        <5> QED  BY <1>2, <2>1, <3>5, <3>7, <3>8, <4>2, <5>1, <5>2, <5>3, KeyGrows
      <4>3. CASE ~ (of = c /\ slot = Top.slot)
        <5>1. \A i : Goes(i, of, slot)' <=> Goes(i, of, slot)
          BY <1>7, <3>12, <4>3
        <5>2. FieldIn(fields', of, slot) = Field(of, slot)
          BY <3>3, <4>1, <4>3
        <5>3. <<of, slot>> \in DOMAIN fields' <=> <<of, slot>> \in DOMAIN fields
          BY <3>3, <4>1, <4>3
        <5> QED  BY <1>2, <2>1, <5>1, <5>2, <5>3, KeyStays
      <4> QED  BY <4>2, <4>3
    <3>13. CASE Top.rule = "parseSchemaPatch"
      <4> PICK spreads : spreads = (of = c /\ <<t, slot>> \in DOMAIN fields)
        OBVIOUS
      <4>1. /\ <<of, slot>> \in DOMAIN fields' <=> <<of, slot>> \in DOMAIN stored \/ spreads
            /\ FieldIn(fields', of, slot)
                 = IF spreads THEN Field(c, slot) \o Field(t, slot) ELSE FieldIn(stored, of, slot)
        <5>1. fields' = Spread(stored, Top, c)
          BY <3>2, <3>13
        <5>2. DOMAIN fields \subseteq (Nat \ {0}) \X Slot
          BY <1>0
        <5>3. IsSpread(Spread(stored, Top, c), stored, Top.at, c, of, slot)
          BY <5>2, SpreadIs
        <5> QED  BY <5>1, <5>3 DEF IsSpread
      <4>2. spreads <=> of = c /\ \E i : Goes(i, t, slot)
        BY <2>1 DEF KeyRead
      <4>3. CASE spreads
        <5>1. of = c /\ \E i : Goes(i, t, slot)
          BY <4>2, <4>3
        <5>2. /\ slot # Top.slot
              /\ ~ IsSingle(Reading[of].rule, slot) /\ ~ IsSingle(Reading[t].rule, slot)
          BY <3>11, <3>13, <5>1
        <5>3. \A i : Goes(i, of, slot)' <=> Goes(i, of, slot) \/ Goes(i, t, slot)
          BY <1>7, <2>3, <3>13, <5>1, <5>2
        <5>4. \A i, j : Goes(i, of, slot) /\ Goes(j, t, slot) => i < j
          <6> SUFFICES ASSUME NEW i, NEW j, Goes(i, of, slot), Goes(j, t, slot) PROVE i < j
            OBVIOUS
          <6>1. i \in Nat /\ i < t /\ j \in Nat /\ j > t
            BY <3>8, <3>9, <5>1
          <6> QED  BY <3>5, <6>1
        <5>5. <<of, slot>> \in DOMAIN fields'
          BY <4>1, <4>3
        <5>6. FieldIn(fields', of, slot) = Field(of, slot) \o Field(t, slot)
          BY <4>1, <4>3, <5>1
        <5> QED  BY <1>2, <2>1, <3>7, <5>1, <5>2, <5>3, <5>4, <5>5, <5>6, KeySpreads
      <4>4. CASE ~ spreads /\ of = c /\ slot = Top.slot
        <5>1. \A i : Goes(i, of, slot)' <=> Goes(i, of, slot) \/ i = t
          BY <1>7, <2>3, <4>2, <4>4
        <5>2. FieldIn(fields', of, slot) = IF IsSingle(Reading[of].rule, slot) THEN <<t>>
                                           ELSE Append(Field(of, slot), t)
          BY <3>3, <3>4, <4>1, <4>4
        <5>3. <<of, slot>> \in DOMAIN fields'
          BY <3>3, <4>1, <4>4
        <5> QED  BY <1>2, <2>1, <3>5, <3>7, <3>8, <4>4, <5>1, <5>2, <5>3, KeyGrows
      <4>5. CASE ~ spreads /\ ~ (of = c /\ slot = Top.slot)
        <5>1. \A i : Goes(i, of, slot)' <=> Goes(i, of, slot)
          BY <1>7, <4>2, <4>5
        <5>2. FieldIn(fields', of, slot) = Field(of, slot)
          BY <3>3, <4>1, <4>5
        <5>3. <<of, slot>> \in DOMAIN fields' <=> <<of, slot>> \in DOMAIN fields
          BY <3>3, <4>1, <4>5
        <5> QED  BY <1>2, <2>1, <5>1, <5>2, <5>3, KeyStays
      <4> QED  BY <4>3, <4>4, <4>5
    <3> QED  BY <3>12, <3>13
  <2> QED  BY <2>2, <2>3
<1>10. FieldsRead'
  BY <1>9 DEF FieldsRead, KeyRead
<1> QED  BY <1>5, <1>6, <1>10

-----------------------------------------------------------------------------
(* The invariant of reading *)

(* A document begins with nothing read.                                         *)
LEMMA RInvInit == ASSUME Init PROVE RInv
<1>1. PInv /\ pos = 0 /\ stack = << >> /\ fields = NoFields
  BY PInvInit DEF Init
<1>2. Len(stack) = 0 /\ 1 .. 0 = {}
  BY <1>1
<1>3. FramesRead /\ TextRead
  BY <1>2 DEF FramesRead, TextRead
<1>4. FieldsRead
  <2>1. \A i, of, slot : ~ Goes(i, of, slot)
    BY <1>1, <1>2 DEF Goes, Kept, Closed
  <2>2. \A of, slot : <<of, slot>> \notin DOMAIN fields /\ Field(of, slot) = << >>
    BY <1>1 DEF NoFields, Field
  <2>3. Len(<< >>) = 0
    BY EmptySeq
  <2>4. Increasing(<< >>) /\ \A i : ~ In(i, << >>)
    BY <1>2, <2>3 DEF Increasing, In
  <2> QED  BY <2>1, <2>2, <2>4 DEF FieldsRead, Held
<1> QED  BY <1>1, <1>3, <1>4 DEF RInv

(* A broken document keeps nothing, and the end of one changes nothing.         *)
LEMMA EndOfInputKeepsRead ==
  ASSUME RInv, ReadError \/ ReadEOF \/ UNCHANGED vars
  PROVE  FramesRead' /\ TextRead' /\ FieldsRead'
<1>1. CASE ReadError
  <2>1. Len(stack') = 0 /\ 1 .. 0 = {} /\ status' = "failed"
    BY <1>1 DEF ReadError
  <2> QED  BY <2>1 DEF FramesRead, TextRead, FieldsRead
<1>2. CASE ReadEOF \/ UNCHANGED vars
  <2>0. FramesRead /\ TextRead /\ FieldsRead
    BY DEF RInv
  <2>1. /\ doc' = doc /\ pos' = pos /\ stack' = stack /\ text' = text /\ fields' = fields
        /\ status = "failed" => status' = "failed"
    BY <1>2 DEF ReadEOF, vars
  <2>2. Reading' = Reading
    BY <2>1, ReadingStays
  <2>3. \A i : (HasText(i)' <=> HasText(i)) /\ (Closed(i)' <=> Closed(i)) /\ Parent(i)' = Parent(i)
    BY <2>1 DEF HasText, Closed, IsStart, Parent
  <2>4. FramesRead' /\ TextRead'
    <3>1. FramesRead'
      BY <2>0, <2>1, <2>2 DEF FramesRead
    <3>2. TextRead'
      BY <2>0, <2>1, <2>3 DEF TextRead, HasText
    <3> QED  BY <3>1, <3>2
  <2>5. \A i : Kept(i)' <=> Kept(i)
    BY <2>2, <2>3 DEF Kept
  <2>6. \A i, of : Into(i, of)' <=> Into(i, of)
    BY <2>2, <2>3 DEF Into
  <2>7. \A i, of, slot : Goes(i, of, slot)' <=> Goes(i, of, slot)
    BY <2>2, <2>5, <2>6 DEF Goes
  <2>8. \A i, of, slot : Held(i, of, slot)' <=> Held(i, of, slot)
    BY <2>2, <2>7 DEF Held
  <2>9. \A of, slot : Field(of, slot)' = Field(of, slot)
    BY <2>1 DEF Field
  <2> QED  BY <2>0, <2>1, <2>4, <2>7, <2>8, <2>9 DEF FieldsRead
<1> QED  BY <1>1, <1>2

(* The fields are read in every state of every Parse.                           *)
LEMMA RInvHolds == Spec => []RInv
<1>1. Init => RInv
  BY RInvInit
<1>2. RInv /\ [Next]_vars => RInv'
  <2> SUFFICES ASSUME RInv, [Next]_vars PROVE RInv'
    OBVIOUS
  <2>1. PInv'
    BY ReadRootKeeps, ReadStartKeeps, ReadOtherKeeps, ReadEndKeeps, ReadErrorKeeps, ReadEOFKeeps,
       StutterKeeps DEF Next, RInv
  <2>2. FramesRead' /\ TextRead' /\ FieldsRead'
    BY EnterKeepsRead, OtherKeepsRead, EndKeepsRead, EndOfInputKeepsRead DEF Next
  <2> QED  BY <2>1, <2>2 DEF RInv
<1> QED  BY <1>1, <1>2, PTL DEF Spec

(* The fields are those that the closed elements say.                           *)
LEMMA FieldsAreMeant == ASSUME RInv PROVE DeclarationsAreRead
<1> DEFINE open == {doc.open[pos][k] : k \in DOMAIN doc.open[pos]}
           inside == {i \in 1 .. pos : IsStart(i) /\ i \notin open /\ Len(doc.open[i]) > 1}
           own == {row \in {[at |-> i, of |-> Parent(i), as |-> Reading[i]] : i \in inside} :
                     /\ row.as.rule # "skip"
                     /\ row.as.rule = "readTextElement" => HasText(row.at)}
           patching == {row \in own : row.of \in inside /\ Reading[row.of].rule = "parseSchemaPatch"}
           read == own \cup {[row EXCEPT !.of = Parent(row.of)] : row \in patching}
           replaced(row) == ~ row.as.many /\ \E other \in read :
                              other.at > row.at /\ other.of = row.of /\ other.as.slot = row.as.slot
           meant(of, slot) ==
             {row.at : row \in {r \in read : r.of = of /\ r.as.slot = slot /\ ~ replaced(r)}}
           Row(i, of) == [at |-> i, of |-> of, as |-> Reading[i]]
<1> SUFFICES ASSUME status # "failed"
             PROVE  /\ DOMAIN fields = {<<row.of, row.as.slot>> : row \in read}
                    /\ \A key \in DOMAIN fields :
                         /\ {fields[key][i] : i \in DOMAIN fields[key]} = meant(key[1], key[2])
                         /\ \A i, j \in DOMAIN fields[key] : i < j => fields[key][i] < fields[key][j]
  BY DEF DeclarationsAreRead
<1>0. /\ doc \in Docs /\ pos \in 0 .. Size
      /\ DOMAIN fields \subseteq (Nat \ {0}) \X Slot
      /\ fields \in [DOMAIN fields -> Seq(Nat \ {0})]
  BY DEF RInv, PInv, ParserTypeOK, Size
<1>1. \A of, slot : KeyRead(of, slot)
  BY DEF RInv, FieldsRead, KeyRead
<1>2. inside = {i \in 1 .. pos : Closed(i)}
  <2>1. WellFormed(doc)
    BY <1>0, DocAssumption
  <2>2. doc.open[pos] \in Seq(Nat \ {0})
    BY <1>0, <2>1 DEF WellFormed, Size
  <2>3. DOMAIN doc.open[pos] = 1 .. Len(doc.open[pos])
    BY <2>2
  <2>4. \A i : i \in open <=> \E k \in 1 .. Len(doc.open[pos]) : doc.open[pos][k] = i
    BY <2>3
  <2> HIDE DEF open
  <2> QED  BY <2>4 DEF Closed
<1>3. \A i : Closed(i) => i \in 1 .. pos
  BY DEF Closed
<1>4. \A i, of : Row(i, of).at = i /\ Row(i, of).of = of /\ Row(i, of).as = Reading[i]
  OBVIOUS
<1> HIDE DEF inside
<1>5. \A row : row \in own <=> \E i : Kept(i) /\ row = Row(i, Parent(i))
  <2> TAKE row
  <2>1. ASSUME row \in own PROVE \E i : Kept(i) /\ row = Row(i, Parent(i))
    <3>1. PICK i \in inside : row = Row(i, Parent(i))
      BY <2>1
    <3>2. row.at = i /\ row.as = Reading[i]
      BY <1>4, <3>1
    <3>3. Kept(i)
      BY <1>2, <2>1, <3>1, <3>2 DEF Kept
    <3> QED  BY <3>1, <3>3
  <2>2. ASSUME NEW i, Kept(i), row = Row(i, Parent(i)) PROVE row \in own
    <3>1. row.at = i /\ row.as = Reading[i]
      BY <1>4, <2>2
    <3>2. i \in inside
      BY <1>2, <1>3, <2>2 DEF Kept
    <3> QED  BY <2>2, <3>1, <3>2 DEF Kept
  <2> QED  BY <2>1, <2>2
<1>6. \A row : row \in patching <=>
        \E i : /\ Kept(i) /\ row = Row(i, Parent(i))
               /\ Closed(Parent(i)) /\ Reading[Parent(i)].rule = "parseSchemaPatch"
  <2>1. \A p : p \in inside <=> Closed(p)
    BY <1>2, <1>3
  <2>2. \A row : row \in patching <=>
          row \in own /\ row.of \in inside /\ Reading[row.of].rule = "parseSchemaPatch"
    OBVIOUS
  <2> HIDE DEF own, patching, Row
  <2> QED  BY <1>4, <1>5, <2>1, <2>2
<1>7. \A i, of, p : [Row(i, of) EXCEPT !.of = p] = Row(i, p)
  OBVIOUS
<1>8. \A row : row \in read <=> \E i, of : Kept(i) /\ Into(i, of) /\ row = Row(i, of)
  <2> TAKE row
  <2>0. row \in read <=> row \in own \/ \E r \in patching : row = [r EXCEPT !.of = Parent(r.of)]
    OBVIOUS
  <2> HIDE DEF own, patching, read, Row
  <2>1. ASSUME row \in own PROVE \E i, of : Kept(i) /\ Into(i, of) /\ row = Row(i, of)
    BY <1>5, <2>1 DEF Into
  <2>2. ASSUME NEW r \in patching, row = [r EXCEPT !.of = Parent(r.of)]
        PROVE  \E i, of : Kept(i) /\ Into(i, of) /\ row = Row(i, of)
    <3>1. PICK i : /\ Kept(i) /\ r = Row(i, Parent(i))
                   /\ Closed(Parent(i)) /\ Reading[Parent(i)].rule = "parseSchemaPatch"
      BY <1>6
    <3>2. r.of = Parent(i)
      BY <1>4, <3>1
    <3>3. row = Row(i, Parent(Parent(i)))
      BY <1>7, <2>2, <3>1, <3>2
    <3>4. Into(i, Parent(Parent(i)))
      BY <3>1 DEF Into
    <3> QED  BY <3>1, <3>3, <3>4
  <2>3. ASSUME NEW i, NEW of, Kept(i), Into(i, of), row = Row(i, of) PROVE row \in read
    <3>1. CASE of = Parent(i)
      BY <1>5, <2>0, <2>3, <3>1
    <3>2. CASE /\ Closed(Parent(i)) /\ Reading[Parent(i)].rule = "parseSchemaPatch"
               /\ of = Parent(Parent(i))
      <4>1. Row(i, Parent(i)) \in patching
        BY <1>6, <2>3, <3>2
      <4>2. Row(i, Parent(i)).of = Parent(i)
        BY <1>4
      <4>3. row = [Row(i, Parent(i)) EXCEPT !.of = Parent(Row(i, Parent(i)).of)]
        BY <1>7, <2>3, <3>2, <4>2
      <4> QED  BY <2>0, <4>1, <4>3
    <3> QED  BY <2>3, <3>1, <3>2 DEF Into
  <2> QED  BY <2>0, <2>1, <2>2, <2>3
<1> HIDE DEF own, patching, read, Row
<1>9. \A i, of, slot :
        Goes(i, of, slot) <=> Row(i, of) \in read /\ Row(i, of).as.slot = slot
  <2> TAKE i, of, slot
  <2>1. Row(i, of) \in read <=> Kept(i) /\ Into(i, of)
    <3>1. ASSUME NEW j, NEW p, Row(i, of) = Row(j, p) PROVE i = j /\ of = p
      BY <1>4, <3>1
    <3> QED  BY <1>8, <3>1
  <2> QED  BY <1>4, <2>1 DEF Goes
<1>10. \A row : row \in read => \E i, of : row = Row(i, of)
  BY <1>8
<1>11. ASSUME NEW i, NEW of, NEW slot PROVE i \in meant(of, slot) <=> Held(i, of, slot)
  <2>1. i \in meant(of, slot) <=>
          \E r \in read : r.at = i /\ r.of = of /\ r.as.slot = slot /\ ~ replaced(r)
    OBVIOUS
  <2>2. i \in meant(of, slot) <=> Goes(i, of, slot) /\ ~ replaced(Row(i, of))
    <3> HIDE DEF replaced, meant
    <3>1. ASSUME NEW r \in read, r.at = i, r.of = of PROVE r = Row(i, of)
      BY <1>4, <1>10, <3>1
    <3>2. ASSUME i \in meant(of, slot) PROVE Goes(i, of, slot) /\ ~ replaced(Row(i, of))
      BY <1>9, <2>1, <3>1, <3>2
    <3>3. ASSUME Goes(i, of, slot), ~ replaced(Row(i, of)) PROVE i \in meant(of, slot)
      BY <1>4, <1>9, <2>1, <3>3
    <3> QED  BY <3>2, <3>3
  <2>3. ASSUME Goes(i, of, slot) PROVE ~ replaced(Row(i, of)) <=> Held(i, of, slot)
    <3>1. Row(i, of).as.slot = slot /\ Row(i, of).as = Reading[i]
      BY <1>4, <1>9, <2>3
    <3>2. replaced(Row(i, of)) <=>
            /\ ~ Reading[i].many
            /\ \E other \in read : other.at > i /\ other.of = of /\ other.as.slot = slot
      BY <1>4, <3>1
    <3>3. Reading[i].many <=> ~ IsSingle(Reading[of].rule, slot)
      BY <1>0, <2>3, GoesMode
    <3> HIDE DEF replaced
    <3>4. (\E other \in read : other.at > i /\ other.of = of /\ other.as.slot = slot)
            <=> \E j : Goes(j, of, slot) /\ j > i
      <4>1. ASSUME NEW other \in read, other.at > i, other.of = of, other.as.slot = slot
            PROVE  \E j : Goes(j, of, slot) /\ j > i
        <5>1. PICK j, p : other = Row(j, p)
          BY <1>10
        <5>2. other = Row(j, of) /\ j > i
          BY <1>4, <4>1, <5>1
        <5> QED  BY <1>9, <4>1, <5>2
      <4>2. ASSUME NEW j, Goes(j, of, slot), j > i
            PROVE  \E other \in read : other.at > i /\ other.of = of /\ other.as.slot = slot
        <5>1. Row(j, of) \in read /\ Row(j, of).as.slot = slot
          BY <1>9, <4>2
        <5>2. Row(j, of).at = j /\ Row(j, of).of = of
          BY <1>4
        <5> QED  BY <4>2, <5>1, <5>2
      <4> QED  BY <4>1, <4>2
    <3>5. \A j : Goes(j, of, slot) => j \in Nat
      <4>1. \A j : j \in 1 .. pos => j \in Nat
        OBVIOUS
      <4> QED  BY <4>1 DEF Goes, Kept, Closed
    <3>6. (\A j : Goes(j, of, slot) => j <= i) <=> ~ \E j : Goes(j, of, slot) /\ j > i
      <4>1. i \in Nat /\ \A j \in Nat : j <= i <=> ~ (j > i)
        BY <2>3, <3>5
      <4> QED  BY <3>5, <4>1
    <3> QED  BY <2>3, <3>2, <3>3, <3>4, <3>6 DEF Held
  <2> QED  BY <2>2, <2>3 DEF Held
<1>12. DOMAIN fields = {<<row.of, row.as.slot>> : row \in read}
  <2>1. ASSUME NEW key \in DOMAIN fields PROVE \E row \in read : key = <<row.of, row.as.slot>>
    <3>1. PICK of \in Nat \ {0}, slot \in Slot : key = <<of, slot>>
      BY <1>0
    <3>2. PICK i : Goes(i, of, slot)
      BY <1>1, <3>1 DEF KeyRead
    <3>3. Row(i, of) \in read /\ Row(i, of).of = of /\ Row(i, of).as.slot = slot
      BY <1>4, <1>9, <3>2
    <3> QED  BY <3>1, <3>3
  <2>2. ASSUME NEW row \in read PROVE <<row.of, row.as.slot>> \in DOMAIN fields
    <3>1. PICK i, of : row = Row(i, of)
      BY <1>10
    <3>2. row.of = of /\ Goes(i, of, row.as.slot)
      BY <1>4, <1>9, <3>1
    <3> QED  BY <1>1, <3>2 DEF KeyRead
  <2> QED  BY <2>1, <2>2
<1>13. ASSUME NEW key \in DOMAIN fields
       PROVE  /\ {fields[key][i] : i \in DOMAIN fields[key]} = meant(key[1], key[2])
              /\ \A i, j \in DOMAIN fields[key] : i < j => fields[key][i] < fields[key][j]
  <2>1. PICK of \in Nat \ {0}, slot \in Slot : key = <<of, slot>>
    BY <1>0
  <2> PICK s : s = fields[key]
    OBVIOUS
  <2>2. s = Field(of, slot) /\ key[1] = of /\ key[2] = slot
    BY <2>1 DEF Field
  <2>3. DOMAIN s = 1 .. Len(s)
    <3>1. s \in Seq(Nat \ {0})
      BY <1>0
    <3> QED  BY <3>1
  <2>4. Increasing(s) /\ \A i : In(i, s) <=> Held(i, of, slot)
    BY <1>1, <2>2 DEF KeyRead
  <2>5. \A i : i \in meant(of, slot) <=> In(i, s)
    BY <1>11, <2>4
  <2> HIDE DEF meant
  <2>6. {s[i] : i \in DOMAIN s} = meant(of, slot)
    BY <2>3, <2>5 DEF In
  <2>7. \A i, j \in DOMAIN s : i < j => s[i] < s[j]
    BY <2>3, <2>4 DEF Increasing
  <2> QED  BY <2>2, <2>6, <2>7
<1> QED  BY <1>12, <1>13

(* Whatever a document holds, and wherever reading it stands, the fields are  *)
(* what its closed elements say: each in its field of the declaration around  *)
(* it and in the order of the document, nothing of what is skipped, the last  *)
(* where one is kept, and those of a patch in the file as well.                *)
THEOREM DeclarationsStayRead == Spec => []DeclarationsAreRead
<1>1. RInv => DeclarationsAreRead
  BY FieldsAreMeant
<1> QED  BY <1>1, RInvHolds, PTL
=============================================================================
