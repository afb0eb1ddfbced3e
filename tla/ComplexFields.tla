----------------------------- MODULE ComplexFields -----------------------------
(***************************************************************************)
(* interpretComplexFields of internal/interpreter/model.go: a complex type  *)
(* becomes a flat list of fields.  Types are followed to their bases, and   *)
(* particles and attributes through the groups that they refer to, by        *)
(* functions that call each other; the two maps `visiting`, of types and of *)
(* attribute groups, keep them from following a cycle.  Model groups have   *)
(* no such map.                                                              *)
(*                                                                         *)
(* The calls that have not returned are an explicit stack `todo` of tasks,   *)
(* what is to be done next in front.  A schema is what buildContext makes of *)
(* it: the complex types in the order they are declared (of two with one    *)
(* name the last is found), the particles as a table of nodes, and the      *)
(* groups by name.                                                           *)
(*                                                                         *)
(* A field is what later stages tell apart: kind, name, name space, whether *)
(* it is one of a choice, and how often it occurs.  Its type and the          *)
(* polymorphism of its element are left to Polymorphism and Optimizer.        *)
(***************************************************************************)
EXTENDS Naturals, Sequences, FiniteSets, SequencesExt, Selections

CONSTANTS
  Schemas,       \* the schemas
  Namespace,     \* namespaces of schemas, NoNamespace among them
  NoNamespace,
  NoName,        \* the name of no type or group
  Unbounded,     \* OccursUnbounded, a number above any other
  StackLimit     \* how many calls the stack has room for

ASSUME OccursAssumption == Unbounded \in Nat /\ Unbounded > 1
ASSUME NamespaceAssumption == NoNamespace \in Namespace

Occurrences == 0..Unbounded

(* What buildContext hands over: lists that are lists, particles that refer   *)
(* to particles, and groups that are groups; an element refers to none.       *)
IsSchema(s) ==
  LET IsList(list) == list \in Seq(Range(list))
      HasAttributes(d) ==
        /\ IsList(d.attributes) /\ IsList(d.attributeGroups) /\ d.any \in Nat
        /\ \A a \in Range(d.attributes) : a.ns \in Namespace /\ a.required \in BOOLEAN
  IN  /\ IsList(s.types) /\ IsList(s.particles)
      /\ \A t \in Range(s.types) :
           t.ns \in Namespace /\ t.content \in Seq(DOMAIN s.particles) /\ HasAttributes(t)
      /\ \A p \in Range(s.particles) :
           p \in [kind : {"element", "any", "sequence", "choice", "all", ""}, name : {p.name},
                  ns : Namespace, ref : BOOLEAN, qualified : BOOLEAN, refers : {p.refers},
                  children : Seq(DOMAIN s.particles), min : Occurrences, max : Occurrences]
      /\ \A p \in Range(s.particles) : p.kind \in {"element", "any"} => p.refers \notin DOMAIN s.groups
      /\ \A g \in DOMAIN s.groups :
           /\ s.groups[g] \in DOMAIN s.particles
           /\ s.particles[s.groups[g]].kind \in {"sequence", "choice", "all"}
      /\ \A g \in DOMAIN s.attributeGroups : HasAttributes(s.attributeGroups[g])

ASSUME SchemaAssumption == \A s \in Schemas : IsSchema(s)

VARIABLES
  schema,        \* the schema
  root,          \* the type that is interpreted
  todo,          \* the calls that have not returned
  visiting,      \* visiting of interpretComplexFields
  groupsVisiting, \* visiting of interpretAttributeGroupRefs
  fields         \* the fields so far

vars == <<schema, root, todo, visiting, groupsVisiting, fields>>

-----------------------------------------------------------------------------
(* The context *)

Derived(type) == type.kind \in {"extension", "simpleExtension", "simpleRestriction"}
SimpleContent(type) == type.kind \in {"simpleExtension", "simpleRestriction"}

Declared(name) == {i \in DOMAIN schema.types : schema.types[i].name = name}

(* ctx.complexTypes: of types with one name, the last declared. *)
ComplexType(name) ==
  schema.types[CHOOSE i \in Declared(name) : \A j \in Declared(name) : j <= i]

HasBase(type) == Derived(type) /\ Declared(type.base) # {}

(* The element a reference names is a global one, whose occurrences the      *)
(* parser has set to the default.                                             *)
Occurs(element) ==
  [min |-> IF element.ref /\ element.name \in schema.elements /\ element.min = 0
           THEN 1 ELSE element.min,
   max |-> element.max]

(* resolveGroupRef: the group's own particle with the occurrences of the     *)
(* reference, if they are not the default.                                    *)
ResolveGroupRef(group) ==
  IF group.refers \notin DOMAIN schema.groups THEN group
  ELSE LET content == schema.particles[schema.groups[group.refers]]
       IN  [content EXCEPT !.min = IF group.min # 1 THEN group.min ELSE @,
                           !.max = IF group.max # 1 THEN group.max ELSE @]

-----------------------------------------------------------------------------
(* Tasks: what a function calls, in order *)

ParticleTasks(particles, ns, inChoice) ==
  [i \in DOMAIN particles |->
     [task |-> "particle", node |-> particles[i], ns |-> ns, inChoice |-> inChoice]]

AttributeTasks(attributes, ns) ==
  [i \in DOMAIN attributes |-> [task |-> "attribute", attribute |-> attributes[i], ns |-> ns]]

AttributeGroupTasks(groups, ns) ==
  [i \in DOMAIN groups |-> [task |-> "attributeGroup", name |-> groups[i], ns |-> ns]]

AnyAttributeTasks(any, ns) == [i \in 1..any |-> [task |-> "anyAttribute", ns |-> ns]]

(* The particles, attributes and groups that a type or a group has itself;   *)
(* a type of simple content has no particles.                                 *)
OwnTasks(type) ==
  (IF SimpleContent(type) THEN << >> ELSE ParticleTasks(type.content, type.ns, FALSE))
  \o AttributeTasks(type.attributes, type.ns)
  \o AttributeGroupTasks(type.attributeGroups, type.ns)
  \o AnyAttributeTasks(type.any, type.ns)

TypeTask(type) == [task |-> "type", type |-> type]

BodyTasks(type) ==
  (IF HasBase(type) THEN <<TypeTask(ComplexType(type.base))>> ELSE << >>)
  \o OwnTasks(type)
  \o (IF SimpleContent(type)
      THEN <<[task |-> "content", type |-> type, from |-> Len(fields)]>> ELSE << >>)

-----------------------------------------------------------------------------
(* Steps *)

Doing(task) == todo # << >> /\ Head(todo).task = task /\ Len(todo) < StackLimit

Call(tasks) == todo' = tasks \o Tail(todo)

Add(field) == fields' = Append(fields, field)

Init ==
  /\ schema \in Schemas
  /\ root \in {schema.types[i] : i \in DOMAIN schema.types}
  /\ todo = <<TypeTask(root)>>
  /\ visiting = {}
  /\ groupsVisiting = {}
  /\ fields = << >>

(* Seeded fault: `visiting` is not consulted. *)
InterpretComplexFieldsUnguarded ==
  /\ Doing("type")
  /\ LET type == Head(todo).type
     IN  /\ visiting' = visiting \cup {type.name}
         /\ Call(BodyTasks(type) \o <<[task |-> "leaveType", name |-> type.name]>>)
  /\ UNCHANGED <<schema, root, groupsVisiting, fields>>

(* interpretComplexFields: nothing for a type that is being visited. *)
InterpretComplexFields ==
  /\ Doing("type")
  /\ LET type == Head(todo).type
     IN  IF type.name \in visiting
         THEN Call(<< >>) /\ UNCHANGED visiting
         ELSE /\ visiting' = visiting \cup {type.name}
              /\ Call(BodyTasks(type) \o <<[task |-> "leaveType", name |-> type.name]>>)
  /\ UNCHANGED <<schema, root, groupsVisiting, fields>>

(* Its deferred delete. *)
LeaveComplexType ==
  /\ Doing("leaveType")
  /\ visiting' = visiting \ {Head(todo).name}
  /\ Call(<< >>)
  /\ UNCHANGED <<schema, root, groupsVisiting, fields>>

(* elementNamespace and attributeNamespace: a reference to what is in no     *)
(* namespace is taken for a declaration of the schema itself.                 *)
ElementNamespace(element, ns) ==
  IF element.ref /\ element.ns # NoNamespace THEN element.ns
  ELSE IF element.qualified THEN ns
  ELSE NoNamespace

(* interpretParticle of an element and of a wildcard. *)
InterpretElement ==
  /\ Doing("particle")
  /\ LET call == Head(todo)
         element == schema.particles[call.node]
     IN  /\ element.kind \in {"element", "any"}
         /\ Add([kind |-> element.kind, name |-> element.name,
                 ns |-> ElementNamespace(element, call.ns), choice |-> call.inChoice,
                 min |-> Occurs(element).min, max |-> Occurs(element).max])
  /\ Call(<< >>)
  /\ UNCHANGED <<schema, root, visiting, groupsVisiting>>

(* interpretParticle of a group: its particles, in a choice if it is one or  *)
(* is inside of one.                                                          *)
InterpretGroup ==
  /\ Doing("particle")
  /\ LET call == Head(todo)
         group == ResolveGroupRef(schema.particles[call.node])
     IN  /\ group.kind \notin {"element", "any"}
         /\ Call(ParticleTasks(group.children, call.ns, call.inChoice \/ group.kind = "choice")
                 \o <<[task |-> "leaveGroup", group |-> group, from |-> Len(fields)]>>)
  /\ UNCHANGED <<schema, root, visiting, groupsVisiting, fields>>

(* Seeded fault: a choice counts for the fields before it too. *)
LeaveGroupOverwritesAll ==
  /\ Doing("leaveGroup")
  /\ LET group == Head(todo).group
     IN  fields' = IF group.kind = "choice"
                   THEN [i \in DOMAIN fields |->
                           [fields[i] EXCEPT !.min = group.min, !.max = group.max]]
                   ELSE fields
  /\ Call(<< >>)
  /\ UNCHANGED <<schema, root, visiting, groupsVisiting>>

(* The fields of a choice occur as often as the choice does; the occurrences *)
(* of a sequence are dropped.                                                 *)
LeaveGroup ==
  /\ Doing("leaveGroup")
  /\ LET group == Head(todo).group
         nested == {i \in DOMAIN fields : i > Head(todo).from}
     IN  fields' = IF group.kind = "choice"
                   THEN [i \in DOMAIN fields |->
                           IF i \in nested
                           THEN [fields[i] EXCEPT !.min = group.min, !.max = group.max]
                           ELSE fields[i]]
                   ELSE fields
  /\ Call(<< >>)
  /\ UNCHANGED <<schema, root, visiting, groupsVisiting>>

(* interpretAttribute. *)
InterpretAttribute ==
  /\ Doing("attribute")
  /\ LET attribute == Head(todo).attribute
     IN  Add([kind |-> "attribute", name |-> attribute.name,
              ns |-> ElementNamespace(attribute, Head(todo).ns), choice |-> FALSE,
              min |-> IF attribute.required THEN 1 ELSE 0, max |-> 1])
  /\ Call(<< >>)
  /\ UNCHANGED <<schema, root, visiting, groupsVisiting>>

(* interpretAnyAttributes. *)
InterpretAnyAttribute ==
  /\ Doing("anyAttribute")
  /\ Add([kind |-> "anyAttribute", name |-> NoName, ns |-> NoNamespace, choice |-> FALSE,
          min |-> 0, max |-> Unbounded])
  /\ Call(<< >>)
  /\ UNCHANGED <<schema, root, visiting, groupsVisiting>>

(* Seeded fault: the groups of a group are forgotten. *)
InterpretAttributeGroupRefFlat ==
  /\ Doing("attributeGroup")
  /\ LET name == Head(todo).name
         ns == Head(todo).ns
     IN  IF name \in groupsVisiting \/ name \notin DOMAIN schema.attributeGroups
         THEN Call(<< >>) /\ UNCHANGED groupsVisiting
         ELSE LET group == schema.attributeGroups[name]
              IN  /\ groupsVisiting' = groupsVisiting \cup {name}
                  /\ Call(AttributeTasks(group.attributes, ns)
                          \o AnyAttributeTasks(group.any, ns)
                          \o <<[task |-> "leaveAttributeGroup", name |-> name]>>)
  /\ UNCHANGED <<schema, root, visiting, fields>>

(* interpretAttributeGroupRef: nothing for a group that is not declared or   *)
(* is being visited.                                                          *)
InterpretAttributeGroupRef ==
  /\ Doing("attributeGroup")
  /\ LET name == Head(todo).name
         ns == Head(todo).ns
     IN  IF name \in groupsVisiting \/ name \notin DOMAIN schema.attributeGroups
         THEN Call(<< >>) /\ UNCHANGED groupsVisiting
         ELSE LET group == schema.attributeGroups[name]
              IN  /\ groupsVisiting' = groupsVisiting \cup {name}
                  /\ Call(AttributeTasks(group.attributes, ns)
                          \o AttributeGroupTasks(group.attributeGroups, ns)
                          \o AnyAttributeTasks(group.any, ns)
                          \o <<[task |-> "leaveAttributeGroup", name |-> name]>>)
  /\ UNCHANGED <<schema, root, visiting, fields>>

(* Seeded fault: a group stays visited once it has been expanded. *)
LeaveAttributeGroupKept ==
  /\ Doing("leaveAttributeGroup")
  /\ Call(<< >>)
  /\ UNCHANGED <<schema, root, visiting, groupsVisiting, fields>>

(* Its deferred delete. *)
LeaveAttributeGroup ==
  /\ Doing("leaveAttributeGroup")
  /\ groupsVisiting' = groupsVisiting \ {Head(todo).name}
  /\ Call(<< >>)
  /\ UNCHANGED <<schema, root, visiting, fields>>

Content(type) ==
  [kind |-> "content", name |-> IF type.kind = "simpleRestriction" /\ type.enumerated
                                THEN type.name ELSE type.base,
   ns |-> NoNamespace, choice |-> FALSE, min |-> 1, max |-> 1]

Renamed(content, type) ==
  IF type.kind = "simpleRestriction" /\ type.enumerated
  THEN [content EXCEPT !.name = type.name] ELSE content

Without(s, at) == [i \in 1..(Len(s) - 1) |-> IF i < at THEN s[i] ELSE s[i + 1]]

(* Seeded fault: the text field of the base stays where it is. *)
InterpretContentInPlace ==
  /\ Doing("content")
  /\ LET type == Head(todo).type
         ofBase == {i \in DOMAIN fields : i > Head(todo).from /\ fields[i].kind = "content"}
     IN  fields' = IF ofBase # {} \/ (HasBase(type) /\ type.kind = "simpleExtension")
                   THEN fields ELSE Append(fields, Content(type))
  /\ Call(<< >>)
  /\ UNCHANGED <<schema, root, visiting, groupsVisiting>>

(* The end of interpretSimpleContent: the text field of the base, if it has  *)
(* one, is the last (splitChardataField); else there is one if the base is   *)
(* no complex type, or if this is a restriction.                              *)
InterpretContent ==
  /\ Doing("content")
  /\ LET type == Head(todo).type
         ofBase == {i \in DOMAIN fields : i > Head(todo).from /\ fields[i].kind = "content"}
         first == CHOOSE i \in ofBase : \A j \in ofBase : i <= j
     IN  fields' =
           CASE ofBase # {} -> Append(Without(fields, first), Renamed(fields[first], type))
             [] ofBase = {} /\ HasBase(type) /\ type.kind = "simpleExtension" -> fields
             [] OTHER -> Append(fields, Content(type))
  /\ Call(<< >>)
  /\ UNCHANGED <<schema, root, visiting, groupsVisiting>>

Next ==
  \/ InterpretComplexFields \/ LeaveComplexType
  \/ InterpretElement \/ InterpretGroup \/ LeaveGroup
  \/ InterpretAttribute \/ InterpretAnyAttribute
  \/ InterpretAttributeGroupRef \/ LeaveAttributeGroup
  \/ InterpretContent

Spec == Init /\ [][Next]_vars /\ WF_vars(Next)

-----------------------------------------------------------------------------
(* What the schema says: the content model as a tree, in the order of the     *)
(* schema, with the occurrences that it allows altogether.                    *)

Node == DOMAIN schema.particles
IsLeaf(node) == schema.particles[node].kind \in {"element", "any"}

Children(node) ==
  LET particle == schema.particles[node]
  IN  IF IsLeaf(node) THEN << >>
      ELSE IF particle.refers \in DOMAIN schema.groups
           THEN schema.particles[schema.groups[particle.refers]].children
           ELSE particle.children

IsChoice(node) ==
  LET particle == schema.particles[node]
  IN  IF particle.refers \in DOMAIN schema.groups
      THEN schema.particles[schema.groups[particle.refers]].kind = "choice"
      ELSE particle.kind = "choice"

(* A group is inside of itself: one can go down for ever. *)
CyclicGroups ==
  LET deep[k \in 0..Len(schema.particles)] ==
        IF k = 0 THEN Node
        ELSE UNION {{Children(n)[i] : i \in DOMAIN Children(n)} : n \in deep[k - 1]}
  IN  deep[Len(schema.particles)] # {}

Times(a, b) ==
  CASE a = 0 \/ b = 0                 -> 0
    [] a = Unbounded \/ b = Unbounded -> Unbounded
    [] OTHER                          -> a * b

(* The elements and wildcards below a node.  One of a choice may always be   *)
(* missing.                                                                   *)
Leaves ==
  LET leaves[node \in Node] ==
        LET particle == schema.particles[node]
            below == FlattenSeq([i \in DOMAIN Children(node) |-> leaves[Children(node)[i]]])
        IN  IF IsLeaf(node)
            THEN <<[kind |-> particle.kind, name |-> particle.name, node |-> node, choice |-> FALSE,
                    min |-> particle.min, max |-> particle.max]>>
            ELSE [i \in DOMAIN below |->
                    [below[i] EXCEPT !.choice = @ \/ IsChoice(node),
                                     !.min = IF IsChoice(node) THEN 0 ELSE Times(@, particle.min),
                                     !.max = Times(@, particle.max)]]
  IN  leaves

(* The type and those it inherits from, the furthest first. *)
Chain ==
  LET chain[n \in 0..Len(schema.types)] ==
        IF n = 0 THEN <<root>>
        ELSE LET nearer == chain[n - 1]
                 last == nearer[Len(nearer)]
             IN  IF HasBase(last) /\ \A i \in DOMAIN nearer : nearer[i].name # last.base
                 THEN Append(nearer, ComplexType(last.base)) ELSE nearer
  IN  Reverse(chain[Len(schema.types)])

ContentModel ==
  FlattenSeq([i \in DOMAIN Chain |->
    IF SimpleContent(Chain[i]) THEN << >>
    ELSE LET content == Chain[i].content
             leavesOf(node) ==
               [k \in DOMAIN Leaves[node] |-> [leaf |-> Leaves[node][k], ns |-> Chain[i].ns]]
         IN  FlattenSeq([k \in DOMAIN content |-> leavesOf(content[k])])])

(* The attribute groups a type refers to, directly or not. *)
GroupsOf(type) ==
  LET declared(names) == {names[i] : i \in DOMAIN names} \cap DOMAIN schema.attributeGroups
      closed(S) == /\ declared(type.attributeGroups) \subseteq S
                   /\ \A g \in S : declared(schema.attributeGroups[g].attributeGroups) \subseteq S
  IN  {g \in DOMAIN schema.attributeGroups :
         \A S \in SUBSET DOMAIN schema.attributeGroups : closed(S) => g \in S}

AttributesOf(type) ==
  {type.attributes[i] : i \in DOMAIN type.attributes}
  \cup UNION {{schema.attributeGroups[g].attributes[i] : i \in DOMAIN schema.attributeGroups[g].attributes} :
                g \in GroupsOf(type)}

-----------------------------------------------------------------------------
(* Properties *)

Done == todo = << >>

Elements == AtPlaces(fields, {i \in DOMAIN fields : fields[i].kind \in {"element", "any"}})

(* Type invariant: the occurrences of a field are those of an XML schema.    *)
ComplexFieldsTypeOK ==
  /\ visiting \subseteq {schema.types[i].name : i \in DOMAIN schema.types}
  /\ groupsVisiting \subseteq DOMAIN schema.attributeGroups
  /\ \A i \in DOMAIN fields :
       /\ fields[i].kind \in {"element", "any", "attribute", "anyAttribute", "content"}
       /\ fields[i].ns \in Namespace
       /\ fields[i].choice \in BOOLEAN
       /\ fields[i].min \in Occurrences
       /\ fields[i].max \in Occurrences

(* The maps hold exactly what is being expanded: what has been expanded is    *)
(* expanded again where it is used again, and nothing is inside of itself.    *)
GuardsMatchCalls ==
  LET Leaving(task) == {i \in DOMAIN todo : todo[i].task = task}
  IN  /\ ComplexFieldsTypeOK
      /\ visiting = {todo[i].name : i \in Leaving("leaveType")}
      /\ groupsVisiting = {todo[i].name : i \in Leaving("leaveAttributeGroup")}
      /\ \A task \in {"leaveType", "leaveAttributeGroup"} : \A i, j \in Leaving(task) :
           todo[i].name = todo[j].name => i = j

(* The fields of a type are the elements of its content model, those of its   *)
(* base types before its own, in the order of the schema and in the name      *)
(* space of the type that has them.  A field is one of a choice exactly when  *)
(* a choice is somewhere above it, and holds many only if the schema allows   *)
(* many.                                                                      *)
ElementsMirrorModel ==
  LET model == ContentModel
  IN  Done =>
        /\ Len(Elements) = Len(model)
        /\ \A i \in DOMAIN Elements :
             /\ Elements[i].kind = model[i].leaf.kind
             /\ Elements[i].name = model[i].leaf.name
             /\ Elements[i].ns = ElementNamespace(schema.particles[model[i].leaf.node], model[i].ns)
             /\ Elements[i].choice = model[i].leaf.choice
             /\ Elements[i].max > 1 => model[i].leaf.max > 1

(* docs/IMPLEMENTATION_PLAN.md:158: field metadata preserves cardinality; a    *)
(* field that is required is in every document.                               *)
RequiredOnlyIfAlwaysThere ==
  LET model == ContentModel
  IN  Done => \A i \in DOMAIN Elements : Elements[i].min > 0 /\ ~ Elements[i].choice => model[i].leaf.min > 0

(* Every attribute of a type and of the attribute groups it refers to, through *)
(* others or round a cycle, is a field, and no other is.                      *)
AttributesAreFields ==
  Done => {<<f.name, f.min = 1>> : f \in {fields[i] : i \in {j \in DOMAIN fields : fields[j].kind = "attribute"}}}
          = UNION {{<<a.name, a.required>> : a \in AttributesOf(Chain[i])} : i \in DOMAIN Chain}

(* A type of simple content has one field for its text, behind all its         *)
(* attributes; it is of the nearest restriction's own type that enumerates     *)
(* values, else of the first base that is no complex type.                    *)
TextIsLast ==
  LET enumerations == {i \in DOMAIN Chain : Chain[i].kind = "simpleRestriction" /\ Chain[i].enumerated}
      nearest == CHOOSE i \in enumerations : \A j \in enumerations : j <= i
      text == {i \in DOMAIN fields : fields[i].kind = "content"}
  IN  Done /\ (\A i \in DOMAIN Chain : SimpleContent(Chain[i])) /\ ~ HasBase(Chain[1]) =>
        /\ text = {Len(fields)}
        /\ fields[Len(fields)].name = IF enumerations # {} THEN Chain[nearest].name ELSE Chain[1].base

(* Every type is interpreted to its end, whatever cycles its bases and          *)
(* attribute groups make; only a model group inside of itself has no end.      *)
InterpretationEnds == ~ CyclicGroups => <>Done
=============================================================================
