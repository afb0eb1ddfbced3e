------------------------ MODULE ComplexFields_proofs ------------------------
(***************************************************************************)
(* For every schema, whatever cycles its types and groups make:            *)
(*  - the two maps `visiting' hold at every moment what is being expanded,  *)
(*    each once;                                                           *)
(*  - the attributes of a type and of its groups, and no others, become    *)
(*    fields;                                                              *)
(*  - the text of a simple type is the last of its fields;                 *)
(*  - the elements are those of the content model, in its order and with   *)
(*    the choices and repetitions it has, if no group is inside of itself. *)
(***************************************************************************)
EXTENDS ComplexFields, IndexLemmas, FiniteSetTheorems

IsSequence(s) == \E S : s \in Seq(S)

(* The names of the tasks of one kind on a stack, and that they differ. *)
Named(s, task) == {s[i].name : i \in {j \in DOMAIN s : s[j].task = task}}
Once(s, task) ==
  \A i, j \in DOMAIN s : s[i].task = task /\ s[j].task = task /\ s[i].name = s[j].name => i = j

-----------------------------------------------------------------------------
(* Sequences *)

LEMMA ConcatIsSequence ==
  ASSUME NEW a, NEW b, IsSequence(a), IsSequence(b)
  PROVE  /\ IsSequence(a \o b)
         /\ DOMAIN a = 1..Len(a) /\ DOMAIN b = 1..Len(b) /\ Len(a) \in Nat /\ Len(b) \in Nat
         /\ DOMAIN (a \o b) = 1..(Len(a) + Len(b))
         /\ \A i \in DOMAIN a : (a \o b)[i] = a[i]
         /\ \A i \in DOMAIN b : (a \o b)[Len(a) + i] = b[i]
<1>1. PICK A, B : a \in Seq(A) /\ b \in Seq(B)
  BY DEF IsSequence
<1>2. a \in Seq(A \cup B) /\ b \in Seq(A \cup B)
  BY <1>1
<1> QED  BY <1>2 DEF IsSequence

LEMMA ConcatMembers ==
  ASSUME NEW a, NEW b, IsSequence(a), IsSequence(b), NEW i \in DOMAIN (a \o b)
  PROVE  \/ i \in DOMAIN a /\ (a \o b)[i] = a[i]
         \/ i - Len(a) \in DOMAIN b /\ i \notin DOMAIN a /\ (a \o b)[i] = b[i - Len(a)]
<1>1. /\ Len(a) \in Nat /\ Len(b) \in Nat /\ DOMAIN a = 1..Len(a) /\ DOMAIN b = 1..Len(b)
      /\ i \in 1..(Len(a) + Len(b))
      /\ \A k \in DOMAIN a : (a \o b)[k] = a[k]
      /\ \A k \in DOMAIN b : (a \o b)[Len(a) + k] = b[k]
  BY ConcatIsSequence
<1>2. CASE i <= Len(a)
  BY <1>1, <1>2
<1>3. CASE i > Len(a)
  <2> DEFINE k == i - Len(a)
  <2>1. k \in DOMAIN b /\ i = Len(a) + k /\ i \notin DOMAIN a
    BY <1>1, <1>3
  <2>2. (a \o b)[Len(a) + k] = b[k]
    <3> HIDE DEF k
    <3> QED  BY <1>1, <2>1
  <2> QED  BY <2>1, <2>2
<1> QED  BY <1>1, <1>2, <1>3

LEMMA ConcatNames ==
  ASSUME NEW a, NEW b, IsSequence(a), IsSequence(b), NEW task
  PROVE  /\ Named(a \o b, task) = Named(a, task) \cup Named(b, task)
         /\ Once(a, task) /\ Once(b, task) /\ Named(a, task) \cap Named(b, task) = {}
              => Once(a \o b, task)
<1>1. \A i \in DOMAIN a : i \in DOMAIN (a \o b) /\ (a \o b)[i] = a[i]
  BY ConcatIsSequence
<1>2. \A i \in DOMAIN b : Len(a) + i \in DOMAIN (a \o b) /\ (a \o b)[Len(a) + i] = b[i]
  BY ConcatIsSequence
<1>3. Named(a \o b, task) = Named(a, task) \cup Named(b, task)
  <2>1. Named(a, task) \subseteq Named(a \o b, task)
    BY <1>1 DEF Named
  <2>2. Named(b, task) \subseteq Named(a \o b, task)
    BY <1>2 DEF Named
  <2>3. ASSUME NEW i \in DOMAIN (a \o b), (a \o b)[i].task = task
        PROVE  (a \o b)[i].name \in Named(a, task) \cup Named(b, task)
    BY <2>3, ConcatMembers DEF Named
  <2>4. Named(a \o b, task) \subseteq Named(a, task) \cup Named(b, task)
    BY <2>3 DEF Named
  <2> QED  BY <2>1, <2>2, <2>4
<1>4. ASSUME Once(a, task), Once(b, task), Named(a, task) \cap Named(b, task) = {}
      PROVE  Once(a \o b, task)
  <2> SUFFICES ASSUME NEW i \in DOMAIN (a \o b), NEW j \in DOMAIN (a \o b),
                      (a \o b)[i].task = task, (a \o b)[j].task = task,
                      (a \o b)[i].name = (a \o b)[j].name
               PROVE  i = j
    BY DEF Once
  <2>1. CASE i \in DOMAIN a /\ j \in DOMAIN a
    BY <1>1, <1>4, <2>1 DEF Once
  <2>2. CASE i \notin DOMAIN a /\ j \notin DOMAIN a
    <3>1. /\ i - Len(a) \in DOMAIN b /\ (a \o b)[i] = b[i - Len(a)]
          /\ j - Len(a) \in DOMAIN b /\ (a \o b)[j] = b[j - Len(a)]
      BY <2>2, ConcatMembers
    <3>2. i - Len(a) = j - Len(a)
      BY <3>1, <1>4 DEF Once
    <3> QED  BY <3>2, ConcatIsSequence
  <2>3. ASSUME NEW k \in DOMAIN (a \o b), NEW l \in DOMAIN (a \o b), k \in DOMAIN a, l \notin DOMAIN a,
               (a \o b)[k].task = task, (a \o b)[l].task = task
        PROVE  (a \o b)[k].name # (a \o b)[l].name
    <3>1. (a \o b)[k].name \in Named(a, task)
      BY <1>1, <2>3 DEF Named
    <3>2. (a \o b)[l].name \in Named(b, task)
      BY <2>3, ConcatMembers DEF Named
    <3> QED  BY <3>1, <3>2, <1>4
  <2> QED  BY <2>1, <2>2, <2>3
<1> QED  BY <1>3, <1>4

LEMMA TailIsSequence ==
  ASSUME NEW s, IsSequence(s), s # << >>
  PROVE  /\ IsSequence(Tail(s)) /\ Head(s) = s[1] /\ 1 \in DOMAIN s
         /\ \A i \in DOMAIN Tail(s) : i \in Nat /\ i + 1 \in DOMAIN s /\ Tail(s)[i] = s[i + 1]
         /\ \A i \in DOMAIN s : i = 1 \/ (i - 1 \in DOMAIN Tail(s) /\ Tail(s)[i - 1] = s[i])
<1>1. PICK S : s \in Seq(S)
  BY DEF IsSequence
<1>2. Len(s) \in Nat \ {0} /\ DOMAIN s = 1..Len(s)
  BY <1>1
<1>3. Tail(s) \in Seq(S) /\ DOMAIN Tail(s) = 1..(Len(s) - 1)
  BY <1>1, <1>2
<1>4. \A i \in DOMAIN Tail(s) : Tail(s)[i] = s[i + 1]
  BY <1>1, <1>2, <1>3
<1> QED  BY <1>1, <1>2, <1>3, <1>4 DEF IsSequence

(* Taking the first task off the stack takes its name away, and no other. *)
LEMMA TailNames ==
  ASSUME NEW s, IsSequence(s), s # << >>, NEW task, Once(s, task)
  PROVE  /\ Once(Tail(s), task)
         /\ Head(s).task # task => Named(Tail(s), task) = Named(s, task)
         /\ Head(s).task = task => Named(Tail(s), task) = Named(s, task) \ {Head(s).name}
<1>1. \A i \in DOMAIN Tail(s) : i \in Nat /\ i + 1 \in DOMAIN s /\ Tail(s)[i] = s[i + 1]
  BY TailIsSequence
<1>2. \A i \in DOMAIN s : i = 1 \/ (i - 1 \in DOMAIN Tail(s) /\ Tail(s)[i - 1] = s[i])
  BY TailIsSequence
<1>3. Head(s) = s[1] /\ 1 \in DOMAIN s
  BY TailIsSequence
<1>4. Once(Tail(s), task)
  <2> SUFFICES ASSUME NEW i \in DOMAIN Tail(s), NEW j \in DOMAIN Tail(s),
                      Tail(s)[i].task = task, Tail(s)[j].task = task, Tail(s)[i].name = Tail(s)[j].name
               PROVE  i = j
    BY DEF Once
  <2>1. i + 1 = j + 1
    BY <1>1 DEF Once
  <2> QED  BY <2>1, <1>1
<1>5. Named(Tail(s), task) \subseteq Named(s, task)
  BY <1>1 DEF Named
<1>6. Named(s, task) \subseteq Named(Tail(s), task) \cup (IF Head(s).task = task THEN {Head(s).name} ELSE {})
  <2> SUFFICES ASSUME NEW i \in DOMAIN s, s[i].task = task
               PROVE  s[i].name \in Named(Tail(s), task)
                                      \cup (IF Head(s).task = task THEN {Head(s).name} ELSE {})
    BY DEF Named
  <2>1. CASE i = 1
    BY <2>1, <1>3
  <2>2. CASE i # 1
    BY <2>2, <1>2 DEF Named
  <2> QED  BY <2>1, <2>2
<1>7. ASSUME Head(s).task = task  PROVE Head(s).name \notin Named(Tail(s), task)
  <2> SUFFICES ASSUME NEW i \in DOMAIN Tail(s), Tail(s)[i].task = task, Tail(s)[i].name = Head(s).name
               PROVE  FALSE
    BY DEF Named
  <2>1. i + 1 = 1
    BY <1>1, <1>3, <1>7 DEF Once
  <2> QED  BY <2>1, <1>1
<1> QED  BY <1>4, <1>5, <1>6, <1>7
-----------------------------------------------------------------------------
(* Tasks *)

Types == Range(schema.types)
Marks == {"leaveType", "leaveAttributeGroup"}

IsTask(t) ==
  /\ t.task = "type" => t.type \in Types
  /\ t.task = "particle" => /\ t.node \in DOMAIN schema.particles
                            /\ t.ns \in Namespace /\ t.inChoice \in BOOLEAN
  /\ t.task = "leaveGroup" => t.group.min \in Occurrences /\ t.group.max \in Occurrences
  /\ t.task = "attribute" => t.attribute.ns \in Namespace /\ t.ns \in Namespace
  /\ t.task = "attributeGroup" => t.ns \in Namespace

(* What is pushed, but for the mark of the call that pushes it. *)
Tasks(s) ==
  IsSequence(s) /\ \A i \in DOMAIN s : IsTask(s[i]) /\ s[i].task \notin Marks

LEMMA NoTasks == Tasks(<< >>)
<1>1. << >> \in Seq({})
  OBVIOUS
<1> QED  BY <1>1 DEF Tasks, IsSequence

LEMMA OneTask ==
  ASSUME NEW t, IsTask(t), t.task \notin Marks
  PROVE  Tasks(<<t>>)
<1>1. <<t>> \in Seq({t}) /\ DOMAIN <<t>> = {1} /\ <<t>>[1] = t
  OBVIOUS
<1> HIDE DEF IsTask
<1> QED  BY <1>1 DEF Tasks, IsSequence

LEMMA ConcatTasks ==
  ASSUME NEW a, NEW b, Tasks(a), Tasks(b)
  PROVE  Tasks(a \o b)
<1>1. IsSequence(a \o b)
  BY ConcatIsSequence DEF Tasks
<1>2. \A i \in DOMAIN (a \o b) : IsTask((a \o b)[i]) /\ (a \o b)[i].task \notin Marks
  <2> TAKE i \in DOMAIN (a \o b)
  <2>1. \/ i \in DOMAIN a /\ (a \o b)[i] = a[i]
        \/ i - Len(a) \in DOMAIN b /\ (a \o b)[i] = b[i - Len(a)]
    BY ConcatMembers DEF Tasks
  <2> QED  BY <2>1 DEF Tasks
<1> QED  BY <1>1, <1>2 DEF Tasks

(* A function over the indices of a list is a list. *)
LEMMA MappedIsSequence ==
  ASSUME NEW S, NEW s \in Seq(S), NEW f, f = [i \in DOMAIN s |-> f[i]]
  PROVE  IsSequence(f)
<1>1. DOMAIN s = 1..Len(s) /\ Len(s) \in Nat
  OBVIOUS
<1>2. f \in [1..Len(s) -> {f[i] : i \in DOMAIN s}]
  BY <1>1
<1>3. f \in Seq({f[i] : i \in DOMAIN s})
  BY <1>1, <1>2
<1> QED  BY <1>3 DEF IsSequence

LEMMA ParticleTasksAreTasks ==
  ASSUME NEW particles \in Seq(DOMAIN schema.particles), NEW ns \in Namespace,
         NEW inChoice \in BOOLEAN
  PROVE  Tasks(ParticleTasks(particles, ns, inChoice))
<1>1. IsSequence(ParticleTasks(particles, ns, inChoice))
  <2>1. ParticleTasks(particles, ns, inChoice) = [i \in DOMAIN particles |-> ParticleTasks(particles, ns, inChoice)[i]]
    BY DEF ParticleTasks
  <2> QED  BY <2>1, MappedIsSequence
<1>2. \A i \in DOMAIN particles : particles[i] \in DOMAIN schema.particles
  OBVIOUS
<1> QED  BY <1>1, <1>2 DEF ParticleTasks, Tasks, IsTask, Marks

LEMMA AttributeTasksAreTasks ==
  ASSUME NEW attributes, attributes \in Seq(Range(attributes)), NEW ns \in Namespace,
         \A a \in Range(attributes) : a.ns \in Namespace
  PROVE  Tasks(AttributeTasks(attributes, ns))
<1>1. IsSequence(AttributeTasks(attributes, ns))
  <2>1. AttributeTasks(attributes, ns) = [i \in DOMAIN attributes |-> AttributeTasks(attributes, ns)[i]]
    BY DEF AttributeTasks
  <2> QED  BY <2>1, MappedIsSequence
<1>2. \A i \in DOMAIN attributes : attributes[i] \in Range(attributes)
  BY DEF Range
<1> QED  BY <1>1, <1>2 DEF AttributeTasks, Tasks, IsTask, Marks

LEMMA AttributeGroupTasksAreTasks ==
  ASSUME NEW groups, groups \in Seq(Range(groups)), NEW ns \in Namespace
  PROVE  Tasks(AttributeGroupTasks(groups, ns))
<1>1. IsSequence(AttributeGroupTasks(groups, ns))
  <2>1. AttributeGroupTasks(groups, ns) = [i \in DOMAIN groups |-> AttributeGroupTasks(groups, ns)[i]]
    BY DEF AttributeGroupTasks
  <2> QED  BY <2>1, MappedIsSequence
<1> QED  BY <1>1 DEF AttributeGroupTasks, Tasks, IsTask, Marks

LEMMA AnyAttributeTasksAreTasks ==
  ASSUME NEW any \in Nat, NEW ns
  PROVE  Tasks(AnyAttributeTasks(any, ns))
<1> DEFINE t == [task |-> "anyAttribute", ns |-> ns]
<1>1. AnyAttributeTasks(any, ns) \in Seq({t})
  BY DEF AnyAttributeTasks
<1>2. \A i \in DOMAIN AnyAttributeTasks(any, ns) : AnyAttributeTasks(any, ns)[i] = t
  BY DEF AnyAttributeTasks
<1> QED  BY <1>1, <1>2 DEF Tasks, IsTask, IsSequence, Marks

(* The tasks of a type, and those of an attribute group. *)
LEMMA OwnTasksAreTasks ==
  ASSUME IsSchema(schema), NEW type \in Types
  PROVE  Tasks(OwnTasks(type))
<1>1. /\ type.ns \in Namespace /\ type.content \in Seq(DOMAIN schema.particles)
      /\ type.attributes \in Seq(Range(type.attributes))
      /\ type.attributeGroups \in Seq(Range(type.attributeGroups))
      /\ type.any \in Nat
      /\ \A a \in Range(type.attributes) : a.ns \in Namespace
  BY DEF IsSchema, Types
<1> DEFINE particles == IF SimpleContent(type) THEN << >>
                        ELSE ParticleTasks(type.content, type.ns, FALSE)
           attributes == AttributeTasks(type.attributes, type.ns)
           groups == AttributeGroupTasks(type.attributeGroups, type.ns)
           any == AnyAttributeTasks(type.any, type.ns)
<1>2. Tasks(particles)
  BY <1>1, NoTasks, ParticleTasksAreTasks
<1>3. Tasks(attributes)
  BY <1>1, AttributeTasksAreTasks
<1>4. Tasks(groups)
  BY <1>1, AttributeGroupTasksAreTasks
<1>5. Tasks(any)
  BY <1>1, AnyAttributeTasksAreTasks
<1>6. Tasks(particles \o attributes \o groups \o any)
  <2> HIDE DEF particles, attributes, groups, any
  <2> QED  BY <1>2, <1>3, <1>4, <1>5, ConcatTasks
<1> QED  BY <1>6 DEF OwnTasks

LEMMA GroupTasksAreTasks ==
  ASSUME IsSchema(schema), NEW name \in DOMAIN schema.attributeGroups, NEW ns \in Namespace
  PROVE  LET group == schema.attributeGroups[name]
         IN  Tasks(AttributeTasks(group.attributes, ns)
                   \o AttributeGroupTasks(group.attributeGroups, ns)
                   \o AnyAttributeTasks(group.any, ns))
<1> DEFINE group == schema.attributeGroups[name]
<1>1. /\ group.attributes \in Seq(Range(group.attributes))
      /\ group.attributeGroups \in Seq(Range(group.attributeGroups))
      /\ group.any \in Nat
      /\ \A a \in Range(group.attributes) : a.ns \in Namespace
  BY DEF IsSchema
<1>2. Tasks(AttributeTasks(group.attributes, ns))
  BY <1>1, AttributeTasksAreTasks
<1>3. Tasks(AttributeGroupTasks(group.attributeGroups, ns))
  BY <1>1, AttributeGroupTasksAreTasks
<1>4. Tasks(AnyAttributeTasks(group.any, ns))
  BY <1>1, AnyAttributeTasksAreTasks
<1>5. Tasks(AttributeTasks(group.attributes, ns)
            \o AttributeGroupTasks(group.attributeGroups, ns)
            \o AnyAttributeTasks(group.any, ns))
  <2> HIDE DEF group
  <2> QED  BY <1>2, <1>3, <1>4, ConcatTasks
<1> QED  BY <1>5

(* The base that is looked up is the last type declared with its name. *)
LEMMA BaseIsType ==
  ASSUME IsSchema(schema), NEW name, Declared(name) # {}
  PROVE  ComplexType(name) \in Types
<1>1. DOMAIN schema.types = 1..Len(schema.types) /\ Len(schema.types) \in Nat
  <2>1. schema.types \in Seq(Range(schema.types))
    BY DEF IsSchema
  <2> QED  BY <2>1
<1>2. \E i \in Declared(name) : \A j \in Declared(name) : j <= i
  BY <1>1, LargestIndex DEF Declared
<1> DEFINE last == CHOOSE i \in Declared(name) : \A j \in Declared(name) : j <= i
<1>3. last \in Declared(name)
  BY <1>2
<1>4. last \in DOMAIN schema.types
  BY <1>3 DEF Declared
<1> QED  BY <1>4 DEF ComplexType, Types, Range

LEMMA BodyTasksAreTasks ==
  ASSUME IsSchema(schema), NEW type \in Types
  PROVE  Tasks(BodyTasks(type))
<1> DEFINE base == IF HasBase(type) THEN <<TypeTask(ComplexType(type.base))>> ELSE << >>
           content == IF SimpleContent(type)
                      THEN <<[task |-> "content", type |-> type, from |-> Len(fields)]>> ELSE << >>
<1>1. Tasks(base)
  <2>1. CASE HasBase(type)
    <3>1. ComplexType(type.base) \in Types
      BY <2>1, BaseIsType DEF HasBase
    <3>2. /\ IsTask(TypeTask(ComplexType(type.base)))
          /\ TypeTask(ComplexType(type.base)).task \notin Marks
      BY <3>1 DEF IsTask, TypeTask, Marks
    <3> QED  BY <2>1, <3>2, OneTask
  <2>2. CASE ~ HasBase(type)
    BY <2>2, NoTasks
  <2> QED  BY <2>1, <2>2
<1>2. Tasks(content)
  <2> DEFINE t == [task |-> "content", type |-> type, from |-> Len(fields)]
  <2>1. IsTask(t) /\ t.task \notin Marks
    BY DEF IsTask, Marks
  <2>2. Tasks(<<t>>)
    <3> HIDE DEF t
    <3> QED  BY <2>1, OneTask
  <2> QED  BY <2>2, NoTasks
<1>3. Tasks(base \o OwnTasks(type) \o content)
  <2> HIDE DEF base, content
  <2> QED  BY <1>1, <1>2, OwnTasksAreTasks, ConcatTasks
<1> QED  BY <1>3 DEF BodyTasks

-----------------------------------------------------------------------------
(* The invariant *)

IsField(f) ==
  f \in [kind : {"element", "any", "attribute", "anyAttribute", "content"}, name : {f.name},
         ns : Namespace, choice : BOOLEAN, min : Occurrences, max : Occurrences]

Stack == IsSequence(todo) /\ \A i \in DOMAIN todo : IsTask(todo[i])
Fields == IsSequence(fields) /\ \A i \in DOMAIN fields : IsField(fields[i])

Marked ==
  /\ visiting = Named(todo, "leaveType")
  /\ groupsVisiting = Named(todo, "leaveAttributeGroup")
  /\ \A task \in Marks : Once(todo, task)

Known ==
  /\ visiting \subseteq {schema.types[i].name : i \in DOMAIN schema.types}
  /\ groupsVisiting \subseteq DOMAIN schema.attributeGroups

IInv == IsSchema(schema) /\ Stack /\ Fields /\ Marked /\ Known

THEOREM InitIInv == Init => IInv
<1> SUFFICES ASSUME Init PROVE IInv
  OBVIOUS
<1>1. IsSchema(schema)
  BY SchemaAssumption DEF Init
<1>2. root \in Types
  BY DEF Init, Types, Range
<1>3. IsTask(TypeTask(root)) /\ TypeTask(root).task \notin Marks
  BY <1>2 DEF IsTask, TypeTask, Marks
<1>4. Tasks(todo)
  BY <1>3, OneTask DEF Init
<1>5. fields \in Seq({})
  BY DEF Init
<1>6. Fields
  BY <1>5 DEF Fields, IsSequence, Init
<1>7. Marked
  BY <1>4 DEF Marked, Named, Once, Tasks, Marks, Init
<1> QED  BY <1>1, <1>4, <1>6, <1>7 DEF IInv, Stack, Tasks, Known, Init

-----------------------------------------------------------------------------
(* Calls *)

(* What is pushed bears no marks ... *)
LEMMA TasksBearNoMarks ==
  ASSUME NEW s, Tasks(s), NEW task \in Marks
  PROVE  Named(s, task) = {} /\ Once(s, task)
BY DEF Tasks, Named, Once

(* ... but for the one of the call that pushes it. *)
LEMMA MarkIsNamed ==
  ASSUME NEW s, Tasks(s), NEW mark \in Marks, NEW name, NEW task \in Marks
  PROVE  LET pushed == s \o <<[task |-> mark, name |-> name]>>
         IN  /\ IsSequence(pushed)
             /\ \A i \in DOMAIN pushed : IsTask(pushed[i])
             /\ Once(pushed, task)
             /\ Named(pushed, task) = IF task = mark THEN {name} ELSE {}
<1> DEFINE t == [task |-> mark, name |-> name]
           last == <<t>>
<1>1. last \in Seq({t}) /\ DOMAIN last = {1} /\ last[1] = t
  OBVIOUS
<1>2. IsSequence(last) /\ IsSequence(s)
  BY <1>1 DEF IsSequence, Tasks
<1>3. Once(last, task) /\ Named(last, task) = IF task = mark THEN {name} ELSE {}
  BY <1>1 DEF Once, Named
<1>4. Once(s, task) /\ Named(s, task) = {}
  BY TasksBearNoMarks
<1>5. IsTask(t)
  BY DEF IsTask, Marks
<1>6. \A i \in DOMAIN (s \o last) : IsTask((s \o last)[i])
  <2> TAKE i \in DOMAIN (s \o last)
  <2>1. \/ i \in DOMAIN s /\ (s \o last)[i] = s[i]
        \/ i - Len(s) \in DOMAIN last /\ (s \o last)[i] = last[i - Len(s)]
    <3> HIDE DEF last
    <3> QED  BY <1>2, ConcatMembers
  <2>2. \A k \in DOMAIN last : last[k] = t
    BY <1>1
  <2> HIDE DEF last, t
  <2> QED  BY <2>1, <2>2, <1>5 DEF Tasks
<1>7. /\ IsSequence(s \o last)
      /\ Once(s \o last, task)
      /\ Named(s \o last, task) = Named(s, task) \cup Named(last, task)
  <2> HIDE DEF last
  <2> QED  BY <1>2, <1>3, <1>4, ConcatNames, ConcatIsSequence
<1> QED  BY <1>3, <1>4, <1>6, <1>7

(* A call takes the first task off the stack and puts others there. *)
LEMMA CallKeepsStack ==
  ASSUME Stack, todo # << >>, schema' = schema,
         NEW tasks, IsSequence(tasks), \A i \in DOMAIN tasks : IsTask(tasks[i]), Call(tasks)
  PROVE  Stack'
<1>1. IsSequence(todo) /\ IsSequence(Tail(todo))
  BY TailIsSequence DEF Stack
<1>2. todo' = tasks \o Tail(todo)
  BY DEF Call
<1>3. IsSequence(todo')
  BY <1>1, <1>2, ConcatIsSequence
<1>4. \A i \in DOMAIN Tail(todo) : IsTask(Tail(todo)[i])
  BY <1>1, TailIsSequence DEF Stack
<1>5. \A i \in DOMAIN todo' : IsTask(todo'[i])
  <2> TAKE i \in DOMAIN todo'
  <2>1. \/ i \in DOMAIN tasks /\ todo'[i] = tasks[i]
        \/ i - Len(tasks) \in DOMAIN Tail(todo) /\ todo'[i] = Tail(todo)[i - Len(tasks)]
    BY <1>1, <1>2, ConcatMembers
  <2> QED  BY <2>1, <1>4
<1>6. \A t : IsTask(t)' <=> IsTask(t)
  BY DEF IsTask, Types
<1> QED  BY <1>3, <1>5, <1>6 DEF Stack

LEMMA CallNames ==
  ASSUME Stack, todo # << >>, NEW tasks, IsSequence(tasks), Call(tasks),
         NEW task, Once(todo, task), Once(tasks, task), Named(tasks, task) \cap Named(todo, task) = {}
  PROVE  LET rest == IF Head(todo).task = task
                     THEN Named(todo, task) \ {Head(todo).name} ELSE Named(todo, task)
         IN  Once(todo', task) /\ Named(todo', task) = Named(tasks, task) \cup rest
<1>1. IsSequence(todo) /\ IsSequence(Tail(todo))
  BY TailIsSequence DEF Stack
<1>2. todo' = tasks \o Tail(todo)
  BY DEF Call
<1>3. /\ Once(Tail(todo), task)
      /\ Head(todo).task # task => Named(Tail(todo), task) = Named(todo, task)
      /\ Head(todo).task = task => Named(Tail(todo), task) = Named(todo, task) \ {Head(todo).name}
  BY <1>1, TailNames
<1>4. Named(tasks, task) \cap Named(Tail(todo), task) = {}
  BY <1>3
<1> QED  BY <1>1, <1>2, <1>3, <1>4, ConcatNames

(* A call that pushes no mark leaves both maps as they are. *)
LEMMA PlainCall ==
  ASSUME Stack, Marked, todo # << >>, Head(todo).task \notin Marks,
         schema' = schema, visiting' = visiting, groupsVisiting' = groupsVisiting,
         NEW tasks, Tasks(tasks), Call(tasks)
  PROVE  Stack' /\ Marked'
<1>1. Stack'
  BY CallKeepsStack DEF Tasks
<1>2. ASSUME NEW task \in Marks
      PROVE  Once(todo', task) /\ Named(todo', task) = Named(todo, task)
  <2>1. Once(tasks, task) /\ Named(tasks, task) = {} /\ Once(todo, task) /\ IsSequence(tasks)
    BY TasksBearNoMarks DEF Marked, Tasks
  <2>2. Head(todo).task # task /\ Named(tasks, task) \cap Named(todo, task) = {}
    BY <1>2, <2>1
  <2>3. /\ Once(todo', task)
        /\ Named(todo', task) = Named(tasks, task) \cup Named(todo, task)
    BY <2>1, <2>2, CallNames
  <2> QED  BY <2>1, <2>3
<1>3. visiting' = Named(todo', "leaveType") /\ groupsVisiting' = Named(todo', "leaveAttributeGroup")
  BY <1>2 DEF Marked, Marks
<1>4. \A task \in Marks : Once(todo', task)
  BY <1>2
<1> QED  BY <1>1, <1>3, <1>4 DEF Marked

-----------------------------------------------------------------------------
(* Fields *)

LEMMA AddKeepsFields ==
  ASSUME Fields, NEW f, IsField(f), fields' = Append(fields, f)
  PROVE  Fields'
<1>1. PICK S : fields \in Seq(S)
  BY DEF Fields, IsSequence
<1>2. fields \in Seq(S \cup {f}) /\ DOMAIN fields = 1..Len(fields) /\ Len(fields) \in Nat
  BY <1>1
<1>3. fields' \in Seq(S \cup {f}) /\ DOMAIN fields' = 1..(Len(fields) + 1)
  BY <1>2
<1>4. \A i \in DOMAIN fields' : fields'[i] = f \/ (i \in DOMAIN fields /\ fields'[i] = fields[i])
  BY <1>2, <1>3
<1> HIDE DEF IsField
<1> QED  BY <1>3, <1>4 DEF Fields, IsSequence

(* The fields of a choice take its occurrences. *)
LEMMA OccursKeepsField ==
  ASSUME NEW f, IsField(f), NEW min \in Occurrences, NEW max \in Occurrences
  PROVE  IsField([f EXCEPT !.min = min, !.max = max])
BY DEF IsField

LEMMA RenamedKeepsField ==
  ASSUME NEW f, IsField(f), NEW type
  PROVE  IsField(Renamed(f, type))
BY DEF IsField, Renamed

LEMMA LeaveGroupKeepsFields ==
  ASSUME IInv, LeaveGroup
  PROVE  Fields'
<1> DEFINE group == Head(todo).group
           nested == {i \in DOMAIN fields : i > Head(todo).from}
           f == [i \in DOMAIN fields |-> IF i \in nested
                                         THEN [fields[i] EXCEPT !.min = group.min, !.max = group.max]
                                         ELSE fields[i]]
<1>1. todo # << >> /\ Head(todo).task = "leaveGroup"
  BY DEF LeaveGroup, Doing
<1>2. group.min \in Occurrences /\ group.max \in Occurrences
  <2>1. IsTask(Head(todo))
    BY <1>1, TailIsSequence DEF IInv, Stack
  <2> QED  BY <1>1, <2>1 DEF IsTask
<1>3. \A i \in DOMAIN fields : IsField(f[i])
  <2> TAKE i \in DOMAIN fields
  <2>1. IsField(fields[i])
    BY DEF IInv, Fields
  <2>2. IsField([fields[i] EXCEPT !.min = group.min, !.max = group.max])
    <3> HIDE DEF group
    <3> QED  BY <2>1, <1>2, OccursKeepsField
  <2> HIDE DEF group, nested, IsField
  <2> QED  BY <2>1, <2>2
<1>4. IsSequence(f)
  <2>1. PICK S : fields \in Seq(S)
    BY DEF IInv, Fields, IsSequence
  <2>2. f = [i \in DOMAIN fields |-> f[i]]
    OBVIOUS
  <2> HIDE DEF f
  <2> QED  BY <2>1, <2>2, MappedIsSequence
<1>5. DOMAIN f = DOMAIN fields
  OBVIOUS
<1>6. fields' = f \/ fields' = fields
  BY DEF LeaveGroup
<1> HIDE DEF f, IsField
<1> QED  BY <1>3, <1>4, <1>5, <1>6 DEF IInv, Fields

(* The text of the base is taken out, put last, and renamed by an             *)
(* enumeration.                                                               *)
LEMMA InterpretContentKeepsFields ==
  ASSUME IInv, InterpretContent
  PROVE  Fields'
<1> DEFINE type == Head(todo).type
           ofBase == {i \in DOMAIN fields : i > Head(todo).from /\ fields[i].kind = "content"}
           first == CHOOSE i \in ofBase : \A j \in ofBase : i <= j
           rest == Without(fields, first)
<1>1. PICK S : fields \in Seq(S)
  BY DEF IInv, Fields, IsSequence
<1>2. DOMAIN fields = 1..Len(fields) /\ Len(fields) \in Nat
  BY <1>1
<1>3. \A i \in DOMAIN fields : IsField(fields[i])
  BY DEF IInv, Fields
<1>4. CASE ofBase # {}
  <2>1. ofBase \subseteq Nat
    BY <1>2
  <2>2. first \in ofBase
    <3> HIDE DEF ofBase
    <3> QED  BY <2>1, <1>4, SmallestIndex
  <2>3. first \in DOMAIN fields /\ first \in Nat
    BY <2>2, <1>2
  <2>4. Len(fields) - 1 \in Nat
    <3> HIDE DEF first
    <3> QED  BY <2>3, <1>2
  <2>5. rest \in Seq(S) /\ DOMAIN rest = 1..(Len(fields) - 1)
    <3>1. \A i \in 1..(Len(fields) - 1) : fields[i] \in S /\ fields[i + 1] \in S
      BY <1>1, <1>2
    <3> HIDE DEF first
    <3> QED  BY <2>4, <3>1 DEF Without
  <2>6. \A i \in DOMAIN rest : IsField(rest[i])
    <3> TAKE i \in DOMAIN rest
    <3>1. i \in DOMAIN fields /\ i + 1 \in DOMAIN fields /\ (rest[i] = fields[i] \/ rest[i] = fields[i + 1])
      <4>1. i \in 1..(Len(fields) - 1)
        BY <2>5
      <4> HIDE DEF first
      <4> QED  BY <4>1, <1>2 DEF Without
    <3> HIDE DEF rest
    <3> QED  BY <3>1, <1>3
  <2> DEFINE f == Renamed(fields[first], type)
  <2>7. IsField(f)
    <3> HIDE DEF first, type
    <3> QED  BY <2>3, <1>3, RenamedKeepsField
  <2>8. fields' = Append(rest, f)
    BY <1>4 DEF InterpretContent
  <2>9. /\ fields' \in Seq(S \cup {f})
        /\ \A i \in DOMAIN fields' : fields'[i] = f \/ (i \in DOMAIN rest /\ fields'[i] = rest[i])
    <3>1. rest \in Seq(S \cup {f})
      <4> HIDE DEF rest, f
      <4> QED  BY <2>5
    <3> HIDE DEF rest, f
    <3> QED  BY <3>1, <2>5, <2>8
  <2> HIDE DEF rest, f, IsField
  <2> QED  BY <2>6, <2>7, <2>9 DEF Fields, IsSequence
<1>5. CASE ofBase = {}
  <2>1. fields' = fields \/ fields' = Append(fields, Content(type))
    BY <1>5 DEF InterpretContent
  <2>2. IsField(Content(type))
    BY OccursAssumption, NamespaceAssumption DEF IsField, Content, Occurrences
  <2>3. Fields
    BY DEF IInv
  <2> HIDE DEF type, IsField
  <2> QED  BY <2>1, <2>2, <2>3, AddKeepsFields DEF Fields
<1> QED  BY <1>4, <1>5

-----------------------------------------------------------------------------
(* Steps *)

LEMMA HeadIsTask ==
  ASSUME Stack, todo # << >>
  PROVE  IsTask(Head(todo))
BY TailIsSequence DEF Stack

(* Entering a type or a group puts its mark on the stack and its name into    *)
(* the map; it was in neither.                                                *)
LEMMA EnterKeepsMarks ==
  ASSUME Stack, Marked, todo # << >>, Head(todo).task \notin Marks, schema' = schema,
         NEW tasks, Tasks(tasks), NEW mark \in Marks, NEW name, name \notin Named(todo, mark),
         Call(tasks \o <<[task |-> mark, name |-> name]>>)
  PROVE  /\ Stack'
         /\ \A task \in Marks :
              /\ Once(todo', task)
              /\ Named(todo', task) = Named(todo, task) \cup (IF task = mark THEN {name} ELSE {})
<1> DEFINE pushed == tasks \o <<[task |-> mark, name |-> name]>>
<1>1. /\ IsSequence(pushed) /\ \A i \in DOMAIN pushed : IsTask(pushed[i])
      /\ \A task \in Marks : Once(pushed, task) /\ Named(pushed, task) = IF task = mark THEN {name} ELSE {}
  BY MarkIsNamed
<1>2. Call(pushed)
  OBVIOUS
<1> HIDE DEF pushed
<1>3. Stack'
  BY <1>1, <1>2, CallKeepsStack
<1>4. ASSUME NEW task \in Marks
      PROVE  /\ Once(todo', task)
             /\ Named(todo', task) = Named(todo, task) \cup (IF task = mark THEN {name} ELSE {})
  <2>1. Head(todo).task # task /\ Once(todo, task) /\ Once(pushed, task)
    BY <1>1 DEF Marked
  <2>2. Named(pushed, task) \cap Named(todo, task) = {}
    BY <1>1
  <2>3. Once(todo', task) /\ Named(todo', task) = Named(pushed, task) \cup Named(todo, task)
    BY <1>1, <1>2, <2>1, <2>2, CallNames
  <2> QED  BY <2>3, <1>1
<1> QED  BY <1>3, <1>4

(* Returning takes the mark off the stack.                                    *)
LEMMA ReturnKeepsMarks ==
  ASSUME Stack, Marked, todo # << >>, schema' = schema, Call(<< >>)
  PROVE  /\ Stack'
         /\ \A task \in Marks :
              /\ Once(todo', task)
              /\ Named(todo', task) = IF Head(todo).task = task
                                      THEN Named(todo, task) \ {Head(todo).name} ELSE Named(todo, task)
<1>1. Tasks(<< >>)
  BY NoTasks
<1>2. Stack'
  BY <1>1, CallKeepsStack DEF Tasks
<1>3. ASSUME NEW task \in Marks
      PROVE  /\ Once(todo', task)
             /\ Named(todo', task) = IF Head(todo).task = task
                                     THEN Named(todo, task) \ {Head(todo).name} ELSE Named(todo, task)
  <2>1. Once(<< >>, task) /\ Named(<< >>, task) = {} /\ Once(todo, task) /\ IsSequence(<< >>)
    BY <1>1, TasksBearNoMarks DEF Marked, Tasks
  <2>2. Named(<< >>, task) \cap Named(todo, task) = {}
    BY <2>1
  <2> QED  BY <2>1, <2>2, CallNames
<1> QED  BY <1>2, <1>3

LEMMA TypesKeepIInv ==
  ASSUME IInv, InterpretComplexFields \/ LeaveComplexType
  PROVE  IInv'
<1>1. /\ todo # << >> /\ IsTask(Head(todo)) /\ schema' = schema /\ fields' = fields
      /\ groupsVisiting' = groupsVisiting
  BY HeadIsTask DEF IInv, InterpretComplexFields, LeaveComplexType, Doing
<1>2. IsSchema(schema)' /\ Fields'
  BY <1>1 DEF IInv, Fields
<1>3. CASE InterpretComplexFields
  <2> DEFINE type == Head(todo).type
  <2>1. type \in Types /\ Head(todo).task \notin Marks
    BY <1>1, <1>3 DEF InterpretComplexFields, Doing, IsTask, Marks
  <2>2. CASE type.name \in visiting
    <3>1. Call(<< >>) /\ visiting' = visiting
      BY <1>3, <2>2 DEF InterpretComplexFields
    <3>2. Stack' /\ Marked'
      BY <1>1, <2>1, <3>1, NoTasks, PlainCall DEF IInv
    <3> QED  BY <1>1, <1>2, <3>1, <3>2 DEF IInv, Known
  <2>3. CASE type.name \notin visiting
    <3>1. /\ Call(BodyTasks(type) \o <<[task |-> "leaveType", name |-> type.name]>>)
          /\ visiting' = visiting \cup {type.name}
      BY <1>3, <2>3 DEF InterpretComplexFields
    <3>2. Tasks(BodyTasks(type))
      BY <2>1, BodyTasksAreTasks DEF IInv
    <3>3. type.name \notin Named(todo, "leaveType")
      BY <2>3 DEF IInv, Marked
    <3> DEFINE name == type.name
               body == BodyTasks(type)
    <3>4. /\ Stack'
          /\ \A task \in Marks :
               /\ Once(todo', task)
               /\ Named(todo', task) = Named(todo, task) \cup (IF task = "leaveType" THEN {name} ELSE {})
      <4>1. /\ Call(body \o <<[task |-> "leaveType", name |-> name]>>) /\ Tasks(body)
            /\ name \notin Named(todo, "leaveType") /\ "leaveType" \in Marks
        BY <3>1, <3>2, <3>3 DEF Marks
      <4> HIDE DEF name, body
      <4> QED  BY <1>1, <2>1, <4>1, EnterKeepsMarks DEF IInv
    <3>5. Marked'
      <4>1. visiting' = Named(todo', "leaveType")
        BY <3>1, <3>4 DEF IInv, Marked, Marks
      <4>2. groupsVisiting' = Named(todo', "leaveAttributeGroup")
        BY <1>1, <3>4 DEF IInv, Marked, Marks
      <4>3. \A task \in Marks : Once(todo', task)
        BY <3>4
      <4> QED  BY <4>1, <4>2, <4>3 DEF Marked
    <3>6. Known'
      <4>1. type.name \in {schema.types[i].name : i \in DOMAIN schema.types}
        BY <2>1 DEF Types, Range
      <4> QED  BY <1>1, <3>1, <4>1 DEF IInv, Known
    <3> QED  BY <1>2, <3>4, <3>5, <3>6 DEF IInv
  <2> QED  BY <2>2, <2>3
<1>4. CASE LeaveComplexType
  <2>1. /\ Head(todo).task = "leaveType" /\ Call(<< >>)
        /\ visiting' = visiting \ {Head(todo).name}
    BY <1>4 DEF LeaveComplexType, Doing
  <2>2. /\ Stack'
        /\ \A task \in Marks :
             /\ Once(todo', task)
             /\ Named(todo', task) = IF Head(todo).task = task
                                     THEN Named(todo, task) \ {Head(todo).name} ELSE Named(todo, task)
    BY <1>1, <2>1, ReturnKeepsMarks DEF IInv
  <2>3. visiting' = Named(todo', "leaveType")
    BY <2>1, <2>2 DEF IInv, Marked, Marks
  <2>4. groupsVisiting' = Named(todo', "leaveAttributeGroup")
    BY <1>1, <2>1, <2>2 DEF IInv, Marked, Marks
  <2>5. Marked'
    BY <2>2, <2>3, <2>4 DEF Marked
  <2>6. Known'
    BY <1>1, <2>1 DEF IInv, Known
  <2> QED  BY <1>2, <2>2, <2>5, <2>6 DEF IInv
<1> QED  BY <1>3, <1>4

LEMMA AttributeGroupsKeepIInv ==
  ASSUME IInv, InterpretAttributeGroupRef \/ LeaveAttributeGroup
  PROVE  IInv'
<1>1. /\ todo # << >> /\ IsTask(Head(todo)) /\ schema' = schema /\ fields' = fields
      /\ visiting' = visiting
  BY HeadIsTask DEF IInv, InterpretAttributeGroupRef, LeaveAttributeGroup, Doing
<1>2. IsSchema(schema)' /\ Fields'
  BY <1>1 DEF IInv, Fields
<1>3. CASE InterpretAttributeGroupRef
  <2> DEFINE name == Head(todo).name
             ns == Head(todo).ns
             group == schema.attributeGroups[name]
             body == AttributeTasks(group.attributes, ns)
                     \o AttributeGroupTasks(group.attributeGroups, ns)
                     \o AnyAttributeTasks(group.any, ns)
  <2>1. ns \in Namespace /\ Head(todo).task \notin Marks
    BY <1>1, <1>3 DEF InterpretAttributeGroupRef, Doing, IsTask, Marks
  <2>2. CASE name \in groupsVisiting \/ name \notin DOMAIN schema.attributeGroups
    <3>1. Call(<< >>) /\ groupsVisiting' = groupsVisiting
      BY <1>3, <2>2 DEF InterpretAttributeGroupRef
    <3>2. Stack' /\ Marked'
      BY <1>1, <2>1, <3>1, NoTasks, PlainCall DEF IInv
    <3> QED  BY <1>1, <1>2, <3>1, <3>2 DEF IInv, Known
  <2>3. CASE name \notin groupsVisiting /\ name \in DOMAIN schema.attributeGroups
    <3> DEFINE last == <<[task |-> "leaveAttributeGroup", name |-> name]>>
    <3>1. groupsVisiting' = groupsVisiting \cup {name}
      BY <1>3, <2>3 DEF InterpretAttributeGroupRef
    <3>2. Call(AttributeTasks(group.attributes, ns)
               \o AttributeGroupTasks(group.attributeGroups, ns)
               \o AnyAttributeTasks(group.any, ns) \o last)
      BY <1>3, <2>3 DEF InterpretAttributeGroupRef
    <3>3. Tasks(body)
      BY <2>1, <2>3, GroupTasksAreTasks DEF IInv
    <3>4. name \notin Named(todo, "leaveAttributeGroup")
      BY <2>3 DEF IInv, Marked
    <3>5. /\ Stack'
          /\ \A task \in Marks :
               /\ Once(todo', task)
               /\ Named(todo', task) = Named(todo, task)
                                         \cup (IF task = "leaveAttributeGroup" THEN {name} ELSE {})
      <4>1. /\ Call(body \o <<[task |-> "leaveAttributeGroup", name |-> name]>>)
            /\ "leaveAttributeGroup" \in Marks
        BY <3>2 DEF Marks
      <4> HIDE DEF name, body
      <4> QED  BY <1>1, <2>1, <3>3, <3>4, <4>1, EnterKeepsMarks DEF IInv
    <3>6. Marked'
      <4>1. groupsVisiting' = Named(todo', "leaveAttributeGroup")
        BY <3>1, <3>5 DEF IInv, Marked, Marks
      <4>2. visiting' = Named(todo', "leaveType")
        BY <1>1, <3>5 DEF IInv, Marked, Marks
      <4>3. \A task \in Marks : Once(todo', task)
        BY <3>5
      <4> QED  BY <4>1, <4>2, <4>3 DEF Marked
    <3>7. Known'
      BY <1>1, <2>3, <3>1 DEF IInv, Known
    <3> QED  BY <1>2, <3>5, <3>6, <3>7 DEF IInv
  <2> QED  BY <2>2, <2>3
<1>4. CASE LeaveAttributeGroup
  <2>1. /\ Head(todo).task = "leaveAttributeGroup" /\ Call(<< >>)
        /\ groupsVisiting' = groupsVisiting \ {Head(todo).name}
    BY <1>4 DEF LeaveAttributeGroup, Doing
  <2>2. /\ Stack'
        /\ \A task \in Marks :
             /\ Once(todo', task)
             /\ Named(todo', task) = IF Head(todo).task = task
                                     THEN Named(todo, task) \ {Head(todo).name} ELSE Named(todo, task)
    BY <1>1, <2>1, ReturnKeepsMarks DEF IInv
  <2>3. groupsVisiting' = Named(todo', "leaveAttributeGroup")
    BY <2>1, <2>2 DEF IInv, Marked, Marks
  <2>4. visiting' = Named(todo', "leaveType")
    BY <1>1, <2>1, <2>2 DEF IInv, Marked, Marks
  <2>5. Marked'
    BY <2>2, <2>3, <2>4 DEF Marked
  <2>6. Known'
    BY <1>1, <2>1 DEF IInv, Known
  <2> QED  BY <1>2, <2>2, <2>5, <2>6 DEF IInv
<1> QED  BY <1>3, <1>4

(* A group has occurrences that a schema can say, and particles; those of a   *)
(* reference are the ones of the group it refers to.                          *)
LEMMA ResolvedIsParticle ==
  ASSUME IsSchema(schema), NEW node \in DOMAIN schema.particles
  PROVE  LET group == ResolveGroupRef(schema.particles[node])
         IN  /\ group.children \in Seq(DOMAIN schema.particles)
             /\ group.min \in Occurrences /\ group.max \in Occurrences
<1> DEFINE IsParticle(p) ==
      p \in [kind : {"element", "any", "sequence", "choice", "all", ""}, name : {p.name},
             ns : Namespace, ref : BOOLEAN, qualified : BOOLEAN, refers : {p.refers},
             children : Seq(DOMAIN schema.particles), min : Occurrences, max : Occurrences]
<1>1. \A n \in DOMAIN schema.particles : IsParticle(schema.particles[n])
  BY DEF IsSchema, Range
<1>2. \A g \in DOMAIN schema.groups : schema.groups[g] \in DOMAIN schema.particles
  BY DEF IsSchema
<1>3. IsParticle(schema.particles[node])
  BY <1>1
<1>4. CASE schema.particles[node].refers \notin DOMAIN schema.groups
  BY <1>3, <1>4 DEF ResolveGroupRef
<1>5. CASE schema.particles[node].refers \in DOMAIN schema.groups
  <2> DEFINE content == schema.particles[schema.groups[schema.particles[node].refers]]
  <2>1. IsParticle(content)
    BY <1>1, <1>2, <1>5
  <2> QED  BY <1>3, <1>5, <2>1 DEF ResolveGroupRef
<1> QED  BY <1>4, <1>5

(* Every other step leaves the maps alone and pushes no mark. *)
LEMMA OthersKeepIInv ==
  ASSUME IInv, NEW tasks, Tasks(tasks), Call(tasks), todo # << >>, Head(todo).task \notin Marks,
         UNCHANGED <<schema, visiting, groupsVisiting>>, Fields'
  PROVE  IInv'
<1>1. Stack' /\ Marked'
  BY PlainCall DEF IInv
<1> QED  BY <1>1 DEF IInv, Known

LEMMA ElementKeepsIInv ==
  ASSUME IInv, InterpretElement
  PROVE  IInv'
<1> DEFINE call == Head(todo)
           element == schema.particles[call.node]
           f == [kind |-> element.kind, name |-> element.name,
                 ns |-> ElementNamespace(element, call.ns), choice |-> call.inChoice,
                 min |-> Occurs(element).min, max |-> Occurs(element).max]
<1>1. todo # << >> /\ call.task = "particle" /\ IsTask(call)
  BY HeadIsTask DEF InterpretElement, Doing, IInv
<1>2. /\ call.node \in DOMAIN schema.particles /\ call.ns \in Namespace
      /\ call.inChoice \in BOOLEAN
  BY <1>1 DEF IsTask
<1>3. /\ element.ns \in Namespace /\ element.min \in Occurrences
      /\ element.max \in Occurrences
  <2>1. element \in Range(schema.particles)
    BY <1>2 DEF Range
  <2> HIDE DEF element
  <2> QED  BY <2>1 DEF IInv, IsSchema
<1>4. ElementNamespace(element, call.ns) \in Namespace
  <2> HIDE DEF element, call
  <2> QED  BY <1>2, <1>3, NamespaceAssumption DEF ElementNamespace
<1>5. Occurs(element).min \in Occurrences /\ Occurs(element).max \in Occurrences
  <2> HIDE DEF element
  <2> QED  BY <1>3, OccursAssumption DEF Occurs, Occurrences
<1>6. element.kind \in {"element", "any"} /\ Add(f) /\ Call(<< >>)
  BY DEF InterpretElement
<1>7. IsField(f)
  <2> HIDE DEF element, call
  <2> QED  BY <1>2, <1>4, <1>5, <1>6 DEF IsField
<1>8. Fields'
  <2> HIDE DEF f
  <2> QED  BY <1>6, <1>7, AddKeepsFields DEF Add, IInv
<1>9. Head(todo).task \notin Marks /\ UNCHANGED <<schema, visiting, groupsVisiting>>
  BY <1>1 DEF Marks, InterpretElement
<1> QED  BY <1>1, <1>6, <1>8, <1>9, NoTasks, OthersKeepIInv

LEMMA GroupKeepsIInv ==
  ASSUME IInv, InterpretGroup
  PROVE  IInv'
<1> DEFINE call == Head(todo)
           group == ResolveGroupRef(schema.particles[call.node])
           inChoice == call.inChoice \/ group.kind = "choice"
           leave == [task |-> "leaveGroup", group |-> group, from |-> Len(fields)]
           tasks == ParticleTasks(group.children, call.ns, inChoice) \o <<leave>>
<1>1. todo # << >> /\ call.task = "particle" /\ IsTask(call)
  BY HeadIsTask DEF InterpretGroup, Doing, IInv
<1>2. /\ call.node \in DOMAIN schema.particles /\ call.ns \in Namespace
      /\ inChoice \in BOOLEAN
  BY <1>1 DEF IsTask
<1>3. /\ group.children \in Seq(DOMAIN schema.particles)
      /\ group.min \in Occurrences /\ group.max \in Occurrences
  BY <1>2, ResolvedIsParticle DEF IInv
<1>4. Tasks(ParticleTasks(group.children, call.ns, inChoice))
  <2> HIDE DEF call, group, inChoice
  <2> QED  BY <1>2, <1>3, ParticleTasksAreTasks
<1>5. Tasks(<<leave>>)
  <2>1. IsTask(leave) /\ leave.task \notin Marks
    <3> HIDE DEF group
    <3> QED  BY <1>3 DEF IsTask, Marks
  <2> HIDE DEF leave
  <2> QED  BY <2>1, OneTask
<1>6. Tasks(tasks)
  <2> HIDE DEF call, group, inChoice, leave
  <2> QED  BY <1>4, <1>5, ConcatTasks
<1>7. /\ Call(tasks) /\ UNCHANGED <<schema, visiting, groupsVisiting>> /\ fields' = fields
  BY DEF InterpretGroup
<1>8. Fields' /\ Head(todo).task \notin Marks
  BY <1>1, <1>7 DEF Fields, IInv, Marks
<1> HIDE DEF tasks
<1> QED  BY <1>1, <1>6, <1>7, <1>8, OthersKeepIInv

LEMMA AttributeKeepsIInv ==
  ASSUME IInv, InterpretAttribute \/ InterpretAnyAttribute
  PROVE  IInv'
<1>1. /\ todo # << >> /\ IsTask(Head(todo)) /\ Head(todo).task \notin Marks
      /\ Call(<< >>) /\ UNCHANGED <<schema, visiting, groupsVisiting>>
  BY HeadIsTask DEF InterpretAttribute, InterpretAnyAttribute, Doing, IInv, Marks
<1>2. Fields'
  <2>1. CASE InterpretAttribute
    <3> DEFINE attribute == Head(todo).attribute
               ns == Head(todo).ns
               f == [kind |-> "attribute", name |-> attribute.name,
                     ns |-> ElementNamespace(attribute, ns), choice |-> FALSE,
                     min |-> IF attribute.required THEN 1 ELSE 0, max |-> 1]
    <3>1. attribute.ns \in Namespace /\ ns \in Namespace
      BY <1>1, <2>1 DEF InterpretAttribute, Doing, IsTask
    <3>2. IsField(f)
      <4> HIDE DEF attribute, ns
      <4> QED  BY <3>1, OccursAssumption, NamespaceAssumption DEF IsField, ElementNamespace, Occurrences
    <3>3. fields' = Append(fields, f)
      BY <2>1 DEF InterpretAttribute, Add
    <3> HIDE DEF f
    <3> QED  BY <3>2, <3>3, AddKeepsFields DEF IInv
  <2>2. CASE InterpretAnyAttribute
    <3> DEFINE f == [kind |-> "anyAttribute", name |-> NoName, ns |-> NoNamespace, choice |-> FALSE,
                     min |-> 0, max |-> Unbounded]
    <3>1. IsField(f)
      BY OccursAssumption, NamespaceAssumption DEF IsField, Occurrences
    <3>2. fields' = Append(fields, f)
      BY <2>2 DEF InterpretAnyAttribute, Add
    <3> HIDE DEF f
    <3> QED  BY <3>1, <3>2, AddKeepsFields DEF IInv
  <2> QED  BY <2>1, <2>2
<1> QED  BY <1>1, <1>2, NoTasks, OthersKeepIInv

LEMMA RestKeepIInv ==
  ASSUME IInv, LeaveGroup \/ InterpretContent
  PROVE  IInv'
<1>1. /\ todo # << >> /\ Head(todo).task \notin Marks
      /\ Call(<< >>) /\ UNCHANGED <<schema, visiting, groupsVisiting>>
  BY DEF LeaveGroup, InterpretContent, Doing, Marks
<1>2. Fields'
  BY LeaveGroupKeepsFields, InterpretContentKeepsFields
<1> QED  BY <1>1, <1>2, NoTasks, OthersKeepIInv

THEOREM NextIInv == IInv /\ [Next]_vars => IInv'
<1> SUFFICES ASSUME IInv, [Next]_vars PROVE IInv'
  OBVIOUS
<1>1. CASE InterpretComplexFields \/ LeaveComplexType
  BY <1>1, TypesKeepIInv
<1>2. CASE InterpretElement
  BY <1>2, ElementKeepsIInv
<1>3. CASE InterpretGroup
  BY <1>3, GroupKeepsIInv
<1>4. CASE InterpretAttribute \/ InterpretAnyAttribute
  BY <1>4, AttributeKeepsIInv
<1>5. CASE InterpretAttributeGroupRef \/ LeaveAttributeGroup
  BY <1>5, AttributeGroupsKeepIInv
<1>6. CASE LeaveGroup \/ InterpretContent
  BY <1>6, RestKeepIInv
<1>7. CASE UNCHANGED vars
  BY <1>7 DEF vars, IInv, Stack, Fields, Marked, Known, IsTask, Types
<1> QED  BY <1>1, <1>2, <1>3, <1>4, <1>5, <1>6, <1>7 DEF Next

LEMMA IInvGuards == IInv => GuardsMatchCalls
<1> SUFFICES ASSUME IInv PROVE GuardsMatchCalls
  OBVIOUS
<1>1. ComplexFieldsTypeOK
  BY DEF IInv, Fields, IsField, Known, ComplexFieldsTypeOK
<1> QED  BY <1>1 DEF IInv, Marked, Marks, Named, Once, GuardsMatchCalls

(* The maps hold what is being expanded, each once, and every field has the   *)
(* occurrences and the name space that a schema can give it, for every schema. *)
THEOREM GuardsAlwaysMatch == Spec => []GuardsMatchCalls
<1>1. Spec => []IInv
  BY InitIInv, NextIInv, PTL DEF Spec
<1> QED  BY <1>1, IInvGuards, PTL

-----------------------------------------------------------------------------
(* The types that a type inherits from *)

Names(s) == {s[i].name : i \in DOMAIN s}

Extend(nearer) ==
  LET last == nearer[Len(nearer)]
  IN  IF HasBase(last) /\ \A i \in DOMAIN nearer : nearer[i].name # last.base
      THEN Append(nearer, ComplexType(last.base)) ELSE nearer

(* A way from the root from base to base, of types with different names. *)
IsPath(s) ==
  /\ s \in Seq(Types) /\ s # << >> /\ s[1] = root
  /\ \A i \in 1..Len(s) - 1 : HasBase(s[i]) /\ s[i + 1] = ComplexType(s[i].base)
  /\ \A i, j \in DOMAIN s : s[i].name = s[j].name => i = j

IsDescent(c) ==
  /\ c \in [Nat -> Seq(Types)] /\ c[0] = <<root>>
  /\ \A n \in Nat : c[n + 1] = Extend(c[n])

LEMMA BaseIsNamed ==
  ASSUME IsSchema(schema), NEW name, Declared(name) # {}
  PROVE  ComplexType(name) \in Types /\ ComplexType(name).name = name
<1>1. DOMAIN schema.types = 1..Len(schema.types) /\ Len(schema.types) \in Nat
  <2>1. schema.types \in Seq(Range(schema.types))
    BY DEF IsSchema
  <2> QED  BY <2>1
<1>2. \E i \in Declared(name) : \A j \in Declared(name) : j <= i
  BY <1>1, LargestIndex DEF Declared
<1>3. (CHOOSE i \in Declared(name) : \A j \in Declared(name) : j <= i) \in Declared(name)
  BY <1>2
<1> QED  BY <1>3, BaseIsType DEF ComplexType, Declared

LEMMA ExtendIsTypes ==
  ASSUME IsSchema(schema), NEW s \in Seq(Types)
  PROVE  Extend(s) \in Seq(Types)
<1>1. ASSUME HasBase(s[Len(s)])
      PROVE  ComplexType(s[Len(s)].base) \in Types
  BY <1>1, BaseIsType DEF HasBase
<1> QED  BY <1>1 DEF Extend

LEMMA DescentExists ==
  ASSUME IsSchema(schema), root \in Types
  PROVE  \E c : IsDescent(c) /\ Chain = Reverse(c[Len(schema.types)])
<1> DEFINE step == [n \in Nat |-> [x \in Seq(Types) |-> Extend(x)]]
           L == Len(schema.types)
<1>1. step \in Steps(Seq(Types))
  BY ExtendIsTypes DEF Steps
<1>2. <<root>> \in Seq(Types)
  OBVIOUS
<1>3. PICK c : IsRecursion(c, Seq(Types), <<root>>, step)
  <2> HIDE DEF step
  <2> QED  BY <1>1, <1>2, RecursionExists
<1>4. IsDescent(c)
  BY <1>3 DEF IsDescent, IsRecursion
<1>5. L \in Nat
  <2>1. schema.types \in Seq(Range(schema.types))
    BY DEF IsSchema
  <2> QED  BY <2>1
<1> DEFINE IsChain(d) ==
      d = [n \in 0..L |-> IF n = 0 THEN <<root>>
             ELSE LET nearer == d[n - 1]
                      last == nearer[Len(nearer)]
                  IN  IF HasBase(last) /\ \A i \in DOMAIN nearer : nearer[i].name # last.base
                      THEN Append(nearer, ComplexType(last.base)) ELSE nearer]
           up == [n \in 0..L |-> c[n]]
<1>6. IsChain(up)
  <2>1. ASSUME NEW n \in 0..L, n # 0
        PROVE  up[n] = Extend(up[n - 1])
    <3>1. n - 1 \in Nat /\ (n - 1) + 1 = n /\ n - 1 \in 0..L
      BY <1>5, <2>1
    <3> QED  BY <1>4, <3>1 DEF IsDescent
  <2>2. 0 \in 0..L => up[0] = <<root>>
    BY <1>4 DEF IsDescent
  <2> QED  BY <2>1, <2>2 DEF Extend
<1>7. ASSUME NEW d, NEW e, IsChain(d), IsChain(e)
      PROVE  d[L] = e[L]
  <2> DEFINE Same == {n \in Nat : n <= L => d[n] = e[n]}
  <2>1. 0 \in Same
    BY <1>5, <1>7
  <2>2. ASSUME NEW n \in Nat, n \in Same PROVE n + 1 \in Same
    <3> SUFFICES ASSUME n + 1 <= L PROVE d[n + 1] = e[n + 1]
      OBVIOUS
    <3>1. n + 1 \in 0..L /\ n + 1 # 0 /\ (n + 1) - 1 = n /\ d[n] = e[n]
      BY <1>5, <2>2
    <3> DEFINE next(f, k) == IF k = 0 THEN <<root>> ELSE Extend(f[k - 1])
    <3>2. ASSUME NEW f, IsChain(f) PROVE f[n + 1] = Extend(f[n])
      <4>1. f = [k \in 0..L |-> next(f, k)]
        BY <3>2 DEF Extend
      <4> HIDE DEF next
      <4>2. f[n + 1] = next(f, n + 1)
        BY <3>1, <4>1
      <4> QED  BY <3>1, <4>2 DEF next
    <3>3. d[n + 1] = Extend(d[n]) /\ e[n + 1] = Extend(e[n])
      <4> HIDE DEF IsChain
      <4> QED  BY <1>7, <3>2
    <3> QED  BY <3>1, <3>3
  <2>3. Nat \subseteq Same
    <3> HIDE DEF Same
    <3> QED  BY <2>1, <2>2, NumbersByInduction
  <2>4. L \in Same
    <3> HIDE DEF Same, L
    <3> QED  BY <1>5, <2>3
  <2> HIDE DEF IsChain, L
  <2> QED  BY <1>5, <2>4
<1>8. Chain = Reverse((CHOOSE d : IsChain(d))[L])
  BY DEF Chain
<1>9. IsChain(CHOOSE d : IsChain(d))
  <2> HIDE DEF IsChain
  <2> QED  BY <1>6
<1>10. (CHOOSE d : IsChain(d))[L] = c[L]
  <2>1. up[L] = c[L]
    BY <1>5
  <2> HIDE DEF IsChain, up
  <2> QED  BY <1>6, <1>7, <1>9, <2>1
<1> QED  BY <1>4, <1>8, <1>10

(* Of a path no longer one is made than there are types.                      *)
LEMMA PathIsShort ==
  ASSUME IsSchema(schema), NEW s, IsPath(s)
  PROVE  Len(s) \in Nat /\ Len(s) <= Len(schema.types) /\ Len(schema.types) \in Nat
<1>1. Len(schema.types) \in Nat /\ DOMAIN schema.types = 1..Len(schema.types)
  <2>1. schema.types \in Seq(Range(schema.types))
    BY DEF IsSchema
  <2> QED  BY <2>1
<1>2. s \in Seq(Types) /\ Len(s) \in Nat /\ DOMAIN s = 1..Len(s)
  BY DEF IsPath
<1> DEFINE at(i) == CHOOSE k \in DOMAIN schema.types : schema.types[k] = s[i]
           place == [i \in 1..Len(s) |-> at(i)]
<1>3. \A i \in 1..Len(s) : at(i) \in 1..Len(schema.types) /\ schema.types[at(i)] = s[i]
  BY <1>1, <1>2 DEF Types, Range
<1>4. place \in [1..Len(s) -> 1..Len(schema.types)]
  <2> HIDE DEF at
  <2> QED  BY <1>3
<1>5. \A i, j \in 1..Len(s) : place[i] = place[j] => i = j
  <2> TAKE i, j \in 1..Len(s)
  <2>1. place[i] = place[j] => s[i] = s[j]
    <3> HIDE DEF at
    <3> QED  BY <1>3
  <2> HIDE DEF place
  <2> QED  BY <1>2, <2>1 DEF IsPath
<1>6. /\ IsFiniteSet(1..Len(s)) /\ Cardinality(1..Len(s)) = Len(s)
      /\ IsFiniteSet(1..Len(schema.types)) /\ Cardinality(1..Len(schema.types)) = Len(schema.types)
  <2>1. ASSUME NEW n \in Nat PROVE IsFiniteSet(1..n) /\ Cardinality(1..n) = n
    BY FS_Interval
  <2> QED  BY <1>1, <1>2, <2>1
<1>7. ~ (Len(schema.types) < Len(s))
  <2> HIDE DEF place
  <2> QED  BY <1>4, <1>5, <1>6, FS_PigeonHole
<1> QED  BY <1>1, <1>2, <1>7

LEMMA PathIsDescent ==
  ASSUME IsSchema(schema), NEW c, IsDescent(c)
  PROVE  \A s \in Seq(Types) : IsPath(s) => s = c[Len(s) - 1]
<1> DEFINE Good == {s \in Seq(Types) : IsPath(s) => s = c[Len(s) - 1]}
<1>1. << >> \in Good
  BY DEF IsPath
<1>2. ASSUME NEW s \in Seq(Types), NEW t \in Types, s \in Good
      PROVE  Append(s, t) \in Good
  <2> DEFINE p == Append(s, t)
  <2>1. /\ p \in Seq(Types) /\ Len(p) = Len(s) + 1 /\ Len(s) \in Nat /\ DOMAIN s = 1..Len(s)
        /\ DOMAIN p = 1..Len(s) + 1
        /\ \A i \in 1..Len(s) : p[i] = s[i]
        /\ p[Len(s) + 1] = t
    BY <1>2
  <2> HIDE DEF p
  <2>2. SUFFICES ASSUME IsPath(p) PROVE p = c[Len(s)]
    BY <2>1 DEF p
  <2>3. CASE s = << >>
    <3>1. Len(s) = 0 /\ p = <<root>>
      <4>1. Len(s) = 0 /\ p[1] = root /\ t = root
        BY <2>1, <2>2, <2>3 DEF IsPath
      <4> QED  BY <2>3, <4>1 DEF p
    <3> QED  BY <3>1 DEF IsDescent
  <2>4. CASE s # << >>
    <3>1. Len(s) \in 1..Len(s) /\ Len(s) - 1 \in Nat /\ 1 \in 1..Len(s)
      BY <2>1, <2>4
    <3>2. IsPath(s)
      <4>1. \A i \in 1..Len(s) - 1 : i \in 1..Len(p) - 1 /\ i \in 1..Len(s) /\ i + 1 \in 1..Len(s)
        BY <2>1
      <4>2. \A i \in 1..Len(s) - 1 : HasBase(s[i]) /\ s[i + 1] = ComplexType(s[i].base)
        BY <2>1, <2>2, <4>1 DEF IsPath
      <4>3. \A i, j \in DOMAIN s : s[i].name = s[j].name => i = j
        BY <2>1, <2>2 DEF IsPath
      <4> QED  BY <2>1, <2>2, <2>4, <3>1, <4>2, <4>3 DEF IsPath
    <3>3. s = c[Len(s) - 1]
      BY <1>2, <3>2
    <3>4. c[Len(s)] = Extend(s)
      BY <3>1, <3>3 DEF IsDescent
    <3>5. HasBase(s[Len(s)]) /\ t = ComplexType(s[Len(s)].base)
      <4>1. Len(s) \in 1..Len(p) - 1
        BY <2>1, <3>1
      <4> QED  BY <2>1, <2>2, <3>1, <4>1 DEF IsPath
    <3>6. \A i \in DOMAIN s : s[i].name # t.name
      <4> TAKE i \in DOMAIN s
      <4>1. i \in DOMAIN p /\ Len(s) + 1 \in DOMAIN p /\ i # Len(s) + 1
        BY <2>1
      <4> QED  BY <2>1, <2>2, <4>1 DEF IsPath
    <3>7. t.name = s[Len(s)].base
      BY <3>5, BaseIsNamed DEF HasBase
    <3> QED  BY ONLY <3>4, <3>5, <3>6, <3>7 DEF Extend, p
  <2> QED  BY <2>3, <2>4
<1>3. Seq(Types) \subseteq Good
  <2> HIDE DEF Good
  <2> QED  BY <1>1, <1>2, ListsByInduction
<1> QED  BY <1>3

(* The longest one is what the properties call the chain of the type.         *)
LEMMA PathIsChain ==
  ASSUME IsSchema(schema), root \in Types, NEW s, IsPath(s), Extend(s) = s
  PROVE  Chain = Reverse(s)
<1> DEFINE L == Len(schema.types)
<1>1. PICK c : IsDescent(c) /\ Chain = Reverse(c[L])
  BY DescentExists
<1>2. s \in Seq(Types) /\ Len(s) \in Nat \ {0} /\ Len(s) <= L /\ L \in Nat
  BY PathIsShort DEF IsPath
<1>3. c[Len(s) - 1] = s
  BY <1>1, <1>2, PathIsDescent
<1> DEFINE Same == {n \in Nat : Len(s) - 1 <= n => c[n] = s}
<1> HIDE DEF L
<1>4. 0 \in Same
  BY <1>2, <1>3
<1>5. ASSUME NEW n \in Nat, n \in Same PROVE n + 1 \in Same
  <2> SUFFICES ASSUME Len(s) - 1 <= n + 1 PROVE c[n + 1] = s
    OBVIOUS
  <2>1. CASE Len(s) - 1 <= n
    BY <1>1, <1>5, <2>1 DEF IsDescent
  <2>2. CASE Len(s) - 1 = n + 1
    BY <1>3, <2>2
  <2> QED  BY <1>2, <2>1, <2>2
<1>6. Nat \subseteq Same
  <2> HIDE DEF Same
  <2> QED  BY <1>4, <1>5, NumbersByInduction
<1>7. c[L] = s
  <2>1. L \in Same
    <3> HIDE DEF Same
    <3> QED  BY <1>2, <1>6
  <2> QED  BY <1>2, <2>1
<1> QED  BY <1>1, <1>7 DEF L


-----------------------------------------------------------------------------
(* How the stack changes *)

LEMMA CallPlaces ==
  ASSUME IsSequence(todo), todo # << >>, NEW tasks, IsSequence(tasks), Call(tasks)
  PROVE  /\ IsSequence(todo') /\ Len(tasks) \in Nat /\ DOMAIN tasks = 1..Len(tasks)
         /\ Head(todo) = todo[1] /\ 1 \in DOMAIN todo
         /\ \A i \in DOMAIN todo' :
              \/ i \in DOMAIN tasks /\ todo'[i] = tasks[i]
              \/ \E k \in DOMAIN todo : /\ k \in Nat /\ k > 1 /\ i = k - 1 + Len(tasks)
                                        /\ todo'[i] = todo[k]
         /\ \A i \in DOMAIN tasks : i \in DOMAIN todo' /\ todo'[i] = tasks[i]
         /\ \A k \in DOMAIN todo : \/ k = 1
                                   \/ /\ k - 1 + Len(tasks) \in DOMAIN todo'
                                      /\ todo'[k - 1 + Len(tasks)] = todo[k]
<1>1. /\ IsSequence(Tail(todo)) /\ Head(todo) = todo[1] /\ 1 \in DOMAIN todo
      /\ \A i \in DOMAIN Tail(todo) : i \in Nat /\ i + 1 \in DOMAIN todo /\ Tail(todo)[i] = todo[i + 1]
      /\ \A i \in DOMAIN todo : i = 1 \/ (i - 1 \in DOMAIN Tail(todo) /\ Tail(todo)[i - 1] = todo[i])
  BY TailIsSequence
<1>2. todo' = tasks \o Tail(todo)
  BY DEF Call
<1>3. /\ IsSequence(todo')
      /\ DOMAIN tasks = 1..Len(tasks) /\ Len(tasks) \in Nat
      /\ \A i \in DOMAIN tasks : todo'[i] = tasks[i]
      /\ \A i \in DOMAIN Tail(todo) : todo'[Len(tasks) + i] = Tail(todo)[i]
      /\ DOMAIN Tail(todo) = 1..Len(Tail(todo)) /\ Len(Tail(todo)) \in Nat
      /\ DOMAIN todo' = 1..(Len(tasks) + Len(Tail(todo)))
  BY <1>1, <1>2, ConcatIsSequence
<1>4. ASSUME NEW i \in DOMAIN todo'
      PROVE  \/ i \in DOMAIN tasks /\ todo'[i] = tasks[i]
             \/ \E k \in DOMAIN todo : /\ k \in Nat /\ k > 1 /\ i = k - 1 + Len(tasks)
                                       /\ todo'[i] = todo[k]
  <2>1. CASE i <= Len(tasks)
    BY <1>3, <2>1
  <2>2. CASE i > Len(tasks)
    <3> DEFINE n == i - Len(tasks)
    <3>1. n \in DOMAIN Tail(todo) /\ i = Len(tasks) + n /\ n \in Nat \ {0} /\ i = (n + 1) - 1 + Len(tasks)
      BY <1>3, <2>2
    <3> HIDE DEF n
    <3>2. todo'[i] = Tail(todo)[n]
      <4>1. todo'[Len(tasks) + n] = Tail(todo)[n]
        BY <1>3, <3>1
      <4> QED  BY <3>1, <4>1
    <3>3. Tail(todo)[n] = todo[n + 1] /\ n + 1 \in DOMAIN todo
      BY <1>1, <3>1
    <3>4. n + 1 \in Nat /\ n + 1 > 1
      BY <3>1
    <3> QED  BY <3>1, <3>2, <3>3, <3>4
  <2> QED  BY <1>3, <2>1, <2>2
<1>5. ASSUME NEW k \in DOMAIN todo, k # 1
      PROVE  k - 1 + Len(tasks) \in DOMAIN todo' /\ todo'[k - 1 + Len(tasks)] = todo[k]
  <2>1. k - 1 \in DOMAIN Tail(todo) /\ Tail(todo)[k - 1] = todo[k]
    BY <1>1, <1>5
  <2> DEFINE n == k - 1
  <2>2. n \in DOMAIN Tail(todo) /\ n \in 1..Len(Tail(todo)) /\ n + Len(tasks) = Len(tasks) + n
    BY <1>3, <2>1
  <2> HIDE DEF n
  <2>3. n + Len(tasks) \in DOMAIN todo' /\ todo'[n + Len(tasks)] = Tail(todo)[n]
    BY <1>3, <2>2
  <2> QED  BY <2>1, <2>3 DEF n
<1>6. \A i \in DOMAIN tasks : i \in DOMAIN todo'
  BY <1>3
<1> QED  BY <1>1, <1>3, <1>4, <1>5, <1>6

(* The tasks of a list are of these kinds. *)
OfKinds(list, kinds) == IsSequence(list) /\ \A i \in DOMAIN list : list[i].task \in kinds

LEMMA OneKind ==
  ASSUME NEW kinds, NEW t, t.task \in kinds
  PROVE  OfKinds(<<t>>, kinds) /\ OfKinds(<< >>, kinds)
<1>1. <<t>> \in Seq({t}) /\ DOMAIN <<t>> = {1} /\ <<t>>[1] = t
  OBVIOUS
<1>2. IsSequence(<< >>)
  BY NoTasks DEF Tasks
<1>3. IsSequence(<<t>>)
  BY <1>1 DEF IsSequence
<1>4. \A i \in DOMAIN <<t>> : <<t>>[i].task \in kinds
  BY <1>1
<1>5. \A i \in DOMAIN << >> : FALSE
  OBVIOUS
<1> QED  BY <1>2, <1>3, <1>4, <1>5 DEF OfKinds

LEMMA ConcatKinds ==
  ASSUME NEW kinds, NEW a, NEW b, OfKinds(a, kinds), OfKinds(b, kinds)
  PROVE  OfKinds(a \o b, kinds)
<1>1. IsSequence(a \o b)
  BY ConcatIsSequence DEF OfKinds
<1>2. \A i \in DOMAIN (a \o b) : (a \o b)[i].task \in kinds
  <2> TAKE i \in DOMAIN (a \o b)
  <2>1. \/ i \in DOMAIN a /\ (a \o b)[i] = a[i]
        \/ i - Len(a) \in DOMAIN b /\ (a \o b)[i] = b[i - Len(a)]
    BY ConcatMembers DEF OfKinds
  <2> QED  BY <2>1 DEF OfKinds
<1> QED  BY <1>1, <1>2 DEF OfKinds

AttributeKinds == {"attribute", "attributeGroup", "anyAttribute"}
OwnKinds == AttributeKinds \cup {"particle"}

LEMMA ParticleKinds ==
  ASSUME NEW particles, IsSequence(particles), NEW ns, NEW inChoice
  PROVE  OfKinds(ParticleTasks(particles, ns, inChoice), {"particle"})
<1>1. PICK S : particles \in Seq(S)
  BY DEF IsSequence
<1>2. ParticleTasks(particles, ns, inChoice) = [i \in DOMAIN particles |-> ParticleTasks(particles, ns, inChoice)[i]]
  BY DEF ParticleTasks
<1>3. IsSequence(ParticleTasks(particles, ns, inChoice))
  BY <1>1, <1>2, MappedIsSequence
<1> QED  BY <1>3 DEF ParticleTasks, OfKinds

LEMMA AttributesKinds ==
  ASSUME NEW attributes, IsSequence(attributes), NEW groups, IsSequence(groups), NEW any \in Nat, NEW ns
  PROVE  /\ OfKinds(AttributeTasks(attributes, ns), AttributeKinds)
         /\ OfKinds(AttributeGroupTasks(groups, ns), AttributeKinds)
         /\ OfKinds(AnyAttributeTasks(any, ns), AttributeKinds)
<1>1. PICK A, G : attributes \in Seq(A) /\ groups \in Seq(G)
  BY DEF IsSequence
<1>2. IsSequence(AttributeTasks(attributes, ns))
  <2>1. AttributeTasks(attributes, ns) = [i \in DOMAIN attributes |-> AttributeTasks(attributes, ns)[i]]
    BY DEF AttributeTasks
  <2> QED  BY <1>1, <2>1, MappedIsSequence
<1>3. IsSequence(AttributeGroupTasks(groups, ns))
  <2>1. AttributeGroupTasks(groups, ns) = [i \in DOMAIN groups |-> AttributeGroupTasks(groups, ns)[i]]
    BY DEF AttributeGroupTasks
  <2> QED  BY <1>1, <2>1, MappedIsSequence
<1>4. IsSequence(AnyAttributeTasks(any, ns))
  BY AnyAttributeTasksAreTasks DEF Tasks
<1> QED  BY <1>2, <1>3, <1>4 DEF AttributeTasks, AttributeGroupTasks, AnyAttributeTasks, OfKinds, AttributeKinds

LEMMA WiderKinds ==
  ASSUME NEW list, NEW K, NEW M, OfKinds(list, K), K \subseteq M
  PROVE  OfKinds(list, M)
BY DEF OfKinds

LEMMA TypeParts ==
  ASSUME IsSchema(schema), NEW type \in Types
  PROVE  /\ type.ns \in Namespace /\ type.content \in Seq(DOMAIN schema.particles)
         /\ type.attributes \in Seq(Range(type.attributes))
         /\ type.attributeGroups \in Seq(Range(type.attributeGroups))
         /\ type.any \in Nat
         /\ \A a \in Range(type.attributes) : a.ns \in Namespace /\ a.required \in BOOLEAN
BY DEF IsSchema, Types

LEMMA GroupParts ==
  ASSUME IsSchema(schema), NEW name \in DOMAIN schema.attributeGroups
  PROVE  LET group == schema.attributeGroups[name]
         IN  /\ group.attributes \in Seq(Range(group.attributes))
             /\ group.attributeGroups \in Seq(Range(group.attributeGroups))
             /\ group.any \in Nat
             /\ \A a \in Range(group.attributes) : a.ns \in Namespace /\ a.required \in BOOLEAN
BY DEF IsSchema

LEMMA OwnTasksKinds ==
  ASSUME IsSchema(schema), NEW type \in Types
  PROVE  /\ OfKinds(OwnTasks(type), OwnKinds)
         /\ SimpleContent(type) => OfKinds(OwnTasks(type), AttributeKinds)
<1> DEFINE particles == IF SimpleContent(type) THEN << >>
                        ELSE ParticleTasks(type.content, type.ns, FALSE)
           attributes == AttributeTasks(type.attributes, type.ns)
           groups == AttributeGroupTasks(type.attributeGroups, type.ns)
           any == AnyAttributeTasks(type.any, type.ns)
           kinds == IF SimpleContent(type) THEN AttributeKinds ELSE OwnKinds
<1>1. /\ IsSequence(type.content) /\ IsSequence(type.attributes) /\ IsSequence(type.attributeGroups)
      /\ type.any \in Nat
  BY TypeParts DEF IsSequence
<1>2. OfKinds(particles, kinds)
  <2>1. OfKinds(<< >>, kinds)
    <3>1. << >> \in Seq({})
      OBVIOUS
    <3> QED  BY <3>1 DEF OfKinds, IsSequence
  <2>2. OfKinds(ParticleTasks(type.content, type.ns, FALSE), OwnKinds)
    <3>1. OfKinds(ParticleTasks(type.content, type.ns, FALSE), {"particle"})
      BY <1>1, ParticleKinds
    <3>2. {"particle"} \subseteq OwnKinds
      BY DEF OwnKinds
    <3> QED  BY <3>1, <3>2, WiderKinds
  <2> QED  BY <2>1, <2>2
<1>3. OfKinds(attributes, kinds) /\ OfKinds(groups, kinds) /\ OfKinds(any, kinds)
  <2>1. AttributeKinds \subseteq kinds
    BY DEF OwnKinds
  <2> HIDE DEF kinds
  <2> QED  BY <1>1, <2>1, AttributesKinds, WiderKinds
<1>4. OfKinds(particles \o attributes \o groups \o any, kinds)
  <2> HIDE DEF particles, attributes, groups, any, kinds
  <2> QED  BY <1>2, <1>3, ConcatKinds
<1>5. OfKinds(OwnTasks(type), kinds)
  BY <1>4 DEF OwnTasks
<1> QED  BY <1>5, WiderKinds DEF OwnKinds

GroupTasks(name, ns) ==
  LET group == schema.attributeGroups[name]
  IN  AttributeTasks(group.attributes, ns) \o AttributeGroupTasks(group.attributeGroups, ns)
      \o AnyAttributeTasks(group.any, ns)

LEMMA GroupTasksKinds ==
  ASSUME IsSchema(schema), NEW name \in DOMAIN schema.attributeGroups, NEW ns
  PROVE  OfKinds(GroupTasks(name, ns), AttributeKinds)
<1> DEFINE group == schema.attributeGroups[name]
           attributes == AttributeTasks(group.attributes, ns)
           groups == AttributeGroupTasks(group.attributeGroups, ns)
           any == AnyAttributeTasks(group.any, ns)
<1>1. IsSequence(group.attributes) /\ IsSequence(group.attributeGroups) /\ group.any \in Nat
  BY GroupParts DEF IsSequence
<1>2. OfKinds(attributes, AttributeKinds) /\ OfKinds(groups, AttributeKinds) /\ OfKinds(any, AttributeKinds)
  <2> HIDE DEF group
  <2> QED  BY <1>1, AttributesKinds
<1>3. OfKinds(attributes \o groups \o any, AttributeKinds)
  <2> HIDE DEF attributes, groups, any
  <2> QED  BY <1>2, ConcatKinds
<1> QED  BY <1>3 DEF GroupTasks


-----------------------------------------------------------------------------
(* Going down to the last base *)

Descending == todo # << >> /\ Head(todo).task = "type"

TypesFirst == \A i \in DOMAIN todo : todo[i].task = "type" => i = 1

(* Inside of a group are particles and groups, and its fields are elements.   *)
ElementKinds == {"element", "any"}
GroupsNest ==
  \A j \in DOMAIN todo : todo[j].task = "leaveGroup" =>
    /\ \A i \in DOMAIN todo : i < j => todo[i].task \in {"particle", "leaveGroup"}
    /\ todo[j].from \in 0..Len(fields)
    /\ \A k \in DOMAIN fields : k > todo[j].from => fields[k].kind \in ElementKinds

(* The types s have been entered; those behind them, once the last base is. *)
Entered(s) ==
  IF Descending
  THEN /\ fields = << >> /\ visiting = Names(s) /\ groupsVisiting = {}
       /\ \/ s = << >> /\ Head(todo).type = root
          \/ IsPath(s) /\ HasBase(s[Len(s)]) /\ Head(todo).type = ComplexType(s[Len(s)].base)
  ELSE IsPath(s) /\ Extend(s) = s

Way(s) == root \in Types /\ TypesFirst /\ GroupsNest /\ Entered(s)

(* A type is the first task of a list or none of it. *)
TypeFirst(list) == IsSequence(list) /\ \A i \in DOMAIN list : list[i].task = "type" => i = 1

LEMMA ConcatTypeFirst ==
  ASSUME NEW a, NEW b, TypeFirst(a), NEW K, OfKinds(b, K), "type" \notin K
  PROVE  TypeFirst(a \o b)
<1>1. IsSequence(a \o b)
  BY ConcatIsSequence DEF TypeFirst, OfKinds
<1>2. \A i \in DOMAIN (a \o b) : (a \o b)[i].task = "type" => i = 1
  <2> TAKE i \in DOMAIN (a \o b)
  <2>1. \/ i \in DOMAIN a /\ (a \o b)[i] = a[i]
        \/ i - Len(a) \in DOMAIN b /\ (a \o b)[i] = b[i - Len(a)]
    BY ConcatMembers DEF TypeFirst, OfKinds
  <2> QED  BY <2>1 DEF TypeFirst, OfKinds
<1> QED  BY <1>1, <1>2 DEF TypeFirst

LEMMA ConcatFirst ==
  ASSUME NEW a, NEW b, IsSequence(a), IsSequence(b), 1 \in DOMAIN a
  PROVE  1 \in DOMAIN (a \o b) /\ (a \o b)[1] = a[1]
BY ConcatIsSequence

EnterTasks(type) == BodyTasks(type) \o <<[task |-> "leaveType", name |-> type.name]>>
EnterKinds == OwnKinds \cup {"content", "leaveType"}

ContentTasks(type) ==
  IF SimpleContent(type) THEN <<[task |-> "content", type |-> type, from |-> Len(fields)]>> ELSE << >>

LEMMA EnterParts ==
  ASSUME IsSchema(schema), NEW type \in Types
  PROVE  LET leave == <<[task |-> "leaveType", name |-> type.name]>>
             base == IF HasBase(type) THEN <<TypeTask(ComplexType(type.base))>> ELSE << >>
         IN  /\ EnterTasks(type) = base \o OwnTasks(type) \o ContentTasks(type) \o leave
             /\ OfKinds(leave, {"leaveType"}) /\ OfKinds(ContentTasks(type), {"content"})
             /\ OfKinds(base, {"type"}) /\ OfKinds(OwnTasks(type), OwnKinds)
<1>1. EnterTasks(type) = (IF HasBase(type) THEN <<TypeTask(ComplexType(type.base))>> ELSE << >>)
                         \o OwnTasks(type) \o ContentTasks(type) \o <<[task |-> "leaveType", name |-> type.name]>>
  BY DEF EnterTasks, BodyTasks, ContentTasks
<1>2. OfKinds(<<[task |-> "leaveType", name |-> type.name]>>, {"leaveType"})
  <2> DEFINE t == [task |-> "leaveType", name |-> type.name]
  <2>1. t.task \in {"leaveType"}
    OBVIOUS
  <2> HIDE DEF t
  <2>2. OfKinds(<<t>>, {"leaveType"})
    BY <2>1, OneKind
  <2> QED  BY <2>2 DEF t
<1>3. OfKinds(ContentTasks(type), {"content"})
  <2> DEFINE t == [task |-> "content", type |-> type, from |-> Len(fields)]
  <2>1. t.task \in {"content"}
    OBVIOUS
  <2> HIDE DEF t
  <2>2. OfKinds(<<t>>, {"content"}) /\ OfKinds(<< >>, {"content"})
    BY <2>1, OneKind
  <2>3. ContentTasks(type) = IF SimpleContent(type) THEN <<t>> ELSE << >>
    BY DEF ContentTasks, t
  <2> QED  BY <2>2, <2>3
<1>4. OfKinds(IF HasBase(type) THEN <<TypeTask(ComplexType(type.base))>> ELSE << >>, {"type"})
  <2> DEFINE t == TypeTask(ComplexType(type.base))
  <2>1. t.task \in {"type"}
    BY DEF TypeTask
  <2> HIDE DEF t
  <2>2. OfKinds(<<t>>, {"type"}) /\ OfKinds(<< >>, {"type"})
    BY <2>1, OneKind
  <2> QED  BY <2>2 DEF t
<1> QED  BY <1>1, <1>2, <1>3, <1>4, OwnTasksKinds

LEMMA EnterTypeFirst ==
  ASSUME IsSchema(schema), NEW type \in Types
  PROVE  /\ TypeFirst(EnterTasks(type))
         /\ HasBase(type) => /\ 1 \in DOMAIN EnterTasks(type)
                             /\ EnterTasks(type)[1] = TypeTask(ComplexType(type.base))
         /\ ~ HasBase(type) => OfKinds(EnterTasks(type), EnterKinds)
<1> DEFINE leave == <<[task |-> "leaveType", name |-> type.name]>>
           base == IF HasBase(type) THEN <<TypeTask(ComplexType(type.base))>> ELSE << >>
           own == OwnTasks(type)
           content == ContentTasks(type)
<1>1. EnterTasks(type) = base \o own \o content \o leave
  BY EnterParts
<1>2. /\ OfKinds(leave, {"leaveType"}) /\ OfKinds(content, {"content"})
      /\ OfKinds(own, OwnKinds) /\ "type" \notin OwnKinds
  BY EnterParts DEF OwnKinds, AttributeKinds
<1>3. TypeFirst(base)
  <2>1. OfKinds(base, {"type"})
    BY EnterParts
  <2>2. \A i \in DOMAIN base : i = 1
    OBVIOUS
  <2> HIDE DEF base
  <2> QED  BY <2>1, <2>2 DEF TypeFirst, OfKinds
<1>4. TypeFirst(base \o own \o content \o leave)
  <2> HIDE DEF base, own, content, leave
  <2>1. TypeFirst(base \o own)
    BY <1>2, <1>3, ConcatTypeFirst
  <2>2. TypeFirst(base \o own \o content)
    <3> DEFINE a == base \o own
    <3> HIDE DEF a
    <3>1. TypeFirst(a \o content)
      BY <1>2, <2>1, ConcatTypeFirst DEF a
    <3> QED  BY <3>1 DEF a
  <2> DEFINE b == base \o own \o content
  <2>3. TypeFirst(b) /\ "type" \notin {"leaveType"}
    BY <2>2
  <2> HIDE DEF b
  <2>4. TypeFirst(b \o leave)
    BY <1>2, <2>3, ConcatTypeFirst
  <2> QED  BY <2>4 DEF b
<1>5. ASSUME HasBase(type)
      PROVE  1 \in DOMAIN EnterTasks(type) /\ EnterTasks(type)[1] = TypeTask(ComplexType(type.base))
  <2>1. 1 \in DOMAIN base /\ base[1] = TypeTask(ComplexType(type.base))
    BY <1>5
  <2> HIDE DEF base, own, content, leave
  <2>2. IsSequence(base) /\ IsSequence(own) /\ IsSequence(content) /\ IsSequence(leave)
    BY <1>2, <1>3 DEF OfKinds, TypeFirst
  <2>3. 1 \in DOMAIN (base \o own) /\ (base \o own)[1] = base[1] /\ IsSequence(base \o own)
    BY <2>1, <2>2, ConcatFirst, ConcatIsSequence
  <2> DEFINE a == base \o own
  <2>4. 1 \in DOMAIN a /\ a[1] = base[1] /\ IsSequence(a)
    BY <2>3
  <2> HIDE DEF a
  <2>5. 1 \in DOMAIN (a \o content) /\ (a \o content)[1] = a[1] /\ IsSequence(a \o content)
    BY <2>2, <2>4, ConcatFirst, ConcatIsSequence
  <2> DEFINE b == a \o content
  <2>6. 1 \in DOMAIN b /\ b[1] = a[1] /\ IsSequence(b)
    BY <2>5
  <2> HIDE DEF b
  <2>7. 1 \in DOMAIN (b \o leave) /\ (b \o leave)[1] = b[1]
    BY <2>2, <2>6, ConcatFirst
  <2> QED  BY <1>1, <2>1, <2>4, <2>6, <2>7 DEF a, b
<1>6. ASSUME ~ HasBase(type) PROVE OfKinds(EnterTasks(type), EnterKinds)
  <2>1. OfKinds(base, EnterKinds)
    BY <1>6, NoTasks DEF OfKinds, Tasks
  <2>2. OfKinds(own, EnterKinds) /\ OfKinds(content, EnterKinds) /\ OfKinds(leave, EnterKinds)
    <3>1. OwnKinds \subseteq EnterKinds /\ {"content"} \subseteq EnterKinds /\ {"leaveType"} \subseteq EnterKinds
      BY DEF EnterKinds
    <3> HIDE DEF own, content, leave
    <3> QED  BY <1>2, <3>1, WiderKinds
  <2> HIDE DEF base, own, content, leave
  <2>3. OfKinds(base \o own \o content \o leave, EnterKinds)
    BY <2>1, <2>2, ConcatKinds
  <2> QED  BY <1>1, <2>3
<1> QED  BY <1>1, <1>4, <1>5, <1>6

(* What a schema says does not change. *)
LEMMA SchemaStays ==
  ASSUME schema' = schema, root' = root
  PROVE  /\ IsSchema(schema)' = IsSchema(schema) /\ Types' = Types
         /\ \A s : IsPath(s)' <=> IsPath(s)
         /\ \A s : Extend(s)' = Extend(s)
         /\ \A t : HasBase(t)' <=> HasBase(t)
         /\ \A name : ComplexType(name)' = ComplexType(name)
<1>1. Types' = Types
  BY DEF Types
<1>2. \A name : Declared(name)' = Declared(name)
  BY DEF Declared
<1>3. \A name : ComplexType(name)' = ComplexType(name)
  BY <1>2 DEF ComplexType
<1>4. \A t : HasBase(t)' <=> HasBase(t)
  BY <1>2 DEF HasBase
<1>5. \A s : IsPath(s)' <=> IsPath(s)
  BY <1>1, <1>3, <1>4 DEF IsPath
<1>6. \A s : Extend(s)' = Extend(s)
  BY <1>3, <1>4 DEF Extend
<1>7. IsSchema(schema)' = IsSchema(schema)
  OBVIOUS
<1> QED  BY <1>1, <1>3, <1>4, <1>5, <1>6, <1>7

LEMMA InitWay == Init => Way(<< >>)
<1> SUFFICES ASSUME Init PROVE Way(<< >>)
  OBVIOUS
<1> DEFINE t == TypeTask(root)
<1>1. todo = <<t>> /\ t.task = "type" /\ t.type = root
  BY DEF Init, TypeTask
<1> HIDE DEF t
<1>2. Descending /\ Head(todo) = t /\ \A i \in DOMAIN todo : i = 1 /\ todo[i] = t
  BY <1>1 DEF Descending
<1>3. TypesFirst
  BY <1>2 DEF TypesFirst
<1>4. GroupsNest
  BY <1>1, <1>2 DEF GroupsNest
<1>5. Names(<< >>) = {}
  BY DEF Names
<1>6. Entered(<< >>)
  BY <1>1, <1>2, <1>5 DEF Entered, Init
<1>7. root \in Types
  BY DEF Init, Types, Range
<1> QED  BY <1>3, <1>4, <1>6, <1>7 DEF Way

(* What is pushed when the first task is not a type that is entered. *)
LEMMA NoTypePushed ==
  ASSUME IInv, NEW s, Way(s), NEW tasks, NEW K, OfKinds(tasks, K), "type" \notin K,
         Call(tasks), todo # << >>
  PROVE  TypesFirst' /\ ~ Descending'
<1>1. /\ IsSequence(todo') /\ Len(tasks) \in Nat /\ DOMAIN tasks = 1..Len(tasks)
      /\ \A i \in DOMAIN todo' :
           \/ i \in DOMAIN tasks /\ todo'[i] = tasks[i]
           \/ \E k \in DOMAIN todo : /\ k \in Nat /\ k > 1 /\ i = k - 1 + Len(tasks)
                                     /\ todo'[i] = todo[k]
  BY CallPlaces DEF IInv, Stack, OfKinds
<1>2. \A i \in DOMAIN todo' : todo'[i].task # "type"
  <2> TAKE i \in DOMAIN todo'
  <2>1. CASE i \in DOMAIN tasks /\ todo'[i] = tasks[i]
    BY <2>1 DEF OfKinds
  <2>2. ASSUME NEW k \in DOMAIN todo, k \in Nat, k > 1, todo'[i] = todo[k]
        PROVE  todo'[i].task # "type"
    BY <2>2 DEF Way, TypesFirst
  <2> QED  BY <1>1, <2>1, <2>2
<1>3. ASSUME todo' # << >> PROVE Head(todo').task # "type"
  <2>1. Head(todo') = todo'[1] /\ 1 \in DOMAIN todo'
    <3> DEFINE t == todo'
    <3>1. IsSequence(t) /\ t # << >>
      BY <1>1, <1>3
    <3> HIDE DEF t
    <3>2. Head(t) = t[1] /\ 1 \in DOMAIN t
      BY <3>1, TailIsSequence
    <3> QED  BY <3>2 DEF t
  <2> QED  BY <1>2, <2>1
<1> QED  BY <1>2, <1>3 DEF TypesFirst, Descending

(* Outside of groups none is left. *)
LEMMA NoGroups ==
  ASSUME IInv, GroupsNest, todo # << >>, Head(todo).task \notin {"particle", "leaveGroup"},
         NEW tasks, NEW K, OfKinds(tasks, K), "leaveGroup" \notin K, Call(tasks)
  PROVE  GroupsNest'
<1>1. ASSUME NEW k \in DOMAIN todo PROVE todo[k].task # "leaveGroup"
  <2>1. 1 \in DOMAIN todo /\ todo[1] = Head(todo)
    BY TailIsSequence DEF IInv, Stack
  <2>2. k \in Nat \ {0}
    <3>1. IsSequence(todo)
      BY DEF IInv, Stack
    <3> QED  BY <3>1 DEF IsSequence
  <2>3. CASE k = 1
    BY <2>1, <2>3
  <2>4. CASE 1 < k
    BY <2>1, <2>4 DEF GroupsNest
  <2> QED  BY <2>2, <2>3, <2>4
<1>2. /\ IsSequence(todo')
      /\ \A i \in DOMAIN todo' :
           \/ i \in DOMAIN tasks /\ todo'[i] = tasks[i]
           \/ \E k \in DOMAIN todo : /\ k \in Nat /\ k > 1 /\ i = k - 1 + Len(tasks)
                                     /\ todo'[i] = todo[k]
  BY CallPlaces DEF IInv, Stack, OfKinds
<1>3. \A i \in DOMAIN todo' : todo'[i].task # "leaveGroup"
  BY <1>1, <1>2 DEF OfKinds
<1> QED  BY <1>3 DEF GroupsNest

LEMMA EntersWay ==
  ASSUME IInv, NEW s, Way(s), InterpretComplexFields, NEW type, type = Head(todo).type,
         type.name \notin visiting
  PROVE  Way(Append(s, type))' /\ Append(s, type) \in Seq(Types) /\ s \in Seq(Types) /\ type \in Types
<1> DEFINE p == Append(s, type)
<1>1. /\ Descending /\ todo # << >> /\ UNCHANGED <<schema, root, groupsVisiting, fields>>
      /\ visiting' = visiting \cup {type.name} /\ Call(EnterTasks(type))
  BY DEF InterpretComplexFields, Doing, Descending, EnterTasks
<1>2. type \in Types
  <2>1. IsTask(Head(todo)) /\ Head(todo).task = "type"
    BY <1>1, HeadIsTask DEF IInv, Descending
  <2> QED  BY <2>1 DEF IsTask
<1>3. /\ fields = << >> /\ visiting = Names(s) /\ groupsVisiting = {}
      /\ \/ s = << >> /\ type = root
         \/ IsPath(s) /\ HasBase(s[Len(s)]) /\ type = ComplexType(s[Len(s)].base)
  BY <1>1 DEF Way, Entered
<1>4. type.name \notin Names(s)
  BY <1>3
<1>5. s \in Seq(Types)
  <2>1. << >> \in Seq(Types)
    OBVIOUS
  <2> QED  BY <1>3, <2>1 DEF IsPath
<1>6. /\ p \in Seq(Types) /\ Len(p) = Len(s) + 1 /\ Len(s) \in Nat /\ DOMAIN s = 1..Len(s)
      /\ DOMAIN p = 1..Len(s) + 1
      /\ \A i \in 1..Len(s) : p[i] = s[i]
      /\ p[Len(s) + 1] = type
  BY <1>2, <1>5
<1> HIDE DEF p
<1>7. IsPath(p)
  <2>1. p # << >> /\ p[1] = root
    <3>1. CASE s = << >> /\ type = root
      BY <1>6, <3>1
    <3>2. CASE IsPath(s)
      <4>1. s # << >> /\ s[1] = root
        BY <3>2 DEF IsPath
      <4>2. 1 \in 1..Len(s)
        BY <1>6, <4>1, <1>5
      <4> QED  BY <1>6, <4>1, <4>2
    <3> QED  BY <1>3, <3>1, <3>2
  <2>2. ASSUME NEW i \in 1..Len(p) - 1 PROVE HasBase(p[i]) /\ p[i + 1] = ComplexType(p[i].base)
    <3>1. i \in 1..Len(s) /\ s # << >>
      BY <1>6, <2>2, <1>5
    <3>2. IsPath(s) /\ HasBase(s[Len(s)]) /\ type = ComplexType(s[Len(s)].base)
      BY <1>3, <3>1
    <3>3. CASE i = Len(s)
      BY <1>6, <3>1, <3>2, <3>3
    <3>4. CASE i # Len(s)
      <4>1. i \in 1..Len(s) - 1 /\ i + 1 \in 1..Len(s)
        <5>1. Len(s) \in Nat
          BY <1>6
        <5> QED  BY ONLY <5>1, <3>1, <3>4
      <4> QED  BY <1>6, <3>1, <3>2, <4>1 DEF IsPath
    <3> QED  BY <3>3, <3>4
  <2>3. ASSUME NEW i \in DOMAIN p, NEW j \in DOMAIN p, p[i].name = p[j].name PROVE i = j
    <3>1. \A k \in 1..Len(s) : p[k].name # type.name
      BY <1>4, <1>6 DEF Names
    <3>2. \A k, l \in 1..Len(s) : s[k].name = s[l].name => k = l
      <4>1. CASE s = << >>
        BY <4>1
      <4>2. CASE s # << >>
        BY <1>3, <1>6, <4>2 DEF IsPath
      <4> QED  BY <4>1, <4>2
    <3>3. \A k \in DOMAIN p : k \in 1..Len(s) \/ k = Len(s) + 1
      BY <1>6
    <3> QED  BY <1>6, <2>3, <3>1, <3>2, <3>3
  <2> QED  BY <1>6, <2>1, <2>2, <2>3 DEF IsPath
<1>8. /\ IsSequence(todo') /\ DOMAIN EnterTasks(type) = 1..Len(EnterTasks(type))
      /\ \A i \in DOMAIN todo' :
           \/ i \in DOMAIN EnterTasks(type) /\ todo'[i] = EnterTasks(type)[i]
           \/ \E k \in DOMAIN todo : /\ k \in Nat /\ k > 1 /\ todo'[i] = todo[k]
      /\ \A i \in DOMAIN EnterTasks(type) : i \in DOMAIN todo' /\ todo'[i] = EnterTasks(type)[i]
  <2> DEFINE tasks == EnterTasks(type)
  <2>1. IsSequence(tasks) /\ Call(tasks)
    BY <1>1, <1>2, EnterTypeFirst DEF IInv, TypeFirst
  <2> HIDE DEF tasks
  <2>2. /\ IsSequence(todo') /\ DOMAIN tasks = 1..Len(tasks)
        /\ \A i \in DOMAIN todo' :
             \/ i \in DOMAIN tasks /\ todo'[i] = tasks[i]
             \/ \E k \in DOMAIN todo : /\ k \in Nat /\ k > 1 /\ i = k - 1 + Len(tasks)
                                       /\ todo'[i] = todo[k]
        /\ \A i \in DOMAIN tasks : i \in DOMAIN todo' /\ todo'[i] = tasks[i]
    BY <1>1, <2>1, CallPlaces DEF IInv, Stack
  <2> QED  BY ONLY <2>2 DEF tasks
<1>9. TypesFirst'
  <2>1. ASSUME NEW i \in DOMAIN todo', todo'[i].task = "type" PROVE i = 1
    <3>1. ~ \E k \in DOMAIN todo : k \in Nat /\ k > 1 /\ todo'[i] = todo[k]
      BY <2>1 DEF Way, TypesFirst
    <3>2. i \in DOMAIN EnterTasks(type) /\ todo'[i] = EnterTasks(type)[i]
      BY <1>8, <3>1
    <3> QED  BY <1>2, <2>1, <3>2, EnterTypeFirst DEF IInv, TypeFirst
  <2> QED  BY <2>1 DEF TypesFirst
<1>10. GroupsNest'
  <2> DEFINE leave == <<[task |-> "leaveType", name |-> type.name]>>
             base == IF HasBase(type) THEN <<TypeTask(ComplexType(type.base))>> ELSE << >>
             own == OwnTasks(type)
             content == ContentTasks(type)
             K == EnterKinds \cup {"type"}
  <2>1. EnterTasks(type) = base \o own \o content \o leave
    BY <1>2, EnterParts DEF IInv
  <2>2. /\ OfKinds(leave, {"leaveType"}) /\ OfKinds(content, {"content"})
        /\ OfKinds(own, OwnKinds) /\ OfKinds(base, {"type"})
    BY <1>2, EnterParts DEF IInv
  <2>3. {"leaveType"} \subseteq K /\ {"content"} \subseteq K /\ OwnKinds \subseteq K /\ {"type"} \subseteq K
    BY DEF EnterKinds
  <2> HIDE DEF leave, base, own, content, K
  <2>4. OfKinds(leave, K) /\ OfKinds(content, K) /\ OfKinds(own, K) /\ OfKinds(base, K)
    BY <2>2, <2>3, WiderKinds
  <2>5. OfKinds(base \o own \o content \o leave, K)
    BY <2>4, ConcatKinds
  <2>6. "leaveGroup" \notin K
    BY DEF K, EnterKinds, OwnKinds, AttributeKinds
  <2>7. GroupsNest /\ Head(todo).task \notin {"particle", "leaveGroup"}
    BY <1>1 DEF Way, Descending
  <2> QED  BY <1>1, <2>1, <2>5, <2>6, <2>7, NoGroups
<1>11. Entered(p)'
  <2>1. IsPath(p)' /\ (HasBase(type)' <=> HasBase(type)) /\ (Extend(p)' = Extend(p))
        /\ (ComplexType(type.base)' = ComplexType(type.base))
    BY <1>1, <1>7, SchemaStays
  <2>2. p[Len(p)] = type
    BY <1>6
  <2>3. CASE HasBase(type)
    <3>1. 1 \in DOMAIN todo' /\ todo'[1] = TypeTask(ComplexType(type.base))
      BY <1>2, <1>8, <2>3, EnterTypeFirst DEF IInv
    <3>2. todo' # << >> /\ Head(todo') = TypeTask(ComplexType(type.base))
      <4> DEFINE t == todo'
      <4>1. IsSequence(t) /\ t # << >>
        BY <1>8, <3>1
      <4> HIDE DEF t
      <4>2. Head(t) = t[1]
        BY <4>1, TailIsSequence
      <4> QED  BY <3>1, <4>1, <4>2 DEF t
    <3>3. Descending' /\ Head(todo').type = ComplexType(type.base)
      BY <3>2 DEF Descending, TypeTask
    <3>4. visiting' = Names(p) /\ groupsVisiting' = {} /\ fields' = << >>
      <4>1. Names(p) = Names(s) \cup {type.name}
        <5>1. DOMAIN p = DOMAIN s \cup {Len(s) + 1}
          BY <1>6
        <5> QED  BY <1>6, <5>1 DEF Names
      <4> QED  BY <1>1, <1>3, <4>1
    <3>5. Names(p)' = Names(p)
      BY DEF Names
    <3>6. HasBase(p[Len(p)])' /\ ComplexType(p[Len(p)].base)' = ComplexType(type.base)
      BY <1>1, <2>2, <2>3, SchemaStays
    <3> QED  BY <2>1, <3>3, <3>4, <3>6, <1>7 DEF Entered, Names
  <2>4. CASE ~ HasBase(type)
    <3>1. ~ Descending'
      <4>1. OfKinds(EnterTasks(type), EnterKinds) /\ "type" \notin EnterKinds
        BY <1>2, <2>4, EnterTypeFirst DEF IInv, EnterKinds, OwnKinds, AttributeKinds
      <4> QED  BY <1>1, <4>1, NoTypePushed
    <3>2. Extend(p) = p
      BY <2>2, <2>4 DEF Extend
    <3> QED  BY <2>1, <3>1, <3>2 DEF Entered
  <2> QED  BY <2>3, <2>4
<1>12. (root \in Types)'
  BY <1>1 DEF Way, Types
<1>13. Way(p)' /\ p \in Seq(Types)
  BY <1>6, <1>9, <1>10, <1>11, <1>12 DEF Way
<1> QED  BY <1>2, <1>5, <1>13 DEF p

(* A group pushes its particles and its mark. *)
LEMMA GroupPushes ==
  ASSUME IInv, InterpretGroup
  PROVE  \E tasks, K : OfKinds(tasks, K) /\ K = {"particle", "leaveGroup"} /\ Call(tasks)
<1> DEFINE call == Head(todo)
           group == ResolveGroupRef(schema.particles[call.node])
           inChoice == call.inChoice \/ group.kind = "choice"
           leave == [task |-> "leaveGroup", group |-> group, from |-> Len(fields)]
           particles == ParticleTasks(group.children, call.ns, inChoice)
           K == {"particle", "leaveGroup"}
<1>1. todo # << >> /\ call.task = "particle" /\ IsTask(call) /\ Call(particles \o <<leave>>)
  BY HeadIsTask DEF InterpretGroup, Doing, IInv
<1>2. group.children \in Seq(DOMAIN schema.particles)
  <2>1. call.node \in DOMAIN schema.particles
    BY <1>1 DEF IsTask
  <2> QED  BY <2>1, ResolvedIsParticle DEF IInv
<1>3. OfKinds(particles, K)
  <2>1. IsSequence(group.children)
    BY <1>2 DEF IsSequence
  <2>2. OfKinds(particles, {"particle"})
    <3> HIDE DEF group, inChoice, call
    <3> QED  BY <2>1, ParticleKinds
  <2> QED  BY <2>2, WiderKinds
<1>4. OfKinds(<<leave>>, K)
  <2>1. leave.task \in K
    OBVIOUS
  <2> HIDE DEF leave, K
  <2> QED  BY <2>1, OneKind
<1>5. OfKinds(particles \o <<leave>>, K)
  <2> HIDE DEF particles, leave, K
  <2> QED  BY <1>3, <1>4, ConcatKinds
<1> HIDE DEF particles, leave
<1> QED  BY <1>1, <1>5

(* An element or a wildcard is a field. *)
LEMMA ElementAdded ==
  ASSUME InterpretElement
  PROVE  \E f : fields' = Append(fields, f) /\ f.kind \in ElementKinds
<1> DEFINE call == Head(todo)
           element == schema.particles[call.node]
           f == [kind |-> element.kind, name |-> element.name,
                 ns |-> ElementNamespace(element, call.ns), choice |-> call.inChoice,
                 min |-> Occurs(element).min, max |-> Occurs(element).max]
<1>1. fields' = Append(fields, f) /\ f.kind = element.kind
  BY DEF InterpretElement, Add
<1>2. element.kind \in ElementKinds
  BY DEF InterpretElement, ElementKinds
<1> HIDE DEF f
<1> QED  BY <1>1, <1>2

(* A step that enters no type. *)
Entering == Descending /\ Head(todo).type.name \notin visiting

LEMMA StepPushes ==
  ASSUME IInv, Next, ~ Entering
  PROVE  /\ todo # << >> /\ UNCHANGED <<schema, root>>
         /\ \E tasks, K : /\ OfKinds(tasks, K) /\ "type" \notin K /\ "content" \notin K /\ Call(tasks)
                          /\ ("leaveGroup" \in K \/ "particle" \in K => Head(todo).task = "particle")
                          /\ (tasks = << >> \/ Head(todo).task \in {"particle", "attributeGroup"})
<1>1. todo # << >> /\ UNCHANGED <<schema, root>> /\ IsTask(Head(todo))
  BY HeadIsTask DEF IInv, Next, InterpretComplexFields, LeaveComplexType, InterpretElement, InterpretGroup,
     LeaveGroup, InterpretAttribute, InterpretAnyAttribute, InterpretAttributeGroupRef,
     LeaveAttributeGroup, InterpretContent, Doing
<1>2. OfKinds(<< >>, {})
  BY NoTasks DEF OfKinds, Tasks
<1>3. CASE Call(<< >>)
  BY <1>1, <1>2, <1>3
<1>4. CASE ~ Call(<< >>)
  <2>1. CASE InterpretGroup
    <3>1. Head(todo).task = "particle"
      BY <2>1 DEF InterpretGroup, Doing
    <3> QED  BY <1>1, <2>1, <3>1, GroupPushes
  <2>2. CASE InterpretAttributeGroupRef
    <3> DEFINE name == Head(todo).name
               ns == Head(todo).ns
               leave == [task |-> "leaveAttributeGroup", name |-> name]
               K == AttributeKinds \cup {"leaveAttributeGroup"}
    <3>1. name \in DOMAIN schema.attributeGroups /\ Call(GroupTasks(name, ns) \o <<leave>>)
      BY <1>4, <2>2 DEF InterpretAttributeGroupRef, GroupTasks
    <3>2. OfKinds(GroupTasks(name, ns), K)
      <4>1. OfKinds(GroupTasks(name, ns), AttributeKinds)
        BY <3>1, GroupTasksKinds DEF IInv
      <4> QED  BY <4>1, WiderKinds
    <3>3. OfKinds(<<leave>>, K)
      <4>1. leave.task \in K
        OBVIOUS
      <4> HIDE DEF leave, K
      <4> QED  BY <4>1, OneKind
    <3>4. OfKinds(GroupTasks(name, ns) \o <<leave>>, K)
      <4> HIDE DEF leave, K, name, ns
      <4> QED  BY <3>2, <3>3, ConcatKinds
    <3>5. /\ "type" \notin K /\ "leaveGroup" \notin K /\ "particle" \notin K /\ "content" \notin K
          /\ Head(todo).task = "attributeGroup"
      BY <2>2 DEF AttributeKinds, InterpretAttributeGroupRef, Doing
    <3> HIDE DEF leave, K
    <3> QED  BY <1>1, <3>1, <3>4, <3>5
  <2>3. InterpretGroup \/ InterpretAttributeGroupRef
    BY <1>4 DEF Entering, Descending, Next, InterpretComplexFields, LeaveComplexType, InterpretElement,
       LeaveGroup, InterpretAttribute, InterpretAnyAttribute,
       LeaveAttributeGroup, InterpretContent, Doing
  <2> QED  BY <2>1, <2>2, <2>3
<1> QED  BY <1>3, <1>4

LEMMA GroupsStay ==
  ASSUME IInv, GroupsNest, InterpretElement \/ InterpretGroup \/ LeaveGroup
  PROVE  GroupsNest'
<1>1. todo # << >> /\ IsTask(Head(todo)) /\ IsSequence(todo) /\ 1 \in DOMAIN todo /\ todo[1] = Head(todo)
  BY HeadIsTask, TailIsSequence DEF IInv, Stack, InterpretElement, InterpretGroup, LeaveGroup, Doing
<1>2. \E S : fields \in Seq(S)
  BY DEF IInv, Fields, IsSequence
<1>3. Len(fields) \in Nat /\ DOMAIN fields = 1..Len(fields)
  BY <1>2
<1>4. CASE InterpretElement \/ LeaveGroup
  <2>1. Call(<< >>) /\ IsSequence(<< >>) /\ Len(<< >>) = 0
    BY <1>4, NoTasks DEF InterpretElement, LeaveGroup, Tasks
  <2>2. /\ \A i \in DOMAIN todo' : i \in Nat /\ i + 1 \in DOMAIN todo /\ todo'[i] = todo[i + 1]
    <3>1. todo' = Tail(todo)
      <4>1. IsSequence(Tail(todo)) /\ todo' = << >> \o Tail(todo)
        BY <1>1, <2>1, TailIsSequence DEF Call
      <4> QED  BY <4>1 DEF IsSequence
    <3> QED  BY <1>1, <3>1, TailIsSequence
  <2>3. /\ Len(fields') \in Nat /\ DOMAIN fields' = 1..Len(fields') /\ Len(fields) <= Len(fields')
        /\ \A k \in DOMAIN fields' : \/ k \in DOMAIN fields /\ fields'[k].kind = fields[k].kind
                                     \/ k = Len(fields) + 1 /\ fields'[k].kind \in ElementKinds
    <3>1. CASE InterpretElement
      <4>1. PICK f : fields' = Append(fields, f) /\ f.kind \in ElementKinds
        BY <3>1, ElementAdded
      <4>2. /\ Len(fields') = Len(fields) + 1 /\ DOMAIN fields' = 1..Len(fields) + 1
            /\ \A k \in 1..Len(fields) : fields'[k] = fields[k]
            /\ fields'[Len(fields) + 1] = f
        BY <1>2, <4>1
      <4> QED  BY <1>3, <4>1, <4>2
    <3>2. CASE LeaveGroup
      <4> DEFINE group == Head(todo).group
                 nested == {i \in DOMAIN fields : i > Head(todo).from}
                 f == [i \in DOMAIN fields |->
                        IF i \in nested
                        THEN [fields[i] EXCEPT !.min = group.min, !.max = group.max]
                        ELSE fields[i]]
      <4>1. fields' = f \/ fields' = fields
        BY <3>2 DEF LeaveGroup
      <4>2. DOMAIN f = 1..Len(fields) /\ Len(f) = Len(fields)
        <5>1. \A i \in DOMAIN fields : f[i] \in {f[k] : k \in DOMAIN fields}
          OBVIOUS
        <5>2. DOMAIN f = 1..Len(fields)
          BY <1>3
        <5> HIDE DEF f
        <5> QED  BY <1>3, <5>2
      <4>3. \A k \in DOMAIN fields : f[k].kind = fields[k].kind
        <5> TAKE k \in DOMAIN fields
        <5>1. "kind" \in DOMAIN fields[k]
          BY DEF IInv, Fields, IsField
        <5> QED  BY <5>1
      <4> HIDE DEF f
      <4> QED  BY <1>3, <4>1, <4>2, <4>3
    <3> QED  BY <1>4, <3>1, <3>2
  <2>4. ASSUME NEW j \in DOMAIN todo', todo'[j].task = "leaveGroup"
        PROVE  /\ \A i \in DOMAIN todo' : i < j => todo'[i].task \in {"particle", "leaveGroup"}
               /\ todo'[j].from \in 0..Len(fields')
               /\ \A k \in DOMAIN fields' : k > todo'[j].from => fields'[k].kind \in ElementKinds
    <3>1. j \in Nat /\ j + 1 \in DOMAIN todo /\ todo'[j] = todo[j + 1]
      BY <2>2
    <3>2. /\ \A i \in DOMAIN todo : i < j + 1 => todo[i].task \in {"particle", "leaveGroup"}
          /\ todo[j + 1].from \in 0..Len(fields)
          /\ \A k \in DOMAIN fields : k > todo[j + 1].from => fields[k].kind \in ElementKinds
      BY <2>4, <3>1 DEF GroupsNest
    <3>3. \A i \in DOMAIN todo' : i < j => todo'[i].task \in {"particle", "leaveGroup"}
      <4> TAKE i \in DOMAIN todo'
      <4>1. i \in Nat /\ i + 1 \in DOMAIN todo /\ todo'[i] = todo[i + 1]
        BY <2>2
      <4> QED  BY <3>1, <3>2, <4>1
    <3>4. todo'[j].from \in 0..Len(fields')
      BY <1>3, <2>3, <3>1, <3>2
    <3>5. \A k \in DOMAIN fields' : k > todo'[j].from => fields'[k].kind \in ElementKinds
      BY <2>3, <3>1, <3>2
    <3> QED  BY <3>3, <3>4, <3>5
  <2> QED  BY <2>4 DEF GroupsNest
<1>5. CASE InterpretGroup
  <2> DEFINE call == Head(todo)
             group == ResolveGroupRef(schema.particles[call.node])
             inChoice == call.inChoice \/ group.kind = "choice"
             leave == [task |-> "leaveGroup", group |-> group, from |-> Len(fields)]
             particles == ParticleTasks(group.children, call.ns, inChoice)
  <2>1. call.task = "particle" /\ Call(particles \o <<leave>>) /\ fields' = fields
    BY <1>5 DEF InterpretGroup, Doing
  <2>2. group.children \in Seq(DOMAIN schema.particles)
    <3>1. call.node \in DOMAIN schema.particles
      BY <1>1, <2>1 DEF IsTask
    <3> QED  BY <3>1, ResolvedIsParticle DEF IInv
  <2>3. OfKinds(particles, {"particle"})
    <3>1. IsSequence(group.children)
      BY <2>2 DEF IsSequence
    <3> HIDE DEF group, inChoice, call
    <3> QED  BY <3>1, ParticleKinds
  <2>4. leave.task = "leaveGroup" /\ leave.from = Len(fields)
    OBVIOUS
  <2> HIDE DEF leave, particles
  <2> DEFINE tasks == particles \o <<leave>>
  <2>5. /\ IsSequence(tasks) /\ DOMAIN tasks = 1..Len(tasks) /\ Len(tasks) \in Nat
        /\ \A i \in DOMAIN tasks : \/ tasks[i].task = "particle"
                                   \/ tasks[i] = leave
    <3>1. <<leave>> \in Seq({leave}) /\ \A i \in DOMAIN <<leave>> : <<leave>>[i] = leave
      OBVIOUS
    <3>2. IsSequence(<<leave>>) /\ IsSequence(particles)
      BY <2>3, <3>1 DEF OfKinds, IsSequence
    <3> DEFINE last == <<leave>>
    <3>3. IsSequence(last) /\ \A i \in DOMAIN last : last[i] = leave
      BY <3>1, <3>2
    <3> HIDE DEF last
    <3>4. IsSequence(particles \o last)
      BY <3>2, <3>3, ConcatIsSequence
    <3>5. \A i \in DOMAIN (particles \o last) :
             (particles \o last)[i].task = "particle" \/ (particles \o last)[i] = leave
      <4> TAKE i \in DOMAIN (particles \o last)
      <4>1. \/ i \in DOMAIN particles /\ (particles \o last)[i] = particles[i]
            \/ i - Len(particles) \in DOMAIN last /\ (particles \o last)[i] = last[i - Len(particles)]
        BY <3>2, <3>3, ConcatMembers
      <4> QED  BY <2>3, <3>3, <4>1 DEF OfKinds
    <3>6. DOMAIN (particles \o last) = 1..Len(particles \o last) /\ Len(particles \o last) \in Nat
      BY <3>4 DEF IsSequence
    <3> QED  BY <3>4, <3>5, <3>6 DEF last
  <2>6. Call(tasks)
    BY <2>1
  <2> HIDE DEF tasks
  <2>7. \A i \in DOMAIN todo' :
          \/ i \in DOMAIN tasks /\ todo'[i] = tasks[i]
          \/ \E k \in DOMAIN todo : /\ k \in Nat /\ k > 1 /\ i = k - 1 + Len(tasks)
                                    /\ todo'[i] = todo[k]
    BY <1>1, <2>5, <2>6, CallPlaces
  <2>8. ASSUME NEW j \in DOMAIN todo', todo'[j].task = "leaveGroup"
        PROVE  /\ \A i \in DOMAIN todo' : i < j => todo'[i].task \in {"particle", "leaveGroup"}
               /\ todo'[j].from \in 0..Len(fields)
               /\ \A k \in DOMAIN fields : k > todo'[j].from => fields[k].kind \in ElementKinds
    <3>1. \A i \in DOMAIN tasks : tasks[i].task \in {"particle", "leaveGroup"}
      BY <2>4, <2>5
    <3>2. CASE j \in DOMAIN tasks /\ todo'[j] = tasks[j]
      <4>1. todo'[j] = leave
        BY <2>5, <2>8, <3>2
      <4>2. todo'[j].from = Len(fields)
        BY <2>4, <4>1
      <4>3. \A i \in DOMAIN todo' : i < j => todo'[i].task \in {"particle", "leaveGroup"}
        <5> TAKE i \in DOMAIN todo'
        <5>1. CASE i \in DOMAIN tasks /\ todo'[i] = tasks[i]
          BY <3>1, <5>1
        <5>2. CASE \E k \in DOMAIN todo : k \in Nat /\ k > 1 /\ i = k - 1 + Len(tasks)
          <6>1. i \in Nat /\ i > Len(tasks)
            BY <2>5, <5>2
          <6>2. j \in 1..Len(tasks)
            BY <2>5, <3>2
          <6> QED  BY <2>5, <6>1, <6>2
        <5> QED  BY <2>7, <5>1, <5>2
      <4> QED  BY <1>3, <4>2, <4>3
    <3>3. ASSUME NEW k \in DOMAIN todo, k \in Nat, k > 1, j = k - 1 + Len(tasks), todo'[j] = todo[k]
          PROVE  /\ \A i \in DOMAIN todo' : i < j => todo'[i].task \in {"particle", "leaveGroup"}
                 /\ todo'[j].from \in 0..Len(fields)
                 /\ \A n \in DOMAIN fields : n > todo'[j].from => fields[n].kind \in ElementKinds
      <4>1. /\ \A i \in DOMAIN todo : i < k => todo[i].task \in {"particle", "leaveGroup"}
            /\ todo[k].from \in 0..Len(fields)
            /\ \A n \in DOMAIN fields : n > todo[k].from => fields[n].kind \in ElementKinds
        BY <2>8, <3>3 DEF GroupsNest
      <4>2. \A i \in DOMAIN todo' : i < j => todo'[i].task \in {"particle", "leaveGroup"}
        <5> TAKE i \in DOMAIN todo'
        <5>1. CASE i \in DOMAIN tasks /\ todo'[i] = tasks[i]
          BY <3>1, <5>1
        <5>2. ASSUME NEW l \in DOMAIN todo, l \in Nat, l > 1, i = l - 1 + Len(tasks), todo'[i] = todo[l]
              PROVE  i < j => todo'[i].task \in {"particle", "leaveGroup"}
          <6>1. i < j => l < k
            BY <2>5, <3>3, <5>2
          <6> QED  BY <4>1, <5>2, <6>1
        <5> QED  BY <2>7, <5>1, <5>2
      <4> QED  BY <3>3, <4>1, <4>2
    <3> QED  BY <2>7, <3>2, <3>3
  <2> QED  BY <2>1, <2>8 DEF GroupsNest
<1> QED  BY <1>4, <1>5

LEMMA StaysWay ==
  ASSUME IInv, NEW s, Way(s), Next, ~ Entering
  PROVE  Way(s)'
<1>1. todo # << >> /\ UNCHANGED <<schema, root>>
  BY StepPushes
<1>2. PICK tasks, K : /\ OfKinds(tasks, K) /\ "type" \notin K /\ Call(tasks)
                      /\ "leaveGroup" \in K => Head(todo).task = "particle"
  BY StepPushes
<1>3. TypesFirst' /\ ~ Descending'
  BY <1>1, <1>2, NoTypePushed
<1>4. GroupsNest'
  <2>1. CASE Head(todo).task \notin {"particle", "leaveGroup"}
    BY <1>1, <1>2, <2>1, NoGroups DEF Way
  <2>2. CASE Head(todo).task \in {"particle", "leaveGroup"}
    <3>1. InterpretElement \/ InterpretGroup \/ LeaveGroup
      BY <2>2 DEF Next, InterpretComplexFields, LeaveComplexType, InterpretAttribute, InterpretAnyAttribute,
         InterpretAttributeGroupRef, LeaveAttributeGroup, InterpretContent, Doing
    <3> QED  BY <3>1, GroupsStay DEF Way
  <2> QED  BY <2>1, <2>2
<1>5. Entered(s)'
  <2>1. IsPath(s) /\ Extend(s) = s
    <3>1. CASE ~ Descending
      BY <3>1 DEF Way, Entered
    <3>2. CASE Descending
      <4>1. /\ Head(todo).type.name \in Names(s)
            /\ \/ s = << >>
               \/ IsPath(s) /\ HasBase(s[Len(s)]) /\ Head(todo).type = ComplexType(s[Len(s)].base)
        BY <3>2 DEF Way, Entered, Entering
      <4>2. IsPath(s) /\ HasBase(s[Len(s)]) /\ Head(todo).type = ComplexType(s[Len(s)].base)
        BY <4>1 DEF Names
      <4>3. Head(todo).type.name = s[Len(s)].base
        BY <4>2, BaseIsNamed DEF HasBase, IInv
      <4>4. \E i \in DOMAIN s : s[i].name = s[Len(s)].base
        BY <4>1, <4>3 DEF Names
      <4> QED  BY <4>2, <4>4 DEF Extend
    <3> QED  BY <3>1, <3>2
  <2>2. IsPath(s)' /\ (Extend(s))' = s
    BY <1>1, <2>1, SchemaStays
  <2> QED  BY <1>3, <2>2 DEF Entered
<1>6. (root \in Types)'
  BY <1>1 DEF Way, Types
<1> QED  BY <1>3, <1>4, <1>5, <1>6 DEF Way

LEMMA StutterWay ==
  ASSUME NEW s, Way(s), UNCHANGED vars
  PROVE  Way(s)'
<1>1. UNCHANGED <<schema, root, todo, visiting, groupsVisiting, fields>>
  BY DEF vars
<1>2. TypesFirst' /\ GroupsNest' /\ (Descending' <=> Descending) /\ (root \in Types)'
  BY <1>1 DEF Way, TypesFirst, GroupsNest, Descending, Types
<1>3. /\ IsPath(s)' <=> IsPath(s)
      /\ Extend(s)' = Extend(s)
      /\ HasBase(s[Len(s)])' <=> HasBase(s[Len(s)])
      /\ ComplexType(s[Len(s)].base)' = ComplexType(s[Len(s)].base)
  BY <1>1, SchemaStays
<1>4. Entered(s)'
  BY <1>1, <1>2, <1>3 DEF Way, Entered, Names
<1> QED  BY <1>2, <1>4 DEF Way


-----------------------------------------------------------------------------
(* Attributes *)

PairOf(a) == <<a.name, a.required>>
AttributeGroups == DOMAIN schema.attributeGroups

AttributeFields ==
  {<<fields[i].name, fields[i].min = 1>> : i \in {j \in DOMAIN fields : fields[j].kind = "attribute"}}

(* The attributes and the attribute groups that a list of tasks holds. *)
TaskAttributes(list) == {list[i].attribute : i \in {j \in DOMAIN list : list[j].task = "attribute"}}
TaskGroups(list) == {list[i].name : i \in {j \in DOMAIN list : list[j].task = "attributeGroup"}}

(* Every attribute that a type or a group has is a field or is yet to be one;  *)
(* every group in it is one of E, which have been expanded, or is yet to be.   *)
Covered(d, E) ==
  /\ \A a \in Range(d.attributes) : PairOf(a) \in AttributeFields \/ a \in TaskAttributes(todo)
  /\ \A g \in Range(d.attributeGroups) \cap AttributeGroups : g \in E \/ g \in TaskGroups(todo)

Wanted(s) == UNION {AttributesOf(t) : t \in Range(s)}
GroupsFor(s) == UNION {GroupsOf(t) : t \in Range(s)}

Attributed(s, E) ==
  /\ groupsVisiting \subseteq E /\ E \subseteq GroupsFor(s)
  /\ \A t \in Range(s) : Covered(t, E)
  /\ \A g \in E : Covered(schema.attributeGroups[g], E)
  /\ TaskAttributes(todo) \subseteq Wanted(s)
  /\ TaskGroups(todo) \cap AttributeGroups \subseteq GroupsFor(s)
  /\ AttributeFields \subseteq {PairOf(a) : a \in Wanted(s)}

LEMMA CallTasks ==
  ASSUME IInv, todo # << >>, NEW tasks, IsSequence(tasks), Call(tasks)
  PROVE  /\ TaskAttributes(tasks) \subseteq TaskAttributes(todo')
         /\ TaskGroups(tasks) \subseteq TaskGroups(todo')
         /\ TaskAttributes(todo') \subseteq TaskAttributes(tasks) \cup TaskAttributes(todo)
         /\ TaskGroups(todo') \subseteq TaskGroups(tasks) \cup TaskGroups(todo)
         /\ \A a \in TaskAttributes(todo) :
              a \in TaskAttributes(todo') \/ (Head(todo).task = "attribute" /\ Head(todo).attribute = a)
         /\ \A g \in TaskGroups(todo) :
              g \in TaskGroups(todo') \/ (Head(todo).task = "attributeGroup" /\ Head(todo).name = g)
<1>1. /\ Head(todo) = todo[1] /\ 1 \in DOMAIN todo
      /\ \A i \in DOMAIN todo' :
           \/ i \in DOMAIN tasks /\ todo'[i] = tasks[i]
           \/ \E k \in DOMAIN todo : /\ k \in Nat /\ k > 1 /\ i = k - 1 + Len(tasks)
                                     /\ todo'[i] = todo[k]
      /\ \A i \in DOMAIN tasks : i \in DOMAIN todo' /\ todo'[i] = tasks[i]
      /\ \A k \in DOMAIN todo : \/ k = 1
                                \/ /\ k - 1 + Len(tasks) \in DOMAIN todo'
                                   /\ todo'[k - 1 + Len(tasks)] = todo[k]
  BY CallPlaces DEF IInv, Stack
<1>2. \A i \in DOMAIN todo' : (\E k \in DOMAIN tasks : todo'[i] = tasks[k]) \/ \E k \in DOMAIN todo : todo'[i] = todo[k]
  BY <1>1
<1>3. \A k \in DOMAIN todo : todo[k] = Head(todo) \/ \E i \in DOMAIN todo' : todo'[i] = todo[k]
  BY <1>1
<1>4. \A i \in DOMAIN tasks : \E k \in DOMAIN todo' : todo'[k] = tasks[i]
  BY <1>1
<1>5. TaskAttributes(tasks) \subseteq TaskAttributes(todo') /\ TaskGroups(tasks) \subseteq TaskGroups(todo')
  BY <1>4 DEF TaskAttributes, TaskGroups
<1>6. TaskAttributes(todo') \subseteq TaskAttributes(tasks) \cup TaskAttributes(todo)
  BY <1>2 DEF TaskAttributes
<1>7. TaskGroups(todo') \subseteq TaskGroups(tasks) \cup TaskGroups(todo)
  BY <1>2 DEF TaskGroups
<1>8. \A a \in TaskAttributes(todo) :
              a \in TaskAttributes(todo') \/ (Head(todo).task = "attribute" /\ Head(todo).attribute = a)
  BY <1>3 DEF TaskAttributes
<1>9. \A g \in TaskGroups(todo) :
              g \in TaskGroups(todo') \/ (Head(todo).task = "attributeGroup" /\ Head(todo).name = g)
  BY <1>3 DEF TaskGroups
<1> QED  BY <1>5, <1>6, <1>7, <1>8, <1>9

LEMMA ConcatHolds ==
  ASSUME NEW a, NEW b, IsSequence(a), IsSequence(b)
  PROVE  /\ TaskAttributes(a \o b) = TaskAttributes(a) \cup TaskAttributes(b)
         /\ TaskGroups(a \o b) = TaskGroups(a) \cup TaskGroups(b)
<1>1. \A i \in DOMAIN a : i \in DOMAIN (a \o b) /\ (a \o b)[i] = a[i]
  BY ConcatIsSequence
<1>2. \A i \in DOMAIN b : Len(a) + i \in DOMAIN (a \o b) /\ (a \o b)[Len(a) + i] = b[i]
  BY ConcatIsSequence
<1>3. \A i \in DOMAIN (a \o b) :
        (\E k \in DOMAIN a : (a \o b)[i] = a[k]) \/ \E k \in DOMAIN b : (a \o b)[i] = b[k]
  BY ConcatMembers
<1> DEFINE c == a \o b
<1>4. /\ \A i \in DOMAIN a : \E k \in DOMAIN c : c[k] = a[i]
      /\ \A i \in DOMAIN b : \E k \in DOMAIN c : c[k] = b[i]
      /\ \A i \in DOMAIN c : (\E k \in DOMAIN a : c[i] = a[k]) \/ \E k \in DOMAIN b : c[i] = b[k]
  BY <1>1, <1>2, <1>3
<1> HIDE DEF c
<1>5. TaskAttributes(c) = TaskAttributes(a) \cup TaskAttributes(b)
  BY <1>4 DEF TaskAttributes
<1>6. TaskGroups(c) = TaskGroups(a) \cup TaskGroups(b)
  BY <1>4 DEF TaskGroups
<1> QED  BY <1>5, <1>6 DEF c

LEMMA KindsHold ==
  ASSUME NEW list, NEW K, OfKinds(list, K)
  PROVE  /\ "attribute" \notin K => TaskAttributes(list) = {}
         /\ "attributeGroup" \notin K => TaskGroups(list) = {}
BY DEF OfKinds, TaskAttributes, TaskGroups

(* A list of tasks that has a list of these kinds, with these attributes and  *)
(* these groups.                                                              *)
Holds(list, K, A, G) == OfKinds(list, K) /\ TaskAttributes(list) = A /\ TaskGroups(list) = G

LEMMA HoldsConcat ==
  ASSUME NEW a, NEW b, NEW K, NEW A, NEW G, NEW B, NEW H, Holds(a, K, A, G), Holds(b, K, B, H)
  PROVE  Holds(a \o b, K, A \cup B, G \cup H)
<1>1. IsSequence(a) /\ IsSequence(b)
  BY DEF Holds, OfKinds
<1> QED  BY <1>1, ConcatHolds, ConcatKinds DEF Holds

LEMMA HoldsNothing ==
  ASSUME NEW list, NEW K, NEW M, OfKinds(list, K), K \subseteq M, K \cap {"attribute", "attributeGroup"} = {}
  PROVE  Holds(list, M, {}, {})
BY KindsHold, WiderKinds DEF Holds

LEMMA PartsHold ==
  ASSUME NEW d, IsSequence(d.attributes), IsSequence(d.attributeGroups), d.any \in Nat, NEW ns,
         NEW M, AttributeKinds \subseteq M
  PROVE  /\ Holds(AttributeTasks(d.attributes, ns), M, Range(d.attributes), {})
         /\ Holds(AttributeGroupTasks(d.attributeGroups, ns), M, {}, Range(d.attributeGroups))
         /\ Holds(AnyAttributeTasks(d.any, ns), M, {}, {})
<1> DEFINE a == AttributeTasks(d.attributes, ns)
           g == AttributeGroupTasks(d.attributeGroups, ns)
           n == AnyAttributeTasks(d.any, ns)
<1>1. OfKinds(a, M) /\ OfKinds(g, M) /\ OfKinds(n, M)
  <2>1. OfKinds(a, AttributeKinds) /\ OfKinds(g, AttributeKinds) /\ OfKinds(n, AttributeKinds)
    BY AttributesKinds
  <2> HIDE DEF a, g, n
  <2> QED  BY <2>1, WiderKinds
<1>2. TaskAttributes(a) = Range(d.attributes) /\ TaskGroups(a) = {}
  BY DEF TaskAttributes, TaskGroups, AttributeTasks, Range
<1>3. TaskAttributes(g) = {} /\ TaskGroups(g) = Range(d.attributeGroups)
  BY DEF TaskAttributes, TaskGroups, AttributeGroupTasks, Range
<1>4. TaskAttributes(n) = {} /\ TaskGroups(n) = {}
  BY DEF TaskAttributes, TaskGroups, AnyAttributeTasks
<1> QED  BY <1>1, <1>2, <1>3, <1>4 DEF Holds

LEMMA GroupTasksHold ==
  ASSUME IsSchema(schema), NEW name \in DOMAIN schema.attributeGroups, NEW ns
  PROVE  LET group == schema.attributeGroups[name]
             leave == <<[task |-> "leaveAttributeGroup", name |-> name]>>
         IN  Holds(GroupTasks(name, ns) \o leave, AttributeKinds \cup {"leaveAttributeGroup"},
                   Range(group.attributes), Range(group.attributeGroups))
<1> DEFINE group == schema.attributeGroups[name]
           leave == <<[task |-> "leaveAttributeGroup", name |-> name]>>
           a == AttributeTasks(group.attributes, ns)
           g == AttributeGroupTasks(group.attributeGroups, ns)
           n == AnyAttributeTasks(group.any, ns)
           M == AttributeKinds \cup {"leaveAttributeGroup"}
           A == Range(group.attributes)
           G == Range(group.attributeGroups)
<1>1. IsSequence(group.attributes) /\ IsSequence(group.attributeGroups) /\ group.any \in Nat
  BY GroupParts DEF IsSequence
<1>2. Holds(a, M, A, {}) /\ Holds(g, M, {}, G) /\ Holds(n, M, {}, {})
  <2>1. AttributeKinds \subseteq M
    OBVIOUS
  <2> HIDE DEF M, group
  <2> QED  BY <1>1, <2>1, PartsHold
<1>3. Holds(leave, M, {}, {})
  <2> DEFINE t == [task |-> "leaveAttributeGroup", name |-> name]
             K == {"leaveAttributeGroup"}
  <2>1. t.task \in K /\ K \subseteq M /\ K \cap {"attribute", "attributeGroup"} = {}
    OBVIOUS
  <2> HIDE DEF t, K, M
  <2>2. OfKinds(<<t>>, K)
    BY <2>1, OneKind
  <2>3. Holds(<<t>>, M, {}, {})
    BY <2>1, <2>2, HoldsNothing
  <2> QED  BY <2>3 DEF t
<1>4. GroupTasks(name, ns) = a \o g \o n
  BY DEF GroupTasks
<1> HIDE DEF a, g, n, leave, M, A, G
<1>5. Holds(a \o g, M, A \cup {}, {} \cup G)
  BY <1>2, HoldsConcat
<1>6. Holds(a \o g \o n, M, A \cup {} \cup {}, {} \cup G \cup {})
  <2> DEFINE b == a \o g
             B == A \cup {}
             H == {} \cup G
  <2>1. Holds(b, M, B, H)
    BY <1>5
  <2> HIDE DEF b, B, H
  <2>2. Holds(b \o n, M, B \cup {}, H \cup {})
    BY <1>2, <2>1, HoldsConcat
  <2> QED  BY <2>2 DEF b, B, H
<1>7. Holds(GroupTasks(name, ns), M, A, G)
  <2>1. A \cup {} \cup {} = A /\ {} \cup G \cup {} = G
    OBVIOUS
  <2> QED  BY <1>4, <1>6, <2>1
<1>8. Holds(GroupTasks(name, ns) \o leave, M, A \cup {}, G \cup {})
  BY <1>3, <1>7, HoldsConcat
<1>9. A \cup {} = A /\ G \cup {} = G
  OBVIOUS
<1>10. Holds(GroupTasks(name, ns) \o leave, M, A, G)
  BY <1>8, <1>9
<1> QED  BY <1>10 DEF M, A, G, leave

LEMMA EnterTasksHold ==
  ASSUME IsSchema(schema), NEW type \in Types
  PROVE  Holds(EnterTasks(type), EnterKinds \cup {"type"}, Range(type.attributes), Range(type.attributeGroups))
<1> DEFINE leave == <<[task |-> "leaveType", name |-> type.name]>>
           base == IF HasBase(type) THEN <<TypeTask(ComplexType(type.base))>> ELSE << >>
           content == ContentTasks(type)
           p == IF SimpleContent(type) THEN << >> ELSE ParticleTasks(type.content, type.ns, FALSE)
           a == AttributeTasks(type.attributes, type.ns)
           g == AttributeGroupTasks(type.attributeGroups, type.ns)
           n == AnyAttributeTasks(type.any, type.ns)
           M == EnterKinds \cup {"type"}
           A == Range(type.attributes)
           G == Range(type.attributeGroups)
<1>1. /\ IsSequence(type.attributes) /\ IsSequence(type.attributeGroups) /\ type.any \in Nat
      /\ IsSequence(type.content)
  BY TypeParts DEF IsSequence
<1>2. Holds(a, M, A, {}) /\ Holds(g, M, {}, G) /\ Holds(n, M, {}, {})
  <2>1. AttributeKinds \subseteq M
    BY DEF EnterKinds, OwnKinds
  <2> DEFINE ns == type.ns
  <2> HIDE DEF M, ns
  <2>2. /\ Holds(AttributeTasks(type.attributes, ns), M, A, {})
        /\ Holds(AttributeGroupTasks(type.attributeGroups, ns), M, {}, G)
        /\ Holds(AnyAttributeTasks(type.any, ns), M, {}, {})
    BY <1>1, <2>1, PartsHold
  <2> QED  BY <2>2 DEF ns
<1>3. Holds(base, M, {}, {}) /\ Holds(content, M, {}, {}) /\ Holds(leave, M, {}, {})
  <2>1. OfKinds(leave, {"leaveType"}) /\ OfKinds(content, {"content"}) /\ OfKinds(base, {"type"})
    BY EnterParts
  <2>2. {"leaveType"} \subseteq M /\ {"content"} \subseteq M /\ {"type"} \subseteq M
    BY DEF EnterKinds
  <2>3. /\ {"leaveType"} \cap {"attribute", "attributeGroup"} = {}
        /\ {"content"} \cap {"attribute", "attributeGroup"} = {}
        /\ {"type"} \cap {"attribute", "attributeGroup"} = {}
    OBVIOUS
  <2> HIDE DEF leave, content, base, M
  <2> QED  BY <2>1, <2>2, <2>3, HoldsNothing
<1>4. Holds(p, M, {}, {})
  <2> DEFINE K == {"particle"}
  <2>1. OfKinds(p, K)
    <3>1. OfKinds(ParticleTasks(type.content, type.ns, FALSE), K)
      BY <1>1, ParticleKinds
    <3>2. OfKinds(<< >>, K)
      BY NoTasks DEF OfKinds, Tasks
    <3> QED  BY <3>1, <3>2
  <2>2. K \subseteq M /\ K \cap {"attribute", "attributeGroup"} = {}
    BY DEF EnterKinds, OwnKinds
  <2> HIDE DEF K, M, p
  <2> QED  BY <2>1, <2>2, HoldsNothing
<1>5. OwnTasks(type) = p \o a \o g \o n
  BY DEF OwnTasks
<1>6. EnterTasks(type) = base \o OwnTasks(type) \o content \o leave
  BY EnterParts
<1> HIDE DEF a, g, n, p, base, content, leave, M, A, G
<1>7. Holds(OwnTasks(type), M, A, G)
  <2>1. Holds(p \o a, M, {} \cup A, {} \cup {})
    BY <1>2, <1>4, HoldsConcat
  <2> DEFINE b == p \o a
  <2>2. Holds(b, M, A, {})
    <3>1. {} \cup A = A /\ {} \cup {} = {}
      OBVIOUS
    <3> QED  BY <2>1, <3>1
  <2> HIDE DEF b
  <2>3. Holds(b \o g, M, A \cup {}, {} \cup G)
    BY <1>2, <2>2, HoldsConcat
  <2> DEFINE c == b \o g
  <2>4. Holds(c, M, A, G)
    <3>1. A \cup {} = A /\ {} \cup G = G
      OBVIOUS
    <3> QED  BY <2>3, <3>1
  <2> HIDE DEF c
  <2>5. Holds(c \o n, M, A \cup {}, G \cup {})
    BY <1>2, <2>4, HoldsConcat
  <2>6. A \cup {} = A /\ G \cup {} = G
    OBVIOUS
  <2>7. Holds(c \o n, M, A, G)
    BY <2>5, <2>6
  <2> QED  BY <1>5, <2>7 DEF b, c
<1>8. Holds(EnterTasks(type), M, A, G)
  <2> DEFINE own == OwnTasks(type)
  <2> HIDE DEF own
  <2>1. Holds(base \o own, M, {} \cup A, {} \cup G)
    BY <1>3, <1>7, HoldsConcat DEF own
  <2> DEFINE b == base \o own
  <2>2. Holds(b, M, A, G)
    <3>1. {} \cup A = A /\ {} \cup G = G
      OBVIOUS
    <3> QED  BY <2>1, <3>1
  <2> HIDE DEF b
  <2>3. Holds(b \o content, M, A \cup {}, G \cup {})
    BY <1>3, <2>2, HoldsConcat
  <2>4. A \cup {} = A /\ G \cup {} = G
    OBVIOUS
  <2> DEFINE c == b \o content
  <2>5. Holds(c, M, A, G)
    BY <2>3, <2>4
  <2> HIDE DEF c
  <2>6. Holds(c \o leave, M, A \cup {}, G \cup {})
    BY <1>3, <2>5, HoldsConcat
  <2>7. Holds(c \o leave, M, A, G)
    BY <2>4, <2>6
  <2> QED  BY <1>6, <2>7 DEF b, c, own
<1> QED  BY <1>8 DEF M, A, G

(* What one step changes. *)
LEMMA AttributedStep ==
  ASSUME IInv, todo # << >>, UNCHANGED <<schema, root>>,
         NEW tasks, IsSequence(tasks), Call(tasks),
         NEW s, NEW E, NEW p, NEW F, Attributed(s, E),
         Range(s) \subseteq Range(p), E \subseteq F, groupsVisiting' \subseteq F, F \subseteq GroupsFor(p),
         AttributeFields \subseteq AttributeFields',
         AttributeFields' \subseteq {PairOf(a) : a \in Wanted(p)},
         TaskAttributes(tasks) \subseteq Wanted(p),
         TaskGroups(tasks) \cap AttributeGroups \subseteq GroupsFor(p),
         Head(todo).task = "attribute" => PairOf(Head(todo).attribute) \in AttributeFields',
         Head(todo).task = "attributeGroup" => Head(todo).name \in F \/ Head(todo).name \notin AttributeGroups,
         \A t \in Range(p) \ Range(s) : Range(t.attributes) \subseteq TaskAttributes(tasks)
                                         /\ Range(t.attributeGroups) \subseteq TaskGroups(tasks),
         \A g \in F \ E : /\ Range(schema.attributeGroups[g].attributes) \subseteq TaskAttributes(tasks)
                          /\ Range(schema.attributeGroups[g].attributeGroups) \subseteq TaskGroups(tasks)
  PROVE  Attributed(p, F)'
<1>1. /\ TaskAttributes(tasks) \subseteq TaskAttributes(todo')
      /\ TaskGroups(tasks) \subseteq TaskGroups(todo')
      /\ TaskAttributes(todo') \subseteq TaskAttributes(tasks) \cup TaskAttributes(todo)
      /\ TaskGroups(todo') \subseteq TaskGroups(tasks) \cup TaskGroups(todo)
      /\ \A a \in TaskAttributes(todo) :
           a \in TaskAttributes(todo') \/ (Head(todo).task = "attribute" /\ Head(todo).attribute = a)
      /\ \A g \in TaskGroups(todo) :
           g \in TaskGroups(todo') \/ (Head(todo).task = "attributeGroup" /\ Head(todo).name = g)
  BY CallTasks
<1>2. AttributeGroups' = AttributeGroups
  BY DEF AttributeGroups
<1>3. /\ \A t : GroupsOf(t)' = GroupsOf(t) /\ AttributesOf(t)' = AttributesOf(t)
      /\ Wanted(p)' = Wanted(p) /\ GroupsFor(p)' = GroupsFor(p)
  BY DEF GroupsOf, AttributesOf, Wanted, GroupsFor
<1>4. Wanted(s) \subseteq Wanted(p) /\ GroupsFor(s) \subseteq GroupsFor(p)
  BY DEF Wanted, GroupsFor
<1>5. ASSUME NEW d, Covered(d, E) PROVE Covered(d, F)'
  <2>1. \A a \in Range(d.attributes) : PairOf(a) \in AttributeFields' \/ a \in TaskAttributes(todo')
    BY <1>1, <1>5 DEF Covered
  <2>2. \A g \in Range(d.attributeGroups) \cap AttributeGroups : g \in F \/ g \in TaskGroups(todo')
    BY <1>1, <1>5 DEF Covered
  <2> QED  BY <1>2, <2>1, <2>2 DEF Covered, TaskAttributes, TaskGroups
<1>6. ASSUME NEW d, Range(d.attributes) \subseteq TaskAttributes(tasks),
             Range(d.attributeGroups) \subseteq TaskGroups(tasks)
      PROVE  Covered(d, F)'
  <2>1. \A a \in Range(d.attributes) : PairOf(a) \in AttributeFields' \/ a \in TaskAttributes(todo')
    BY <1>1, <1>6
  <2>2. \A g \in Range(d.attributeGroups) \cap AttributeGroups : g \in F \/ g \in TaskGroups(todo')
    BY <1>1, <1>6
  <2> QED  BY <1>2, <2>1, <2>2 DEF Covered, TaskAttributes, TaskGroups
<1>7. \A t \in Range(p) : Covered(t, F)'
  BY <1>5, <1>6 DEF Attributed
<1>8. ASSUME NEW g \in F PROVE Covered(schema.attributeGroups[g], F)'
  <2> DEFINE d == schema.attributeGroups[g]
  <2>1. CASE g \in E
    <3>1. Covered(d, E)
      BY <2>1 DEF Attributed
    <3>2. d' = d
      OBVIOUS
    <3> QED  BY <1>5, <3>1, <3>2
  <2>2. CASE g \notin E
    BY <1>6, <2>2
  <2> QED  BY <2>1, <2>2
<1>9. TaskAttributes(todo') \subseteq Wanted(p) /\ TaskGroups(todo') \cap AttributeGroups \subseteq GroupsFor(p)
  BY <1>1, <1>4 DEF Attributed
<1>10. TaskAttributes(todo)' = TaskAttributes(todo') /\ TaskGroups(todo)' = TaskGroups(todo')
  BY DEF TaskAttributes, TaskGroups
<1>11. {PairOf(a) : a \in Wanted(p)}' = {PairOf(a) : a \in Wanted(p)}
  BY <1>3 DEF PairOf
<1> QED  BY <1>2, <1>3, <1>7, <1>8, <1>9, <1>10, <1>11 DEF Attributed

LEMMA GroupsClosed ==
  ASSUME IsSchema(schema), NEW type \in Types
  PROVE  /\ Range(type.attributes) \subseteq AttributesOf(type)
         /\ Range(type.attributeGroups) \cap AttributeGroups \subseteq GroupsOf(type)
         /\ \A g \in GroupsOf(type) :
              /\ g \in AttributeGroups
              /\ Range(schema.attributeGroups[g].attributes) \subseteq AttributesOf(type)
              /\ Range(schema.attributeGroups[g].attributeGroups) \cap AttributeGroups \subseteq GroupsOf(type)
         /\ \A a \in AttributesOf(type) : a.required \in BOOLEAN
         /\ \A E \in SUBSET AttributeGroups :
              /\ Range(type.attributeGroups) \cap AttributeGroups \subseteq E
              /\ \A g \in E : Range(schema.attributeGroups[g].attributeGroups) \cap AttributeGroups \subseteq E
              => GroupsOf(type) \subseteq E
<1> DEFINE Closed(S) ==
      /\ Range(type.attributeGroups) \cap AttributeGroups \subseteq S
      /\ \A g \in S : Range(schema.attributeGroups[g].attributeGroups) \cap AttributeGroups \subseteq S
<1>1. GroupsOf(type) = {g \in AttributeGroups : \A S \in SUBSET AttributeGroups : Closed(S) => g \in S}
  BY DEF GroupsOf, AttributeGroups, Range
<1> DEFINE Own == Range(type.attributes)
           Of(g) == Range(schema.attributeGroups[g].attributes)
<1>2. AttributesOf(type) = Own \cup UNION {Of(g) : g \in GroupsOf(type)}
  BY DEF AttributesOf, Range
<1>3. Own \subseteq AttributesOf(type) /\ \A g \in GroupsOf(type) : Of(g) \subseteq AttributesOf(type)
  <2> HIDE DEF Own, Of
  <2> QED  BY <1>2
<1>4. \A E \in SUBSET AttributeGroups : Closed(E) => GroupsOf(type) \subseteq E
  <2> HIDE DEF Closed
  <2> QED  BY <1>1
<1>5. Range(type.attributeGroups) \cap AttributeGroups \subseteq GroupsOf(type)
  <2> SUFFICES ASSUME NEW g \in Range(type.attributeGroups) \cap AttributeGroups PROVE g \in GroupsOf(type)
    OBVIOUS
  <2>1. \A S \in SUBSET AttributeGroups : Closed(S) => g \in S
    OBVIOUS
  <2> HIDE DEF Closed
  <2> QED  BY <1>1, <2>1
<1>6. ASSUME NEW g \in GroupsOf(type)
      PROVE  /\ g \in AttributeGroups
             /\ Range(schema.attributeGroups[g].attributeGroups) \cap AttributeGroups \subseteq GroupsOf(type)
  <2>1. g \in AttributeGroups /\ \A S \in SUBSET AttributeGroups : Closed(S) => g \in S
    <3> HIDE DEF Closed
    <3> QED  BY <1>1
  <2>2. ASSUME NEW h \in Range(schema.attributeGroups[g].attributeGroups) \cap AttributeGroups
        PROVE  h \in GroupsOf(type)
    <3>1. \A S \in SUBSET AttributeGroups : Closed(S) => h \in S
      BY <2>1
    <3> HIDE DEF Closed
    <3> QED  BY <1>1, <3>1
  <2> QED  BY <2>1, <2>2
<1>7. ASSUME NEW a \in AttributesOf(type) PROVE a.required \in BOOLEAN
  <2>1. CASE a \in Own
    BY <2>1, TypeParts
  <2>2. ASSUME NEW g \in GroupsOf(type), a \in Of(g) PROVE a.required \in BOOLEAN
    <3>1. g \in DOMAIN schema.attributeGroups
      BY <1>6 DEF AttributeGroups
    <3> QED  BY <2>2, <3>1, GroupParts
  <2> HIDE DEF Own, Of
  <2> QED  BY <1>2, <2>1, <2>2
<1> QED  BY <1>3, <1>4, <1>5, <1>6, <1>7

LEMMA WayIsTypes ==
  ASSUME NEW s, Way(s)
  PROVE  s \in Seq(Types)
<1>1. << >> \in Seq(Types)
  OBVIOUS
<1> QED  BY <1>1 DEF Way, Entered, IsPath

LEMMA AddAttribute ==
  ASSUME Fields, NEW f, fields' = Append(fields, f)
  PROVE  AttributeFields' = AttributeFields \cup (IF f.kind = "attribute" THEN {<<f.name, f.min = 1>>} ELSE {})
<1>1. PICK S : fields \in Seq(S)
  BY DEF Fields, IsSequence
<1>2. /\ DOMAIN fields' = 1..Len(fields) + 1 /\ Len(fields) \in Nat /\ DOMAIN fields = 1..Len(fields)
      /\ \A i \in DOMAIN fields : fields'[i] = fields[i]
      /\ fields'[Len(fields) + 1] = f
  BY <1>1
<1>3. /\ \A i \in DOMAIN fields : i \in DOMAIN fields'
      /\ Len(fields) + 1 \in DOMAIN fields'
      /\ \A i \in DOMAIN fields' : i \in DOMAIN fields \/ i = Len(fields) + 1
  BY <1>2
<1> DEFINE Pair(x) == <<x.name, x.min = 1>>
<1>4. AttributeFields = {Pair(fields[i]) : i \in {j \in DOMAIN fields : fields[j].kind = "attribute"}}
  BY DEF AttributeFields
<1>5. AttributeFields' = {Pair(fields'[i]) : i \in {j \in DOMAIN fields' : fields'[j].kind = "attribute"}}
  BY DEF AttributeFields
<1>6. AttributeFields' = AttributeFields \cup (IF f.kind = "attribute" THEN {Pair(f)} ELSE {})
  <2> HIDE DEF Pair
  <2> QED  BY <1>2, <1>3, <1>4, <1>5
<1> QED  BY <1>6

LEMMA GroupKeepsAttributes ==
  ASSUME IInv, GroupsNest, LeaveGroup
  PROVE  AttributeFields' = AttributeFields
<1> DEFINE group == Head(todo).group
           nested == {i \in DOMAIN fields : i > Head(todo).from}
           f == [i \in DOMAIN fields |-> IF i \in nested
                                         THEN [fields[i] EXCEPT !.min = group.min, !.max = group.max]
                                         ELSE fields[i]]
<1>1. fields' = f \/ fields' = fields
  BY DEF LeaveGroup
<1>2. \A i \in DOMAIN fields : "kind" \in DOMAIN fields[i]
  BY DEF IInv, Fields, IsField
<1>3. \A i \in nested : fields[i].kind \in ElementKinds
  <2>1. 1 \in DOMAIN todo /\ todo[1] = Head(todo) /\ Head(todo).task = "leaveGroup"
    BY TailIsSequence DEF IInv, Stack, LeaveGroup, Doing
  <2> QED  BY <2>1 DEF GroupsNest
<1>4. \A i \in DOMAIN fields : f[i] = fields[i] \/ (f[i].kind # "attribute" /\ fields[i].kind # "attribute")
  <2> TAKE i \in DOMAIN fields
  <2>1. CASE i \in nested
    <3>1. f[i].kind = fields[i].kind
      BY <1>2, <2>1
    <3> QED  BY <1>3, <2>1, <3>1 DEF ElementKinds
  <2> QED  BY <2>1
<1>5. DOMAIN f = DOMAIN fields
  OBVIOUS
<1> DEFINE Of(l) == {<<l[i].name, l[i].min = 1>> : i \in {j \in DOMAIN l : l[j].kind = "attribute"}}
<1>6. Of(f) = Of(fields)
  <2> HIDE DEF f
  <2> QED  BY <1>4, <1>5
<1>7. AttributeFields = Of(fields) /\ AttributeFields' = Of(fields')
  BY DEF AttributeFields
<1> HIDE DEF Of, f
<1> QED  BY <1>1, <1>6, <1>7

(* What taking a field out leaves. *)
LEMMA WithoutHolds ==
  ASSUME NEW S, NEW l \in Seq(S), NEW at \in DOMAIN l
  PROVE  /\ Without(l, at) \in Seq(S) /\ Len(Without(l, at)) = Len(l) - 1 /\ Len(l) \in Nat \ {0}
         /\ DOMAIN Without(l, at) = 1..Len(l) - 1 /\ DOMAIN l = 1..Len(l)
         /\ \A i \in 1..Len(l) - 1 : Without(l, at)[i] = IF i < at THEN l[i] ELSE l[i + 1]
         /\ \A i \in DOMAIN Without(l, at) : \E k \in DOMAIN l : k # at /\ Without(l, at)[i] = l[k]
         /\ \A k \in DOMAIN l : k # at => \E i \in DOMAIN Without(l, at) : Without(l, at)[i] = l[k]
<1>1. Len(l) \in Nat \ {0} /\ DOMAIN l = 1..Len(l) /\ at \in 1..Len(l)
  OBVIOUS
<1> DEFINE r == Without(l, at)
<1>2. \A i \in 1..Len(l) - 1 : i \in DOMAIN l /\ i + 1 \in DOMAIN l
  BY <1>1
<1>3. r = [i \in 1..Len(l) - 1 |-> IF i < at THEN l[i] ELSE l[i + 1]]
  BY DEF Without
<1>4. r \in [1..Len(l) - 1 -> S]
  <2>1. \A i \in 1..Len(l) - 1 : (IF i < at THEN l[i] ELSE l[i + 1]) \in S
    BY <1>2
  <2> HIDE DEF r
  <2> QED  BY <1>3, <2>1
<1>5. /\ r \in Seq(S) /\ Len(r) = Len(l) - 1 /\ DOMAIN r = 1..Len(l) - 1
      /\ \A i \in 1..Len(l) - 1 : r[i] = IF i < at THEN l[i] ELSE l[i + 1]
  <2>1. Len(l) - 1 \in Nat
    BY <1>1
  <2>2. r \in Seq(S)
    <3> HIDE DEF r
    <3> QED  BY <1>4, <2>1
  <2>3. DOMAIN r = 1..Len(l) - 1
    <3> HIDE DEF r
    <3> QED  BY <1>4
  <2> HIDE DEF r
  <2> QED  BY <1>3, <2>1, <2>2, <2>3
<1> HIDE DEF r
<1>6. \A i \in DOMAIN r : \E k \in DOMAIN l : k # at /\ r[i] = l[k]
  <2> TAKE i \in DOMAIN r
  <2>1. CASE i < at
    BY <1>1, <1>2, <1>5, <2>1
  <2>2. CASE ~ (i < at)
    <3>1. i + 1 \in DOMAIN l /\ i + 1 # at /\ r[i] = l[i + 1]
      BY <1>1, <1>2, <1>5, <2>2
    <3> QED  BY <3>1
  <2> QED  BY <2>1, <2>2
<1>7. \A k \in DOMAIN l : k # at => \E i \in DOMAIN r : r[i] = l[k]
  <2> TAKE k \in DOMAIN l
  <2> HAVE k # at
  <2>1. CASE k < at
    <3>1. k \in 1..Len(l) - 1
      BY <1>1, <2>1
    <3> QED  BY <1>5, <2>1, <3>1
  <2>2. CASE at < k
    <3>1. k - 1 \in 1..Len(l) - 1 /\ ~ (k - 1 < at) /\ (k - 1) + 1 = k
      BY <1>1, <2>2
    <3> QED  BY <1>5, <3>1
  <2> QED  BY <1>1, <2>1, <2>2
<1> QED  BY <1>1, <1>5, <1>6, <1>7 DEF r

LEMMA ContentKeepsAttributes ==
  ASSUME IInv, InterpretContent
  PROVE  AttributeFields' = AttributeFields
<1> DEFINE type == Head(todo).type
           ofBase == {i \in DOMAIN fields : i > Head(todo).from /\ fields[i].kind = "content"}
           first == CHOOSE i \in ofBase : \A j \in ofBase : i <= j
<1>1. PICK S : fields \in Seq(S)
  BY DEF IInv, Fields, IsSequence
<1>2. CASE ofBase = {}
  <2>1. fields' = fields \/ fields' = Append(fields, Content(type))
    BY <1>2 DEF InterpretContent
  <2>2. Content(type).kind # "attribute"
    BY DEF Content
  <2>3. CASE fields' = fields
    BY <2>3 DEF AttributeFields
  <2> DEFINE f == Content(type)
  <2>4. f.kind # "attribute"
    BY <2>2
  <2> HIDE DEF f
  <2>5. CASE fields' = Append(fields, f)
    BY <2>4, <2>5, AddAttribute DEF IInv
  <2> QED  BY <2>1, <2>3, <2>5 DEF f
<1>3. CASE ofBase # {}
  <2> DEFINE r == Without(fields, first)
             f == Renamed(fields[first], type)
  <2>1. fields' = Append(r, f)
    BY <1>3 DEF InterpretContent
  <2>2. first \in ofBase
    <3>1. ofBase \subseteq Nat
      BY <1>1
    <3> HIDE DEF ofBase
    <3> QED  BY <3>1, <1>3, SmallestIndex
  <2>3. first \in DOMAIN fields /\ fields[first].kind = "content"
    BY <2>2
  <2>4. f.kind = "content"
    <3>1. IsField(fields[first])
      BY <2>3 DEF IInv, Fields
    <3> DEFINE x == fields[first]
    <3>2. IsField(x) /\ x.kind = "content"
      BY <2>3, <3>1
    <3> HIDE DEF x
    <3>3. Renamed(x, type).kind = "content"
      BY <3>2 DEF Renamed, IsField
    <3> QED  BY <3>3 DEF x
  <2> HIDE DEF first, f
  <2>5. /\ r \in Seq(S)
        /\ \A i \in DOMAIN r : \E k \in DOMAIN fields : k # first /\ r[i] = fields[k]
        /\ \A k \in DOMAIN fields : k # first => \E i \in DOMAIN r : r[i] = fields[k]
    BY <1>1, <2>3, WithoutHolds
  <2> HIDE DEF r
  <2>6. /\ DOMAIN fields' = 1..Len(r) + 1 /\ Len(r) \in Nat /\ DOMAIN r = 1..Len(r)
        /\ \A i \in DOMAIN r : fields'[i] = r[i]
        /\ fields'[Len(r) + 1] = f
    BY <2>1, <2>5
  <2> DEFINE Of(l) == {<<l[i].name, l[i].min = 1>> : i \in {j \in DOMAIN l : l[j].kind = "attribute"}}
  <2>7. \A i \in DOMAIN fields' : (i = Len(r) + 1) \/ i \in DOMAIN r
    BY <2>6
  <2>8. \A i \in DOMAIN r : i \in DOMAIN fields'
    BY <2>6
  <2>9. ASSUME NEW i \in DOMAIN fields', fields'[i].kind = "attribute"
        PROVE  \E k \in DOMAIN fields : fields[k] = fields'[i]
    BY <2>4, <2>5, <2>6, <2>7, <2>9
  <2>10. ASSUME NEW k \in DOMAIN fields, fields[k].kind = "attribute"
         PROVE  \E i \in DOMAIN fields' : fields'[i] = fields[k]
    BY <2>3, <2>5, <2>6, <2>8, <2>10
  <2>11. Of(fields') = Of(fields)
    BY <2>9, <2>10
  <2> QED  BY <2>11 DEF AttributeFields
<1> QED  BY <1>2, <1>3

LEMMA SameValues ==
  ASSUME NEW n, NEW f, NEW g,
         \A i \in n : \E k \in n : f[k] = g[i],
         \A i \in n : \E k \in n : f[i] = g[k]
  PROVE  {f[i] : i \in n} = {g[i] : i \in n}
OBVIOUS

LEMMA RangeOfReverse ==
  ASSUME NEW S, NEW s \in Seq(S)
  PROVE  /\ Reverse(s) \in Seq(S) /\ Len(Reverse(s)) = Len(s) /\ DOMAIN Reverse(s) = 1..Len(s) /\ DOMAIN s = 1..Len(s)
         /\ \A i \in 1..Len(s) : (Len(s) - i) + 1 \in 1..Len(s) /\ Reverse(s)[i] = s[(Len(s) - i) + 1]
         /\ Range(Reverse(s)) = Range(s)
<1>1. Len(s) \in Nat /\ DOMAIN s = 1..Len(s) /\ \A i \in 1..Len(s) : s[i] \in S
  OBVIOUS
<1> DEFINE r == Reverse(s)
<1>2. \A i \in 1..Len(s) : (Len(s) - i) + 1 \in 1..Len(s) /\ (Len(s) - ((Len(s) - i) + 1)) + 1 = i
  BY <1>1
<1>3. r = [i \in 1..Len(s) |-> s[(Len(s) - i) + 1]]
  BY DEF Reverse
<1>4. r \in Seq(S) /\ Len(r) = Len(s) /\ DOMAIN r = 1..Len(s)
  <2>1. r \in [1..Len(s) -> S]
    <3> HIDE DEF r
    <3> QED  BY <1>1, <1>2, <1>3
  <2> HIDE DEF r
  <2> QED  BY <1>1, <2>1
<1>5. \A i \in 1..Len(s) : r[i] = s[(Len(s) - i) + 1]
  <2> HIDE DEF r
  <2> QED  BY <1>3
<1> HIDE DEF r
<1>6. Range(r) = Range(s)
  <2>1. \A i \in 1..Len(s) : \E k \in 1..Len(s) : r[k] = s[i]
    <3> TAKE i \in 1..Len(s)
    <3> DEFINE k == (Len(s) - i) + 1
    <3>1. k \in 1..Len(s) /\ (Len(s) - k) + 1 = i
      BY <1>2
    <3> HIDE DEF k
    <3> QED  BY <1>5, <3>1
  <2>2. \A i \in 1..Len(s) : \E k \in 1..Len(s) : r[i] = s[k]
    BY <1>2, <1>5
  <2>3. DOMAIN r = 1..Len(s) /\ DOMAIN s = 1..Len(s)
    BY <1>1, <1>4
  <2> DEFINE n == 1..Len(s)
  <2>4. Range(r) = {r[i] : i \in n} /\ Range(s) = {s[i] : i \in n}
    BY <2>3 DEF Range
  <2>5. (\A i \in n : \E k \in n : r[k] = s[i]) /\ (\A i \in n : \E k \in n : r[i] = s[k])
    BY <2>1, <2>2
  <2> HIDE DEF n
  <2>6. {r[i] : i \in n} = {s[i] : i \in n}
    BY <2>5, SameValues
  <2> QED  BY <2>4, <2>6
<1> QED  BY <1>1, <1>2, <1>4, <1>5, <1>6 DEF r

LEMMA InitAttributed == Init => Attributed(<< >>, {})
<1> SUFFICES ASSUME Init PROVE Attributed(<< >>, {})
  OBVIOUS
<1>1. AttributeFields = {} /\ groupsVisiting = {}
  BY DEF Init, AttributeFields
<1>2. TaskAttributes(todo) = {} /\ TaskGroups(todo) = {}
  <2> DEFINE t == TypeTask(root)
  <2>1. todo = <<t>> /\ t.task = "type"
    BY DEF Init, TypeTask
  <2> HIDE DEF t
  <2>2. \A i \in DOMAIN todo : todo[i].task = "type"
    BY <2>1
  <2> QED  BY <2>2 DEF TaskAttributes, TaskGroups
<1>3. Range(<< >>) = {}
  BY DEF Range
<1>4. \A t \in Range(<< >>) : Covered(t, {})
  BY <1>3
<1> QED  BY <1>1, <1>2, <1>4 DEF Attributed

LEMMA EntersAttributed ==
  ASSUME IInv, NEW s, NEW E, Way(s), Attributed(s, E), InterpretComplexFields,
         NEW type, type = Head(todo).type, type.name \notin visiting
  PROVE  Attributed(Append(s, type), E)'
<1> DEFINE p == Append(s, type)
           tasks == EnterTasks(type)
<1>1. s \in Seq(Types) /\ type \in Types
  BY EntersWay
<1>2. /\ todo # << >> /\ UNCHANGED <<schema, root>> /\ groupsVisiting' = groupsVisiting /\ fields' = fields
      /\ Head(todo).task = "type" /\ Call(tasks)
  BY DEF InterpretComplexFields, Doing, EnterTasks
<1>3. Holds(tasks, EnterKinds \cup {"type"}, Range(type.attributes), Range(type.attributeGroups))
  BY <1>1, EnterTasksHold DEF IInv
<1>4. Range(p) = Range(s) \cup {type}
  BY <1>1, RangeOfAppend
<1>5. /\ IsSequence(tasks) /\ TaskAttributes(tasks) = Range(type.attributes)
      /\ TaskGroups(tasks) = Range(type.attributeGroups)
  BY <1>3 DEF Holds, OfKinds
<1>6. /\ Range(type.attributes) \subseteq AttributesOf(type)
      /\ Range(type.attributeGroups) \cap AttributeGroups \subseteq GroupsOf(type)
  BY <1>1, GroupsClosed DEF IInv
<1> HIDE DEF p, tasks
<1>7. /\ AttributesOf(type) \subseteq Wanted(p) /\ GroupsOf(type) \subseteq GroupsFor(p)
      /\ Wanted(s) \subseteq Wanted(p) /\ GroupsFor(s) \subseteq GroupsFor(p)
  BY <1>4 DEF Wanted, GroupsFor
<1>8. AttributeFields' = AttributeFields
  BY <1>2 DEF AttributeFields
<1>9. /\ groupsVisiting' \subseteq E /\ E \subseteq GroupsFor(p)
      /\ AttributeFields' \subseteq {PairOf(a) : a \in Wanted(p)}
  BY <1>2, <1>7, <1>8 DEF Attributed
<1>10. \A t \in Range(p) \ Range(s) : t = type
  BY <1>4
<1>11. Attributed(p, E)'
  BY <1>2, <1>4, <1>5, <1>6, <1>7, <1>8, <1>9, <1>10, AttributedStep
<1> QED  BY <1>11 DEF p

(* A step on which no attribute and no group comes or goes. *)
LEMMA PlainAttributed ==
  ASSUME IInv, NEW s, NEW E, Attributed(s, E), todo # << >>, UNCHANGED <<schema, root>>,
         Head(todo).task \notin {"attribute", "attributeGroup"},
         NEW tasks, NEW K, OfKinds(tasks, K), "attribute" \notin K, "attributeGroup" \notin K, Call(tasks),
         groupsVisiting' \subseteq groupsVisiting, AttributeFields' = AttributeFields
  PROVE  Attributed(s, E)'
<1>1. IsSequence(tasks) /\ TaskAttributes(tasks) = {} /\ TaskGroups(tasks) = {}
  BY KindsHold DEF OfKinds
<1>2. /\ groupsVisiting' \subseteq E /\ E \subseteq GroupsFor(s)
      /\ AttributeFields' \subseteq {PairOf(a) : a \in Wanted(s)}
  BY DEF Attributed
<1> QED  BY <1>1, <1>2, AttributedStep

LEMMA AttributeAttributed ==
  ASSUME IInv, NEW s, NEW E, Way(s), Attributed(s, E), InterpretAttribute
  PROVE  Attributed(s, E)'
<1> DEFINE a == Head(todo).attribute
           f == [kind |-> "attribute", name |-> a.name,
                 ns |-> ElementNamespace(a, Head(todo).ns), choice |-> FALSE,
                 min |-> IF a.required THEN 1 ELSE 0, max |-> 1]
           tasks == << >>
<1>1. /\ todo # << >> /\ UNCHANGED <<schema, root>> /\ groupsVisiting' = groupsVisiting
      /\ Head(todo).task = "attribute" /\ Call(tasks) /\ fields' = Append(fields, f)
  BY DEF InterpretAttribute, Doing, Add
<1>2. a \in Wanted(s)
  <2>1. a \in TaskAttributes(todo)
    <3>1. 1 \in DOMAIN todo /\ todo[1] = Head(todo)
      BY <1>1, TailIsSequence DEF IInv, Stack
    <3> QED  BY <1>1, <3>1 DEF TaskAttributes
  <2> QED  BY <2>1 DEF Attributed
<1>3. a.required \in BOOLEAN
  <2>1. PICK t \in Range(s) : a \in AttributesOf(t)
    BY <1>2 DEF Wanted
  <2>2. t \in Types
    BY WayIsTypes DEF Range
  <2> HIDE DEF a
  <2> QED  BY <2>1, <2>2, GroupsClosed DEF IInv
<1>4. f.kind = "attribute" /\ f.name = a.name /\ f.min = IF a.required THEN 1 ELSE 0
  OBVIOUS
<1>5. (f.min = 1) = a.required
  <2> HIDE DEF a, f
  <2> QED  BY <1>3, <1>4
<1> HIDE DEF f
<1>6. AttributeFields' = AttributeFields \cup {<<f.name, f.min = 1>>}
  BY <1>1, <1>4, AddAttribute DEF IInv
<1>7. AttributeFields' = AttributeFields \cup {PairOf(a)}
  BY <1>4, <1>5, <1>6 DEF PairOf
<1>8. IsSequence(tasks) /\ TaskAttributes(tasks) = {} /\ TaskGroups(tasks) = {}
  BY NoTasks DEF Tasks, TaskAttributes, TaskGroups
<1> HIDE DEF a, tasks
<1>9. /\ groupsVisiting' \subseteq E /\ E \subseteq GroupsFor(s)
      /\ AttributeFields' \subseteq {PairOf(x) : x \in Wanted(s)}
  BY <1>1, <1>2, <1>7 DEF Attributed
<1>10. AttributeFields \subseteq AttributeFields' /\ PairOf(Head(todo).attribute) \in AttributeFields'
  BY <1>7 DEF a
<1> QED  BY <1>1, <1>8, <1>9, <1>10, AttributedStep

LEMMA GroupRefAttributed ==
  ASSUME IInv, NEW s, NEW E, Way(s), Attributed(s, E), InterpretAttributeGroupRef
  PROVE  \E F : Attributed(s, F)'
<1> DEFINE name == Head(todo).name
           ns == Head(todo).ns
<1>1. /\ todo # << >> /\ UNCHANGED <<schema, root>> /\ fields' = fields /\ Head(todo).task = "attributeGroup"
  BY DEF InterpretAttributeGroupRef, Doing
<1>2. AttributeFields' = AttributeFields
  BY <1>1 DEF AttributeFields
<1>3. CASE name \in groupsVisiting \/ name \notin AttributeGroups
  <2> DEFINE tasks == << >>
  <2>1. Call(tasks) /\ groupsVisiting' = groupsVisiting
    BY <1>3 DEF InterpretAttributeGroupRef, AttributeGroups
  <2>2. IsSequence(tasks) /\ TaskAttributes(tasks) = {} /\ TaskGroups(tasks) = {}
    BY NoTasks DEF Tasks, TaskAttributes, TaskGroups
  <2> HIDE DEF tasks
  <2>3. /\ groupsVisiting' \subseteq E /\ E \subseteq GroupsFor(s)
        /\ AttributeFields' \subseteq {PairOf(a) : a \in Wanted(s)}
    BY <1>2, <2>1 DEF Attributed
  <2>4. Head(todo).name \in E \/ Head(todo).name \notin AttributeGroups
    BY <1>3 DEF Attributed
  <2>5. Attributed(s, E)'
    BY <1>1, <1>2, <2>1, <2>2, <2>3, <2>4, AttributedStep
  <2> QED  BY <2>5
<1>4. CASE name \notin groupsVisiting /\ name \in AttributeGroups
  <2> DEFINE leave == <<[task |-> "leaveAttributeGroup", name |-> name]>>
             group == schema.attributeGroups[name]
             tasks == GroupTasks(name, ns) \o leave
  <2>1. PICK g : g = name
    OBVIOUS
  <2>2. groupsVisiting' = groupsVisiting \cup {g} /\ Call(tasks) /\ g \in DOMAIN schema.attributeGroups
    BY <1>4, <2>1 DEF InterpretAttributeGroupRef, AttributeGroups, GroupTasks
  <2>3. Holds(tasks, AttributeKinds \cup {"leaveAttributeGroup"}, Range(group.attributes), Range(group.attributeGroups))
    <3> HIDE DEF ns
    <3> QED  BY <2>1, <2>2, GroupTasksHold DEF IInv
  <2>4. g \in GroupsFor(s)
    <3>1. name \in TaskGroups(todo)
      <4>1. 1 \in DOMAIN todo /\ todo[1] = Head(todo)
        BY <1>1, TailIsSequence DEF IInv, Stack
      <4> QED  BY <1>1, <4>1 DEF TaskGroups
    <3> QED  BY <1>4, <2>1, <3>1 DEF Attributed
  <2>5. PICK t \in Range(s) : g \in GroupsOf(t)
    BY <2>4 DEF GroupsFor
  <2>6. t \in Types
    BY WayIsTypes DEF Range
  <2>7. /\ Range(schema.attributeGroups[g].attributes) \subseteq AttributesOf(t)
        /\ Range(schema.attributeGroups[g].attributeGroups) \cap AttributeGroups \subseteq GroupsOf(t)
    BY <2>5, <2>6, GroupsClosed DEF IInv
  <2>8. AttributesOf(t) \subseteq Wanted(s) /\ GroupsOf(t) \subseteq GroupsFor(s)
    BY <2>5 DEF Wanted, GroupsFor
  <2>9. /\ IsSequence(tasks) /\ TaskAttributes(tasks) = Range(schema.attributeGroups[g].attributes)
        /\ TaskGroups(tasks) = Range(schema.attributeGroups[g].attributeGroups)
    BY <2>1, <2>3 DEF Holds, OfKinds
  <2> HIDE DEF tasks
  <2> DEFINE F == E \cup {g}
  <2>10. /\ groupsVisiting' \subseteq F /\ F \subseteq GroupsFor(s)
         /\ AttributeFields' \subseteq {PairOf(a) : a \in Wanted(s)}
    BY <1>2, <2>2, <2>4 DEF Attributed
  <2>11. Head(todo).name \in F /\ E \subseteq F /\ \A h \in F \ E : h = g
    BY <2>1
  <2> HIDE DEF F
  <2>12. Attributed(s, F)'
    BY <1>1, <1>2, <2>2, <2>7, <2>8, <2>9, <2>10, <2>11, AttributedStep
  <2> QED  BY <2>12
<1> QED  BY <1>3, <1>4

(* The attributes of what has been entered are fields, or are yet to be. *)
AInv == IInv /\ \E s, E : Way(s) /\ Attributed(s, E)

LEMMA NextAInv == AInv /\ [Next]_vars => AInv'
<1> SUFFICES ASSUME AInv, [Next]_vars PROVE AInv'
  OBVIOUS
<1>1. IInv'
  BY NextIInv DEF AInv
<1>2. PICK s, E : Way(s) /\ Attributed(s, E)
  BY DEF AInv
<1>3. IInv
  BY DEF AInv
<1>4. ASSUME Next PROVE \E p, F : Way(p)' /\ Attributed(p, F)'
  <2>1. CASE Entering
    <3>1. PICK type : type = Head(todo).type
      OBVIOUS
    <3>2. InterpretComplexFields /\ type.name \notin visiting
      BY <1>4, <2>1, <3>1 DEF Entering, Descending, Next, LeaveComplexType, InterpretElement, InterpretGroup,
         LeaveGroup, InterpretAttribute, InterpretAnyAttribute, InterpretAttributeGroupRef,
         LeaveAttributeGroup, InterpretContent, Doing
    <3> QED  BY <1>2, <1>3, <3>1, <3>2, EntersWay, EntersAttributed
  <2>2. CASE ~ Entering
    <3>1. Way(s)'
      BY <1>2, <1>3, <1>4, <2>2, StaysWay
    <3>2. \E F : Attributed(s, F)'
      <4>1. CASE InterpretAttribute
        BY <1>2, <1>3, <4>1, AttributeAttributed
      <4>2. CASE InterpretAttributeGroupRef
        BY <1>2, <1>3, <4>2, GroupRefAttributed
      <4>3. CASE ~ InterpretAttribute /\ ~ InterpretAttributeGroupRef
        <5>1. todo # << >> /\ UNCHANGED <<schema, root>>
          BY <1>3, <1>4, <2>2, StepPushes
        <5>2. Head(todo).task \notin {"attribute", "attributeGroup"} /\ groupsVisiting' \subseteq groupsVisiting
          BY <1>4, <4>3 DEF Next, InterpretComplexFields, LeaveComplexType, InterpretElement, InterpretGroup,
             LeaveGroup, InterpretAnyAttribute, LeaveAttributeGroup, InterpretContent, Doing
        <5>3. \E tasks, K : OfKinds(tasks, K) /\ "attribute" \notin K /\ "attributeGroup" \notin K /\ Call(tasks)
          <6>1. CASE Call(<< >>)
            <7>1. OfKinds(<< >>, {})
              BY NoTasks DEF OfKinds, Tasks
            <7> QED  BY <6>1, <7>1
          <6>2. CASE InterpretGroup
            BY <1>3, <6>2, GroupPushes
          <6> QED  BY <1>4, <2>2, <4>3, <6>1, <6>2 DEF Entering, Descending, Next, InterpretComplexFields,
                 LeaveComplexType, InterpretElement, LeaveGroup, InterpretAnyAttribute,
                 LeaveAttributeGroup, InterpretContent, Doing
        <5>4. AttributeFields' = AttributeFields
          <6>1. CASE fields' = fields
            BY <6>1 DEF AttributeFields
          <6>2. CASE LeaveGroup
            BY <1>2, <1>3, <6>2, GroupKeepsAttributes DEF Way
          <6>3. CASE InterpretContent
            BY <1>3, <6>3, ContentKeepsAttributes
          <6>4. CASE InterpretElement
            <7>1. PICK f : fields' = Append(fields, f) /\ f.kind \in ElementKinds
              BY <6>4, ElementAdded
            <7> QED  BY <1>3, <7>1, AddAttribute DEF IInv, ElementKinds
          <6>5. CASE InterpretAnyAttribute
            <7> DEFINE f == [kind |-> "anyAttribute", name |-> NoName, ns |-> NoNamespace, choice |-> FALSE,
                             min |-> 0, max |-> Unbounded]
            <7>1. fields' = Append(fields, f) /\ f.kind # "attribute"
              BY <6>5 DEF InterpretAnyAttribute, Add
            <7> HIDE DEF f
            <7> QED  BY <1>3, <7>1, AddAttribute DEF IInv
          <6> QED  BY <1>4, <4>3, <6>1, <6>2, <6>3, <6>4, <6>5 DEF Next, InterpretComplexFields,
                 LeaveComplexType, InterpretGroup, LeaveAttributeGroup
        <5>5. PICK tasks, K : OfKinds(tasks, K) /\ "attribute" \notin K /\ "attributeGroup" \notin K /\ Call(tasks)
          BY <5>3
        <5>6. Attributed(s, E)'
          BY <1>2, <1>3, <5>1, <5>2, <5>4, <5>5, PlainAttributed
        <5> QED  BY <5>6
      <4> QED  BY <4>1, <4>2, <4>3
    <3> QED  BY <3>1, <3>2
  <2> QED  BY <2>1, <2>2
<1>5. ASSUME UNCHANGED vars PROVE Way(s)' /\ Attributed(s, E)'
  <2>1. Way(s)'
    BY <1>2, <1>5, StutterWay
  <2>2. UNCHANGED <<schema, root, todo, visiting, groupsVisiting, fields>>
    BY <1>5 DEF vars
  <2>3. AttributeFields' = AttributeFields /\ AttributeGroups' = AttributeGroups
    BY <2>2 DEF AttributeFields, AttributeGroups
  <2>4. (\A t : Covered(t, E)' <=> Covered(t, E)) /\ schema' = schema
    BY <2>2, <2>3 DEF Covered, TaskAttributes, TaskGroups
  <2>5. \A t : GroupsOf(t)' = GroupsOf(t) /\ AttributesOf(t)' = AttributesOf(t)
    BY <2>2 DEF GroupsOf, AttributesOf
  <2>6. Wanted(s)' = Wanted(s) /\ GroupsFor(s)' = GroupsFor(s)
    BY <2>5 DEF Wanted, GroupsFor
  <2>7. TaskAttributes(todo)' = TaskAttributes(todo) /\ TaskGroups(todo)' = TaskGroups(todo)
    BY <2>2 DEF TaskAttributes, TaskGroups
  <2>8. \A g : Covered(schema.attributeGroups[g], E)' <=> Covered(schema.attributeGroups[g], E)
    BY <2>4
  <2>9. Attributed(s, E)'
    BY <1>2, <2>2, <2>3, <2>4, <2>6, <2>7, <2>8 DEF Attributed, PairOf
  <2> QED  BY <2>1, <2>9
<1> QED  BY <1>1, <1>4, <1>5 DEF AInv

LEMMA InitAInv == Init => AInv
BY InitIInv, InitWay, InitAttributed DEF AInv

LEMMA DoneAttributes == AInv => AttributesAreFields
<1> SUFFICES ASSUME AInv, Done PROVE AttributesAreFields
  BY DEF AttributesAreFields
<1>1. PICK s, E : Way(s) /\ Attributed(s, E)
  BY DEF AInv
<1>2. IsSchema(schema) /\ TaskAttributes(todo) = {} /\ TaskGroups(todo) = {}
  BY DEF AInv, IInv, Done, TaskAttributes, TaskGroups
<1>3. IsPath(s) /\ Extend(s) = s /\ s \in Seq(Types) /\ root \in Types
  BY <1>1, WayIsTypes DEF Way, Entered, Descending, Done
<1>4. Chain = Reverse(s)
  BY <1>2, <1>3, PathIsChain
<1>5. Range(Chain) = Range(s)
  BY <1>3, <1>4, RangeOfReverse
<1>6. ASSUME NEW t \in Range(s) PROVE GroupsOf(t) \subseteq E
  <2>1. t \in Types
    BY <1>3 DEF Range
  <2>2. E \subseteq AttributeGroups
    <3>1. \A x \in Range(s) : GroupsOf(x) \subseteq AttributeGroups
      BY DEF GroupsOf, AttributeGroups
    <3> QED  BY <1>1, <3>1 DEF Attributed, GroupsFor
  <2>3. Range(t.attributeGroups) \cap AttributeGroups \subseteq E
    BY <1>1, <1>2, <1>6 DEF Attributed, Covered
  <2>4. \A g \in E : Range(schema.attributeGroups[g].attributeGroups) \cap AttributeGroups \subseteq E
    BY <1>1, <1>2 DEF Attributed, Covered
  <2> QED  BY <1>2, <2>1, <2>2, <2>3, <2>4, GroupsClosed
<1>7. ASSUME NEW a \in Wanted(s) PROVE PairOf(a) \in AttributeFields
  <2>1. PICK t \in Range(s) : a \in AttributesOf(t)
    BY DEF Wanted
  <2>2. CASE a \in Range(t.attributes)
    BY <1>1, <1>2, <2>1, <2>2 DEF Attributed, Covered
  <2>3. CASE \E g \in GroupsOf(t) : a \in Range(schema.attributeGroups[g].attributes)
    BY <1>1, <1>2, <1>6, <2>1, <2>3 DEF Attributed, Covered
  <2> QED  BY <2>1, <2>2, <2>3 DEF AttributesOf, Range
<1>8. AttributeFields = {PairOf(a) : a \in Wanted(s)}
  BY <1>1, <1>7 DEF Attributed
<1> DEFINE ofFields == {fields[i] : i \in {j \in DOMAIN fields : fields[j].kind = "attribute"}}
<1>9. {<<f.name, f.min = 1>> : f \in ofFields} = AttributeFields
  BY DEF AttributeFields
<1>10. UNION {{PairOf(a) : a \in AttributesOf(Chain[i])} : i \in DOMAIN Chain} = {PairOf(a) : a \in Wanted(s)}
  <2>1. Wanted(s) = UNION {AttributesOf(Chain[i]) : i \in DOMAIN Chain}
    BY <1>5 DEF Wanted, Range
  <2> QED  BY <2>1
<1>11. {<<f.name, f.min = 1>> : f \in ofFields}
       = UNION {{<<a.name, a.required>> : a \in AttributesOf(Chain[i])} : i \in DOMAIN Chain}
  BY <1>8, <1>9, <1>10 DEF PairOf
<1> QED  BY <1>11 DEF AttributesAreFields

(* Every attribute of a type, of its bases and of the attribute groups they    *)
(* refer to, through others or round a cycle, is a field, and no other is.     *)
THEOREM AttributesBecomeFields == Spec => []AttributesAreFields
<1>1. Spec => []AInv
  BY InitAInv, NextAInv, PTL DEF Spec
<1> QED  BY <1>1, DoneAttributes, PTL


-----------------------------------------------------------------------------
(* The text of a simple type *)

IsEnumeration(t) == t.kind = "simpleRestriction" /\ t.enumerated

(* Of the last j types of a way, those that enumerate values. *)
Enumerations(s, j) == {i \in (Len(s) - j) + 1 .. Len(s) : IsEnumeration(s[i])}

(* What the text is once the last j types of the way have been interpreted. *)
TextName(s, j) ==
  IF Enumerations(s, j) = {} THEN s[Len(s)].base
  ELSE s[CHOOSE i \in Enumerations(s, j) : \A k \in Enumerations(s, j) : i <= k].name

TextPlaces == {i \in DOMAIN fields : fields[i].kind = "content"}
AllSimple(s) == \A i \in DOMAIN s : SimpleContent(s[i])

(* The texts of the first n types of the way are yet to come, the nearer ones' *)
(* after the further ones'.                                                   *)
TextsOn(list, s, n) ==
  /\ \A i \in DOMAIN list : list[i].task = "content" =>
       list[i].from = 0 /\ \E k \in 1..n : list[i].type = s[k]
  /\ \A k \in 1..n : \E i \in DOMAIN list : list[i].task = "content" /\ list[i].type = s[k]
  /\ \A i, l \in DOMAIN list : list[i].task = "content" /\ list[l].task = "content" /\ i < l =>
       \A k, m \in 1..n : list[i].type = s[k] /\ list[l].type = s[m] => m < k

(* Behind everything that makes fields a text is yet to come. *)
TextsBehind ==
  \A i \in DOMAIN todo : \/ todo[i].task = "leaveType"
                         \/ i = 1 /\ Descending
                         \/ \E k \in DOMAIN todo : i <= k /\ todo[k].task = "content"

OneText(s, j) ==
  \E p \in DOMAIN fields : /\ TextPlaces = {p} /\ fields[p].name = TextName(s, j)
                           /\ j = Len(s) => p = Len(fields)

Texted(s, j) ==
  /\ j \in 0..Len(s)
  /\ TextsOn(todo, s, Len(s) - j) /\ TextsBehind
  /\ Descending => j = 0
  /\ j = 0 => TextPlaces = {}
  /\ j > 0 /\ ~ HasBase(s[Len(s)]) => OneText(s, j)

LEMMA InitTexted == Init => Texted(<< >>, 0)
<1> SUFFICES ASSUME Init PROVE Texted(<< >>, 0)
  OBVIOUS
<1> DEFINE t == TypeTask(root)
<1>1. todo = <<t>> /\ t.task = "type"
  BY DEF Init, TypeTask
<1> HIDE DEF t
<1>2. Descending /\ \A i \in DOMAIN todo : i = 1 /\ todo[i].task = "type"
  BY <1>1 DEF Descending
<1>3. TextsOn(todo, << >>, Len(<< >>) - 0)
  <2>1. 1..Len(<< >>) - 0 = {}
    OBVIOUS
  <2> QED  BY <1>2, <2>1 DEF TextsOn
<1>4. TextsBehind
  BY <1>2 DEF TextsBehind
<1>5. TextPlaces = {}
  BY DEF TextPlaces, Init
<1>6. 0 \in 0..Len(<< >>)
  OBVIOUS
<1> QED  BY <1>3, <1>4, <1>5, <1>6 DEF Texted

(* A task of one kind in a concatenation is one of either part. *)
LEMMA ConcatPlaces ==
  ASSUME NEW a, NEW b, IsSequence(a), IsSequence(b)
  PROVE  /\ IsSequence(a \o b) /\ Len(a) \in Nat /\ Len(b) \in Nat /\ Len(a \o b) = Len(a) + Len(b)
         /\ DOMAIN a = 1..Len(a) /\ DOMAIN b = 1..Len(b)
         /\ \A i \in DOMAIN (a \o b) :
              \/ i \in 1..Len(a) /\ (a \o b)[i] = a[i]
              \/ i > Len(a) /\ i - Len(a) \in 1..Len(b) /\ (a \o b)[i] = b[i - Len(a)]
         /\ \A i \in 1..Len(a) : i \in DOMAIN (a \o b) /\ (a \o b)[i] = a[i]
         /\ \A i \in 1..Len(b) : Len(a) + i \in DOMAIN (a \o b) /\ (a \o b)[Len(a) + i] = b[i]
<1>1. /\ IsSequence(a \o b)
      /\ DOMAIN a = 1..Len(a) /\ DOMAIN b = 1..Len(b) /\ Len(a) \in Nat /\ Len(b) \in Nat
      /\ DOMAIN (a \o b) = 1..(Len(a) + Len(b))
      /\ \A i \in DOMAIN a : (a \o b)[i] = a[i]
      /\ \A i \in DOMAIN b : (a \o b)[Len(a) + i] = b[i]
  BY ConcatIsSequence
<1>2. Len(a \o b) = Len(a) + Len(b)
  <2>1. Len(a \o b) \in Nat /\ DOMAIN (a \o b) = 1..Len(a \o b)
    BY <1>1 DEF IsSequence
  <2> DEFINE n == Len(a \o b)
             m == Len(a) + Len(b)
  <2>2. n \in Nat /\ m \in Nat /\ 1..n = 1..m
    BY <1>1, <2>1
  <2> HIDE DEF n, m
  <2>3. n = m
    BY <2>2
  <2> QED  BY <2>3 DEF n, m
<1>3. ASSUME NEW i \in DOMAIN (a \o b)
      PROVE  \/ i \in 1..Len(a) /\ (a \o b)[i] = a[i]
             \/ i > Len(a) /\ i - Len(a) \in 1..Len(b) /\ (a \o b)[i] = b[i - Len(a)]
  <2>1. \/ i \in DOMAIN a /\ (a \o b)[i] = a[i]
        \/ i - Len(a) \in DOMAIN b /\ i \notin DOMAIN a /\ (a \o b)[i] = b[i - Len(a)]
    BY ConcatMembers
  <2>2. i - Len(a) \in DOMAIN b => i > Len(a)
    <3>1. i \in Nat
      BY <1>1
    <3> QED  BY <1>1, <3>1
  <2> QED  BY <1>1, <2>1, <2>2
<1>4. \A i \in 1..Len(a) : i \in 1..(Len(a) + Len(b))
  BY <1>1
<1>5. \A i \in 1..Len(b) : Len(a) + i \in 1..(Len(a) + Len(b))
  BY <1>1
<1> QED  BY <1>1, <1>2, <1>3, <1>4, <1>5

(* What entering a simple type pushes: its text last but for its mark. *)
LEMMA EnterText ==
  ASSUME IsSchema(schema), NEW type \in Types, SimpleContent(type)
  PROVE  LET tasks == EnterTasks(type)
         IN  /\ IsSequence(tasks) /\ Len(tasks) \in Nat /\ Len(tasks) > 1 /\ DOMAIN tasks = 1..Len(tasks)
             /\ tasks[Len(tasks)].task = "leaveType"
             /\ tasks[Len(tasks) - 1] = [task |-> "content", type |-> type, from |-> Len(fields)]
             /\ \A i \in DOMAIN tasks : tasks[i].task = "content" => i = Len(tasks) - 1
<1> DEFINE leave == <<[task |-> "leaveType", name |-> type.name]>>
           base == IF HasBase(type) THEN <<TypeTask(ComplexType(type.base))>> ELSE << >>
           own == OwnTasks(type)
           text == [task |-> "content", type |-> type, from |-> Len(fields)]
           content == <<text>>
           K == OwnKinds \cup {"type"}
<1>1. EnterTasks(type) = base \o own \o content \o leave
  <2>1. ContentTasks(type) = content
    BY DEF ContentTasks
  <2> HIDE DEF content
  <2>2. EnterTasks(type) = base \o own \o ContentTasks(type) \o leave
    BY EnterParts
  <2> QED  BY <2>1, <2>2
<1>2. OfKinds(base, K) /\ OfKinds(own, K)
  <2>1. OfKinds(base, {"type"}) /\ OfKinds(own, OwnKinds)
    BY EnterParts
  <2> HIDE DEF base, own
  <2> QED  BY <2>1, WiderKinds
<1>3. Len(content) = 1 /\ content[1] = text /\ content \in Seq({text})
  <2> HIDE DEF text
  <2> QED  OBVIOUS
<1>4. Len(leave) = 1 /\ leave[1].task = "leaveType" /\ IsSequence(leave)
  <2>1. OfKinds(leave, {"leaveType"})
    BY EnterParts
  <2> QED  BY <2>1 DEF OfKinds
<1>5. text.task = "content" /\ "content" \notin K
  BY DEF OwnKinds, AttributeKinds
<1>6. IsSequence(content)
  BY <1>3 DEF IsSequence
<1> HIDE DEF leave, base, own, text, content, K
<1> DEFINE a == base \o own
<1>7. OfKinds(a, K)
  BY <1>2, ConcatKinds
<1> HIDE DEF a
<1>8. \A i \in DOMAIN a : a[i].task # "content"
  BY <1>5, <1>7 DEF OfKinds
<1>9. IsSequence(a)
  BY <1>7 DEF OfKinds
<1> DEFINE b == a \o content
<1>10. /\ IsSequence(b) /\ Len(b) = Len(a) + 1 /\ Len(a) \in Nat /\ b[Len(a) + 1] = text
       /\ \A i \in DOMAIN b : b[i].task = "content" => i = Len(a) + 1
  <2>0. /\ IsSequence(b) /\ Len(a) \in Nat /\ Len(b) = Len(a) + Len(content)
        /\ DOMAIN a = 1..Len(a)
        /\ \A i \in DOMAIN b :
              \/ i \in 1..Len(a) /\ b[i] = a[i]
              \/ i > Len(a) /\ i - Len(a) \in 1..Len(content) /\ b[i] = content[i - Len(a)]
        /\ \A i \in 1..Len(content) : b[Len(a) + i] = content[i]
    BY <1>6, <1>9, ConcatPlaces
  <2>1. /\ IsSequence(b) /\ Len(a) \in Nat /\ Len(b) = Len(a) + 1
        /\ DOMAIN a = 1..Len(a)
        /\ \A i \in DOMAIN b :
              \/ i \in 1..Len(a) /\ b[i] = a[i]
              \/ i > Len(a) /\ i - Len(a) \in 1..1 /\ b[i] = content[i - Len(a)]
        /\ \A i \in 1..1 : b[Len(a) + i] = content[i]
    BY ONLY <1>3, <2>0
  <2>2. \A i \in DOMAIN b : i \in Nat
    BY <2>1 DEF IsSequence
  <2> HIDE DEF b
  <2> QED  BY <1>3, <1>8, <2>1, <2>2
<1> HIDE DEF b
<1> DEFINE c == b \o leave
<1>11. /\ IsSequence(c) /\ Len(c) = Len(a) + 2 /\ c[Len(a) + 2].task = "leaveType" /\ c[Len(a) + 1] = text
       /\ \A i \in DOMAIN c : c[i].task = "content" => i = Len(a) + 1
  <2>0. /\ IsSequence(c) /\ Len(b) \in Nat /\ Len(c) = Len(b) + Len(leave)
        /\ DOMAIN b = 1..Len(b)
        /\ \A i \in DOMAIN c :
              \/ i \in 1..Len(b) /\ c[i] = b[i]
              \/ i > Len(b) /\ i - Len(b) \in 1..Len(leave) /\ c[i] = leave[i - Len(b)]
        /\ \A i \in 1..Len(leave) : c[Len(b) + i] = leave[i]
        /\ \A i \in 1..Len(b) : c[i] = b[i]
    <3>1. IsSequence(b) /\ IsSequence(leave)
      BY <1>4, <1>10
    <3> QED  BY ONLY <3>1, ConcatPlaces DEF c
  <2>1. /\ IsSequence(c) /\ Len(b) \in Nat /\ Len(c) = Len(b) + 1
        /\ DOMAIN b = 1..Len(b)
        /\ \A i \in DOMAIN c :
              \/ i \in 1..Len(b) /\ c[i] = b[i]
              \/ i > Len(b) /\ i - Len(b) \in 1..1 /\ c[i] = leave[i - Len(b)]
        /\ \A i \in 1..1 : c[Len(b) + i] = leave[i]
        /\ \A i \in 1..Len(b) : c[i] = b[i]
    BY ONLY <1>4, <2>0
  <2>2. Len(c) = Len(a) + 2 /\ c[Len(a) + 2] = leave[1]
    <3>1. c[Len(b) + 1] = leave[1]
      BY <2>1
    <3> QED  BY <1>10, <2>1, <3>1
  <2>3. c[Len(a) + 1] = text
    BY <1>10, <2>1
  <2>4. ASSUME NEW i \in DOMAIN c, c[i].task = "content" PROVE i = Len(a) + 1
    <3>1. CASE i \in 1..Len(b) /\ c[i] = b[i]
      BY <1>10, <2>1, <2>4, <3>1
    <3>2. CASE i - Len(b) \in 1..1 /\ c[i] = leave[i - Len(b)]
      BY <1>4, <2>4, <3>2
    <3> QED  BY <2>1, <3>1, <3>2
  <2> QED  BY <1>4, <2>1, <2>2, <2>3, <2>4
<1> HIDE DEF c
<1>12. DOMAIN c = 1..Len(c) /\ Len(c) \in Nat
  BY <1>11 DEF IsSequence
<1>13. EnterTasks(type) = c
  BY <1>1 DEF a, b, c
<1>14. /\ Len(c) > 1 /\ c[Len(c)].task = "leaveType" /\ c[Len(c) - 1] = text
       /\ \A i \in DOMAIN c : c[i].task = "content" => i = Len(c) - 1
  <2>1. Len(c) - 1 = Len(a) + 1 /\ Len(c) > 1
    BY <1>10, <1>11
  <2> QED  BY <1>11, <2>1
<1> QED  BY <1>11, <1>12, <1>13, <1>14 DEF text

LEMMA PathDiffers ==
  ASSUME NEW s, IsPath(s)
  PROVE  Len(s) \in Nat \ {0} /\ DOMAIN s = 1..Len(s) /\ \A k, m \in 1..Len(s) : s[k] = s[m] => k = m
<1>1. s \in Seq(Types) /\ s # << >>
  BY DEF IsPath
<1>2. Len(s) \in Nat \ {0} /\ DOMAIN s = 1..Len(s)
  BY <1>1
<1> QED  BY <1>2 DEF IsPath

LEMMA EntersTexted ==
  ASSUME IInv, NEW s, NEW j, Way(s), Texted(s, j), InterpretComplexFields,
         NEW type, type = Head(todo).type, type.name \notin visiting, AllSimple(Append(s, type))
  PROVE  Texted(Append(s, type), 0)'
<1> DEFINE p == Append(s, type)
<1>1. s \in Seq(Types) /\ type \in Types /\ Way(p)'
  BY EntersWay
<1>2. /\ todo # << >> /\ UNCHANGED <<schema, root>> /\ fields' = fields
      /\ Head(todo).task = "type" /\ Call(EnterTasks(type)) /\ Descending
  BY DEF InterpretComplexFields, Doing, EnterTasks, Descending
<1>3. fields = << >> /\ j = 0
  BY <1>2 DEF Way, Entered, Texted
<1>4. /\ p \in Seq(Types) /\ Len(p) = Len(s) + 1 /\ Len(s) \in Nat
      /\ \A i \in 1..Len(s) : p[i] = s[i]
      /\ p[Len(s) + 1] = type
      /\ DOMAIN p = 1..Len(s) + 1
  BY <1>1
<1>5. SimpleContent(type)
  <2>1. Len(s) + 1 \in DOMAIN p
    BY <1>4
  <2> QED  BY <1>4, <2>1 DEF AllSimple
<1> HIDE DEF p
<1>6. IsPath(p)
  <2>1. p # << >>
    BY <1>4
  <2>2. IsPath(p)'
    BY <1>1, <2>1 DEF Way, Entered
  <2> QED  BY <1>2, <2>2, SchemaStays
<1>7. \A k, m \in 1..Len(p) : p[k] = p[m] => k = m
  BY <1>6, PathDiffers
<1> DEFINE tasks == EnterTasks(type)
<1>8. /\ IsSequence(tasks) /\ Len(tasks) \in Nat /\ Len(tasks) > 1 /\ DOMAIN tasks = 1..Len(tasks)
      /\ tasks[Len(tasks)].task = "leaveType"
      /\ tasks[Len(tasks) - 1].task = "content" /\ tasks[Len(tasks) - 1].type = type
      /\ tasks[Len(tasks) - 1].from = 0
      /\ \A i \in DOMAIN tasks : tasks[i].task = "content" => i = Len(tasks) - 1
  <2> DEFINE text == [task |-> "content", type |-> type, from |-> Len(fields)]
  <2>1. text.task = "content" /\ text.type = type /\ text.from = 0
    BY <1>3
  <2> HIDE DEF text
  <2>2. /\ IsSequence(tasks) /\ Len(tasks) \in Nat /\ Len(tasks) > 1 /\ DOMAIN tasks = 1..Len(tasks)
        /\ tasks[Len(tasks)].task = "leaveType" /\ tasks[Len(tasks) - 1] = text
        /\ \A i \in DOMAIN tasks : tasks[i].task = "content" => i = Len(tasks) - 1
    BY <1>1, <1>5, EnterText DEF IInv, text
  <2> HIDE DEF tasks
  <2> QED  BY <2>1, <2>2
<1>9. Call(tasks)
  BY <1>2
<1> HIDE DEF tasks
<1> DEFINE n == Len(tasks) - 1
<1>10. n \in 1..Len(tasks) /\ n \in Nat
  BY <1>8
<1>11. /\ IsSequence(todo') /\ Head(todo) = todo[1] /\ 1 \in DOMAIN todo
       /\ \A i \in DOMAIN todo' :
            \/ i \in 1..Len(tasks) /\ todo'[i] = tasks[i]
            \/ \E k \in DOMAIN todo : /\ k \in Nat /\ k > 1 /\ i = k - 1 + Len(tasks)
                                      /\ todo'[i] = todo[k]
       /\ \A i \in 1..Len(tasks) : i \in DOMAIN todo' /\ todo'[i] = tasks[i]
       /\ \A k \in DOMAIN todo : \/ k = 1
                                 \/ /\ k - 1 + Len(tasks) \in DOMAIN todo'
                                    /\ todo'[k - 1 + Len(tasks)] = todo[k]
  <2>1. IsSequence(todo)
    BY DEF IInv, Stack
  <2> QED  BY <1>2, <1>8, <1>9, <2>1, CallPlaces
<1>12. \A i \in DOMAIN todo : i \in Nat
  <2>1. IsSequence(todo)
    BY DEF IInv, Stack
  <2> QED  BY <2>1 DEF IsSequence
<1>13. /\ \A i \in DOMAIN todo : todo[i].task = "content" =>
            todo[i].from = 0 /\ \E k \in 1..Len(s) : todo[i].type = p[k]
       /\ \A k \in 1..Len(s) : \E i \in DOMAIN todo : todo[i].task = "content" /\ todo[i].type = p[k]
       /\ \A i, l \in DOMAIN todo : todo[i].task = "content" /\ todo[l].task = "content" /\ i < l =>
            \A k, m \in 1..Len(s) : todo[i].type = p[k] /\ todo[l].type = p[m] => m < k
  <2>1. Len(s) - j = Len(s)
    BY <1>3, <1>4
  <2> DEFINE M == 1..Len(s)
  <2>2. TextsOn(todo, s, Len(s)) /\ \A i \in M : p[i] = s[i]
    BY <1>4, <2>1 DEF Texted
  <2>3. /\ \A i \in DOMAIN todo : todo[i].task = "content" =>
            todo[i].from = 0 /\ \E k \in M : todo[i].type = s[k]
        /\ \A k \in M : \E i \in DOMAIN todo : todo[i].task = "content" /\ todo[i].type = s[k]
        /\ \A i, l \in DOMAIN todo : todo[i].task = "content" /\ todo[l].task = "content" /\ i < l =>
            \A k, m \in M : todo[i].type = s[k] /\ todo[l].type = s[m] => m < k
    BY <2>2 DEF TextsOn
  <2> HIDE DEF M
  <2>4. /\ \A i \in DOMAIN todo : todo[i].task = "content" =>
            todo[i].from = 0 /\ \E k \in M : todo[i].type = p[k]
        /\ \A k \in M : \E i \in DOMAIN todo : todo[i].task = "content" /\ todo[i].type = p[k]
    BY ONLY <2>2, <2>3
  <2>5. \A i, l \in DOMAIN todo : todo[i].task = "content" /\ todo[l].task = "content" /\ i < l =>
            \A k, m \in M : todo[i].type = p[k] /\ todo[l].type = p[m] => m < k
    BY ONLY <2>2, <2>3
  <2> QED  BY <2>4, <2>5 DEF M
<1>14. Len(p) - 0 = Len(s) + 1 /\ Len(s) + 1 \in 1..Len(s) + 1
  BY <1>4
<1> DEFINE N == Len(s) + 1
<1>15. ASSUME NEW i \in DOMAIN todo', todo'[i].task = "content"
       PROVE  /\ todo'[i].from = 0 /\ \E k \in 1..N : todo'[i].type = p[k]
              /\ \/ i = n /\ todo'[i].type = p[N]
                 \/ \E k \in DOMAIN todo : /\ k \in Nat /\ k > 1 /\ i = k - 1 + Len(tasks)
                                           /\ todo[k].task = "content" /\ todo'[i] = todo[k]
  <2>1. CASE i \in 1..Len(tasks) /\ todo'[i] = tasks[i]
    <3>1. i = n
      BY <1>8, <1>15, <2>1
    <3> QED  BY <1>4, <1>8, <1>14, <2>1, <3>1
  <2>2. ASSUME NEW k \in DOMAIN todo, k \in Nat, k > 1, i = k - 1 + Len(tasks), todo'[i] = todo[k]
        PROVE  todo'[i].from = 0 /\ todo[k].task = "content" /\ \E m \in 1..N : todo'[i].type = p[m]
    <3>1. PICK m \in 1..Len(s) : todo[k].type = p[m] /\ todo[k].from = 0
      BY <1>13, <1>15, <2>2
    <3>2. m \in 1..N
      BY <1>4
    <3> QED  BY <1>15, <2>2, <3>1, <3>2
  <2> QED  BY <1>11, <2>1, <2>2
<1>16. \A k \in 1..N : \E i \in DOMAIN todo' : todo'[i].task = "content" /\ todo'[i].type = p[k]
  <2> TAKE k \in 1..N
  <2>1. CASE k = N
    <3>1. n \in DOMAIN todo' /\ todo'[n] = tasks[n]
      BY <1>10, <1>11
    <3> QED  BY <1>4, <1>8, <2>1, <3>1
  <2>2. CASE k # N
    <3>1. k \in 1..Len(s)
      BY <1>4, <2>2
    <3>2. PICK i \in DOMAIN todo : todo[i].task = "content" /\ todo[i].type = p[k]
      BY <1>13, <3>1
    <3>3. i # 1
      BY <1>2, <1>11, <3>2
    <3>4. i - 1 + Len(tasks) \in DOMAIN todo' /\ todo'[i - 1 + Len(tasks)] = todo[i]
      BY <1>11, <3>3
    <3> QED  BY <3>2, <3>4
  <2> QED  BY <2>1, <2>2
<1>17. ASSUME NEW i \in DOMAIN todo', NEW l \in DOMAIN todo',
              todo'[i].task = "content", todo'[l].task = "content", i < l,
              NEW k \in 1..N, NEW m \in 1..N, todo'[i].type = p[k], todo'[l].type = p[m]
       PROVE  m < k
  <2>1. PICK d \in DOMAIN todo : /\ d \in Nat /\ d > 1 /\ l = d - 1 + Len(tasks)
                                 /\ todo[d].task = "content" /\ todo'[l] = todo[d]
    <3>1. CASE l = n
      <4>1. i \notin {n} /\ ~ \E b \in DOMAIN todo : b \in Nat /\ b > 1 /\ i = b - 1 + Len(tasks)
        BY <1>8, <1>10, <1>17, <3>1
      <4> QED  BY <1>15, <1>17, <4>1
    <3> QED  BY <1>15, <1>17, <3>1
  <2>2. PICK e \in 1..Len(s) : todo[d].type = p[e]
    BY <1>13, <2>1
  <2>3. e \in 1..Len(p) /\ m \in 1..Len(p) /\ k \in 1..Len(p) /\ N \in 1..Len(p)
    BY <1>4, <1>14
  <2>4. m = e
    BY <1>7, <1>17, <2>1, <2>2, <2>3
  <2>5. CASE i = n /\ todo'[i].type = p[N]
    <3>1. k = N
      BY <1>7, <1>17, <2>3, <2>5
    <3> QED  BY <1>4, <2>2, <2>4, <3>1
  <2>6. ASSUME NEW c \in DOMAIN todo, c \in Nat, c > 1, i = c - 1 + Len(tasks),
               todo[c].task = "content", todo'[i] = todo[c]
        PROVE  m < k
    <3>1. PICK f \in 1..Len(s) : todo[c].type = p[f]
      BY <1>13, <2>6
    <3>2. f \in 1..Len(p)
      BY <1>4
    <3>3. k = f
      BY <1>7, <1>17, <2>3, <2>6, <3>1, <3>2
    <3>4. c < d
      BY <1>8, <1>17, <2>1, <2>6
    <3>5. e < f
      BY ONLY <1>13, <2>1, <2>2, <2>6, <3>1, <3>4
    <3> QED  BY <2>4, <3>3, <3>5
  <2> QED  BY <1>15, <1>17, <2>5, <2>6
<1>18. TextsOn(todo', p, N)
  <2> HIDE DEF N
  <2> QED  BY <1>15, <1>16, <1>17 DEF TextsOn
<1>19. TextsBehind'
  <2>1. ASSUME NEW i \in DOMAIN todo'
        PROVE  todo'[i].task = "leaveType" \/ \E k \in DOMAIN todo' : i <= k /\ todo'[k].task = "content"
    <3>1. CASE i \in 1..Len(tasks) /\ todo'[i] = tasks[i]
      <4>1. CASE i = Len(tasks)
        BY <1>8, <3>1, <4>1
      <4>2. CASE i # Len(tasks)
        <5>1. i <= n /\ n \in DOMAIN todo' /\ todo'[n].task = "content"
          BY <1>8, <1>10, <1>11, <3>1, <4>2
        <5> QED  BY <5>1
      <4> QED  BY <4>1, <4>2
    <3>2. ASSUME NEW k \in DOMAIN todo, k \in Nat, k > 1, i = k - 1 + Len(tasks), todo'[i] = todo[k]
          PROVE  todo'[i].task = "leaveType" \/ \E l \in DOMAIN todo' : i <= l /\ todo'[l].task = "content"
      <4>1. todo[k].task = "leaveType" \/ \E l \in DOMAIN todo : k <= l /\ todo[l].task = "content"
        BY <3>2 DEF Texted, TextsBehind
      <4>2. ASSUME NEW l \in DOMAIN todo, k <= l, todo[l].task = "content"
            PROVE  i <= l - 1 + Len(tasks) /\ l - 1 + Len(tasks) \in DOMAIN todo'
                   /\ todo'[l - 1 + Len(tasks)].task = "content"
        <5>1. l \in Nat /\ l # 1
          BY <1>12, <3>2, <4>2
        <5>2. l - 1 + Len(tasks) \in DOMAIN todo' /\ todo'[l - 1 + Len(tasks)] = todo[l]
          BY <1>11, <5>1
        <5>3. i <= l - 1 + Len(tasks)
          BY <1>8, <3>2, <4>2, <5>1
        <5> QED  BY <4>2, <5>2, <5>3
      <4> QED  BY <3>2, <4>1, <4>2
    <3> QED  BY <1>11, <3>1, <3>2
  <2> QED  BY <2>1 DEF TextsBehind
<1>20. TextPlaces' = {}
  BY <1>2, <1>3 DEF TextPlaces
<1>21. Texted(p, 0)'
  <2>1. 0 \in 0..Len(p) /\ ~ (0 > 0)
    BY <1>4
  <2>2. TextsOn(todo', p, Len(p) - 0)
    BY <1>14, <1>18
  <2> QED  BY <2>2, <1>19, <1>20, <2>1 DEF Texted
<1> QED  BY <1>21 DEF p


(* What is behind the first task stays, as far back as what it pushes. *)
LEMMA BehindStays ==
  ASSUME IInv, todo # << >>, TextsBehind, NEW tasks, NEW K, OfKinds(tasks, K), Call(tasks),
         tasks = << >> \/ Head(todo).task \notin {"leaveType", "type", "content"}
  PROVE  TextsBehind'
<1> DEFINE L == Len(tasks)
<1>1. /\ L \in Nat /\ DOMAIN tasks = 1..L
      /\ Head(todo) = todo[1] /\ 1 \in DOMAIN todo
      /\ \A i \in DOMAIN todo' :
           \/ i \in DOMAIN tasks /\ todo'[i] = tasks[i]
           \/ \E k \in DOMAIN todo : /\ k \in Nat /\ k > 1 /\ i = k - 1 + L
                                     /\ todo'[i] = todo[k]
      /\ \A k \in DOMAIN todo : \/ k = 1
                                \/ /\ k - 1 + L \in DOMAIN todo'
                                   /\ todo'[k - 1 + L] = todo[k]
  BY CallPlaces DEF IInv, Stack, OfKinds
<1>2. \A i \in DOMAIN todo : i \in Nat
  <2>1. IsSequence(todo)
    BY DEF IInv, Stack
  <2> QED  BY <2>1 DEF IsSequence
<1>3. tasks = << >> => L = 0
  OBVIOUS
<1> HIDE DEF L
<1>4. ASSUME NEW i \in DOMAIN todo'
      PROVE  todo'[i].task = "leaveType" \/ \E k \in DOMAIN todo' : i <= k /\ todo'[k].task = "content"
  <2>1. CASE i \in DOMAIN tasks
    <3>1. L # 0
      BY <1>1, <2>1
    <3>2. Head(todo).task \notin {"leaveType", "type", "content"}
      BY <1>3, <3>1
    <3>3. PICK k \in DOMAIN todo : 1 <= k /\ todo[k].task = "content"
      BY <1>1, <3>2 DEF TextsBehind, Descending
    <3>4. k # 1 /\ k \in Nat
      BY <1>1, <1>2, <3>2, <3>3
    <3>5. k - 1 + L \in DOMAIN todo' /\ todo'[k - 1 + L] = todo[k]
      BY <1>1, <3>4
    <3>6. i <= k - 1 + L
      BY <1>1, <2>1, <3>3, <3>4
    <3> QED  BY <3>3, <3>5, <3>6
  <2>2. ASSUME NEW k \in DOMAIN todo, k \in Nat, k > 1, i = k - 1 + L, todo'[i] = todo[k]
        PROVE  todo'[i].task = "leaveType" \/ \E l \in DOMAIN todo' : i <= l /\ todo'[l].task = "content"
    <3>1. todo[k].task = "leaveType" \/ \E l \in DOMAIN todo : k <= l /\ todo[l].task = "content"
      BY <2>2 DEF TextsBehind
    <3>2. ASSUME NEW l \in DOMAIN todo, k <= l, todo[l].task = "content"
          PROVE  i <= l - 1 + L /\ l - 1 + L \in DOMAIN todo' /\ todo'[l - 1 + L].task = "content"
      <4>1. l \in Nat /\ l # 1
        BY <1>2, <2>2, <3>2
      <4>2. l - 1 + L \in DOMAIN todo' /\ todo'[l - 1 + L] = todo[l]
        BY <1>1, <4>1
      <4>3. i <= l - 1 + L
        BY <1>1, <2>2, <3>2, <4>1
      <4> QED  BY <3>2, <4>2, <4>3
    <3> QED  BY <2>2, <3>1, <3>2
  <2> QED  BY <1>1, <2>1, <2>2
<1> QED  BY <1>4 DEF TextsBehind

(* A task that is no text keeps the texts that are yet to come. *)
LEMMA TextsStay ==
  ASSUME IInv, todo # << >>, NEW s, NEW n, TextsOn(todo, s, n), NEW tasks, NEW K, OfKinds(tasks, K),
         "content" \notin K, Call(tasks), Head(todo).task # "content"
  PROVE  TextsOn(todo', s, n)
<1> DEFINE L == Len(tasks)
<1>1. /\ L \in Nat
      /\ Head(todo) = todo[1] /\ 1 \in DOMAIN todo
      /\ \A i \in DOMAIN todo' :
           \/ i \in DOMAIN tasks /\ todo'[i] = tasks[i]
           \/ \E k \in DOMAIN todo : /\ k \in Nat /\ k > 1 /\ i = k - 1 + L
                                     /\ todo'[i] = todo[k]
      /\ \A k \in DOMAIN todo : \/ k = 1
                                \/ /\ k - 1 + L \in DOMAIN todo'
                                   /\ todo'[k - 1 + L] = todo[k]
  BY CallPlaces DEF IInv, Stack, OfKinds
<1> HIDE DEF L
<1>2. \A i \in DOMAIN tasks : tasks[i].task # "content"
  BY DEF OfKinds
<1>3. \A i \in DOMAIN todo' : todo'[i].task = "content" =>
         \E k \in DOMAIN todo : k \in Nat /\ k > 1 /\ i = k - 1 + L /\ todo'[i] = todo[k]
  BY <1>1, <1>2
<1>4. \A k \in DOMAIN todo : todo[k].task = "content" =>
         k - 1 + L \in DOMAIN todo' /\ todo'[k - 1 + L] = todo[k]
  BY <1>1
<1> DEFINE M == 1..n
<1>5. /\ \A i \in DOMAIN todo : todo[i].task = "content" =>
            todo[i].from = 0 /\ \E k \in M : todo[i].type = s[k]
      /\ \A k \in M : \E i \in DOMAIN todo : todo[i].task = "content" /\ todo[i].type = s[k]
      /\ \A i, l \in DOMAIN todo : todo[i].task = "content" /\ todo[l].task = "content" /\ i < l =>
            \A k, m \in M : todo[i].type = s[k] /\ todo[l].type = s[m] => m < k
  BY DEF TextsOn
<1> HIDE DEF M
<1>6. /\ \A i \in DOMAIN todo' : todo'[i].task = "content" =>
            todo'[i].from = 0 /\ \E k \in M : todo'[i].type = s[k]
      /\ \A k \in M : \E i \in DOMAIN todo' : todo'[i].task = "content" /\ todo'[i].type = s[k]
  BY ONLY <1>3, <1>4, <1>5
<1>7. ASSUME NEW i \in DOMAIN todo', NEW l \in DOMAIN todo',
             todo'[i].task = "content", todo'[l].task = "content", i < l,
             NEW k \in M, NEW m \in M, todo'[i].type = s[k], todo'[l].type = s[m]
      PROVE  m < k
  <2>1. PICK c \in DOMAIN todo : c \in Nat /\ i = c - 1 + L /\ todo'[i] = todo[c]
    BY <1>3, <1>7
  <2>2. PICK d \in DOMAIN todo : d \in Nat /\ l = d - 1 + L /\ todo'[l] = todo[d]
    BY <1>3, <1>7
  <2>3. c < d
    BY ONLY <1>1, <1>7, <2>1, <2>2
  <2> QED  BY ONLY <1>5, <1>7, <2>1, <2>2, <2>3
<1> QED  BY <1>6, <1>7 DEF TextsOn, M

(* The text that comes first is that of the furthest type whose text is yet   *)
(* to come.                                                                   *)
LEMMA TextComes ==
  ASSUME IInv, todo # << >>, NEW s, IsPath(s), NEW n \in Nat, n <= Len(s), TextsOn(todo, s, n),
         Call(<< >>), Head(todo).task = "content"
  PROVE  n \in 1..Len(s) /\ Head(todo).type = s[n] /\ Head(todo).from = 0 /\ TextsOn(todo', s, n - 1)
<1>1. Head(todo) = todo[1] /\ 1 \in DOMAIN todo /\ IsSequence(<< >>) /\ Len(<< >>) = 0
  BY TailIsSequence, NoTasks DEF IInv, Stack, Tasks
<1> DEFINE e == << >>
<1>2. /\ \A i \in DOMAIN todo' : /\ i \in Nat /\ i > 0 /\ i + 1 \in DOMAIN todo
                                 /\ todo'[i] = todo[i + 1]
      /\ \A k \in DOMAIN todo : \/ k = 1
                                \/ /\ k - 1 \in DOMAIN todo' /\ k \in Nat /\ k > 1
                                   /\ todo'[k - 1] = todo[k]
  <2>1. IsSequence(todo) /\ IsSequence(e) /\ Call(e) /\ Len(e) = 0 /\ DOMAIN e = {}
    BY <1>1 DEF IInv, Stack
  <2> HIDE DEF e
  <2>2. /\ \A i \in DOMAIN todo' :
             \/ i \in DOMAIN e /\ todo'[i] = e[i]
             \/ \E k \in DOMAIN todo : /\ k \in Nat /\ k > 1 /\ i = k - 1 + Len(e)
                                       /\ todo'[i] = todo[k]
        /\ \A k \in DOMAIN todo : \/ k = 1
                                  \/ /\ k - 1 + Len(e) \in DOMAIN todo'
                                     /\ todo'[k - 1 + Len(e)] = todo[k]
    BY <2>1, CallPlaces
  <2>3. \A k \in DOMAIN todo : k \in Nat /\ k > 0
    BY <2>1 DEF IsSequence
  <2>4. ASSUME NEW i \in DOMAIN todo'
        PROVE  i \in Nat /\ i > 0 /\ i + 1 \in DOMAIN todo /\ todo'[i] = todo[i + 1]
    <3>1. PICK k \in DOMAIN todo : k \in Nat /\ k > 1 /\ i = k - 1 + Len(e) /\ todo'[i] = todo[k]
      BY <2>1, <2>2
    <3>2. i = k - 1
      BY <2>1, <3>1
    <3>3. k = i + 1 /\ i \in Nat /\ i > 0
      BY <3>1, <3>2
    <3> QED  BY <3>1, <3>3
  <2>5. ASSUME NEW k \in DOMAIN todo, k # 1
        PROVE  k - 1 \in DOMAIN todo' /\ k \in Nat /\ k > 1 /\ todo'[k - 1] = todo[k]
    <3>1. k - 1 + Len(e) = k - 1 /\ k > 1
      BY <2>1, <2>3, <2>5
    <3> QED  BY <2>2, <2>3, <2>5, <3>1
  <2> QED  BY <2>4, <2>5
<1> DEFINE M == 1..n
<1>3. /\ \A i \in DOMAIN todo : todo[i].task = "content" =>
            todo[i].from = 0 /\ \E k \in M : todo[i].type = s[k]
      /\ \A k \in M : \E i \in DOMAIN todo : todo[i].task = "content" /\ todo[i].type = s[k]
      /\ \A i, l \in DOMAIN todo : todo[i].task = "content" /\ todo[l].task = "content" /\ i < l =>
            \A k, m \in M : todo[i].type = s[k] /\ todo[l].type = s[m] => m < k
  BY DEF TextsOn
<1>4. PICK k \in M : todo[1].from = 0 /\ todo[1].type = s[k]
  BY <1>1, <1>3
<1>5. n \in 1..Len(s) /\ n \in M /\ Len(s) \in Nat
  <2>1. Len(s) \in Nat
    BY PathDiffers
  <2> QED  BY <1>4, <2>1
<1>6. \A k1, k2 \in 1..Len(s) : s[k1] = s[k2] => k1 = k2
  BY PathDiffers
<1>7. todo[1].type = s[n] /\ k = n
  <2>1. PICK i \in DOMAIN todo : todo[i].task = "content" /\ todo[i].type = s[n]
    BY <1>3, <1>5
  <2>2. CASE i = 1
    <3>1. k \in 1..Len(s)
      BY <1>5
    <3> QED  BY <1>4, <1>5, <1>6, <2>1, <2>2, <3>1
  <2>3. CASE i # 1
    <3>1. 1 < i
      BY <1>2, <2>3
    <3>2. todo[1].task = "content" /\ 1 \in DOMAIN todo /\ n \in M
      BY <1>1, <1>5
    <3>3. \A k1, m \in M : todo[1].type = s[k1] /\ todo[i].type = s[m] => m < k1
      BY ONLY <1>3, <2>1, <3>1, <3>2
    <3>4. n < k
      BY ONLY <1>4, <2>1, <3>2, <3>3
    <3> QED  BY <1>5, <3>4
  <2> QED  BY <2>2, <2>3
<1>8. \A k1 \in M : k1 \in Nat /\ (k1 < n => k1 \in 1..n - 1) /\ k1 \in 1..Len(s)
  BY <1>5
<1>9. \A k1 \in 1..n - 1 : k1 \in M /\ k1 # n
  OBVIOUS
<1> HIDE DEF M
<1>10. ASSUME NEW i \in DOMAIN todo', todo'[i].task = "content"
       PROVE  todo'[i].from = 0 /\ \E k1 \in 1..n - 1 : todo'[i].type = s[k1]
  <2>1. i + 1 \in DOMAIN todo /\ todo'[i] = todo[i + 1] /\ 1 < i + 1
    BY <1>2
  <2>2. PICK k1 \in M : todo[i + 1].type = s[k1] /\ todo[i + 1].from = 0
    BY <1>3, <1>10, <2>1
  <2>3. todo[1].task = "content" /\ 1 \in DOMAIN todo /\ n \in M /\ todo[i + 1].task = "content"
    BY <1>1, <1>5, <1>10, <2>1
  <2>4. \A k2, m \in M : todo[1].type = s[k2] /\ todo[i + 1].type = s[m] => m < k2
    BY ONLY <1>3, <2>1, <2>3
  <2>5. k1 < n
    BY ONLY <1>7, <2>2, <2>3, <2>4
  <2> QED  BY <1>8, <2>1, <2>2, <2>5
<1>11. ASSUME NEW k1 \in 1..n - 1
       PROVE  \E i \in DOMAIN todo' : todo'[i].task = "content" /\ todo'[i].type = s[k1]
  <2>1. PICK i \in DOMAIN todo : todo[i].task = "content" /\ todo[i].type = s[k1]
    BY <1>3, <1>9
  <2>2. i # 1
    BY <1>5, <1>6, <1>7, <1>8, <1>9, <2>1
  <2> QED  BY <1>2, <2>1, <2>2
<1>12. ASSUME NEW i \in DOMAIN todo', NEW l \in DOMAIN todo',
             todo'[i].task = "content", todo'[l].task = "content", i < l,
             NEW k1 \in 1..n - 1, NEW m \in 1..n - 1, todo'[i].type = s[k1], todo'[l].type = s[m]
       PROVE  m < k1
  <2>1. /\ i + 1 \in DOMAIN todo /\ todo'[i] = todo[i + 1]
        /\ l + 1 \in DOMAIN todo /\ todo'[l] = todo[l + 1] /\ i + 1 < l + 1
    BY <1>2, <1>12
  <2>2. k1 \in M /\ m \in M
    BY <1>9
  <2> QED  BY ONLY <1>3, <1>12, <2>1, <2>2
<1>13. TextsOn(todo', s, n - 1)
  <2> DEFINE N == 1..n - 1
  <2>1. /\ \A i \in DOMAIN todo' : todo'[i].task = "content" =>
              todo'[i].from = 0 /\ \E k1 \in N : todo'[i].type = s[k1]
        /\ \A k1 \in N : \E i \in DOMAIN todo' : todo'[i].task = "content" /\ todo'[i].type = s[k1]
    BY <1>10, <1>11
  <2>2. \A i, l \in DOMAIN todo' : todo'[i].task = "content" /\ todo'[l].task = "content" /\ i < l =>
              \A k1, m \in N : todo'[i].type = s[k1] /\ todo'[l].type = s[m] => m < k1
    BY <1>12
  <2> QED  BY <2>1, <2>2 DEF TextsOn
<1> QED  BY <1>1, <1>4, <1>5, <1>7, <1>13


TextsKept ==
  TextPlaces' = TextPlaces /\ \A p \in TextPlaces : fields'[p].name = fields[p].name

LEMMA AddKeepsTexts ==
  ASSUME Fields, NEW f, fields' = Append(fields, f), f.kind # "content"
  PROVE  TextsKept
<1>1. PICK S : fields \in Seq(S)
  BY DEF Fields, IsSequence
<1>2. /\ DOMAIN fields' = 1..Len(fields) + 1 /\ Len(fields) \in Nat /\ DOMAIN fields = 1..Len(fields)
      /\ \A i \in DOMAIN fields : fields'[i] = fields[i]
      /\ fields'[Len(fields) + 1] = f
  BY <1>1
<1>3. /\ \A i \in DOMAIN fields : i \in DOMAIN fields'
      /\ \A i \in DOMAIN fields' : i \in DOMAIN fields \/ i = Len(fields) + 1
  BY <1>2
<1> QED  BY <1>2, <1>3 DEF TextsKept, TextPlaces

LEMMA GroupKeepsTexts ==
  ASSUME IInv, LeaveGroup
  PROVE  TextsKept
<1> DEFINE group == Head(todo).group
           nested == {i \in DOMAIN fields : i > Head(todo).from}
           f == [i \in DOMAIN fields |-> IF i \in nested
                                         THEN [fields[i] EXCEPT !.min = group.min, !.max = group.max]
                                         ELSE fields[i]]
<1>1. fields' = f \/ fields' = fields
  BY DEF LeaveGroup
<1>2. \A i \in DOMAIN fields : "kind" \in DOMAIN fields[i] /\ "name" \in DOMAIN fields[i]
  BY DEF IInv, Fields, IsField
<1>3. \A i \in DOMAIN fields : f[i].kind = fields[i].kind /\ f[i].name = fields[i].name
  BY <1>2
<1>4. DOMAIN f = DOMAIN fields
  OBVIOUS
<1> HIDE DEF f
<1> QED  BY <1>1, <1>3, <1>4 DEF TextsKept, TextPlaces

(* Only the text of a type touches texts. *)
LEMMA OthersKeepTexts ==
  ASSUME IInv, Next, ~ InterpretContent
  PROVE  TextsKept /\ (Head(todo).task = "leaveType" => fields' = fields)
<1>1. Head(todo).task = "leaveType" => fields' = fields
  BY DEF Next, InterpretComplexFields, LeaveComplexType, InterpretElement, InterpretGroup,
     LeaveGroup, InterpretAttribute, InterpretAnyAttribute, InterpretAttributeGroupRef,
     LeaveAttributeGroup, InterpretContent, Doing
<1>2. CASE fields' = fields
  BY <1>1, <1>2 DEF TextsKept, TextPlaces
<1>3. CASE LeaveGroup
  BY <1>1, <1>3, GroupKeepsTexts
<1>4. CASE InterpretElement
  <2>1. PICK f : fields' = Append(fields, f) /\ f.kind \in ElementKinds
    BY <1>4, ElementAdded
  <2> QED  BY <1>1, <2>1, AddKeepsTexts DEF IInv, ElementKinds
<1>5. CASE InterpretAttribute
  <2> DEFINE attribute == Head(todo).attribute
             f == [kind |-> "attribute", name |-> attribute.name,
                   ns |-> ElementNamespace(attribute, Head(todo).ns), choice |-> FALSE,
                   min |-> IF attribute.required THEN 1 ELSE 0, max |-> 1]
  <2>1. fields' = Append(fields, f) /\ f.kind # "content"
    BY <1>5 DEF InterpretAttribute, Add
  <2> HIDE DEF f
  <2> QED  BY <1>1, <2>1, AddKeepsTexts DEF IInv
<1>6. CASE InterpretAnyAttribute
  <2> DEFINE f == [kind |-> "anyAttribute", name |-> NoName, ns |-> NoNamespace, choice |-> FALSE,
                   min |-> 0, max |-> Unbounded]
  <2>1. fields' = Append(fields, f) /\ f.kind # "content"
    BY <1>6 DEF InterpretAnyAttribute, Add
  <2> HIDE DEF f
  <2> QED  BY <1>1, <2>1, AddKeepsTexts DEF IInv
<1> QED  BY <1>2, <1>3, <1>4, <1>5, <1>6 DEF Next, InterpretComplexFields, LeaveComplexType, InterpretGroup,
     InterpretAttributeGroupRef, LeaveAttributeGroup

(* Any other step keeps what is known of the texts. *)
LEMMA StaysTexted ==
  ASSUME IInv, NEW s, NEW j, Way(s), Texted(s, j), Next, ~ Entering, ~ InterpretContent
  PROVE  Texted(s, j)'
<1>1. todo # << >> /\ UNCHANGED <<schema, root>>
  BY StepPushes
<1>2. PICK tasks, K : /\ OfKinds(tasks, K) /\ "type" \notin K /\ "content" \notin K /\ Call(tasks)
                      /\ tasks = << >> \/ Head(todo).task \in {"particle", "attributeGroup"}
  BY StepPushes
<1>3. Head(todo).task # "content"
  BY DEF Next, InterpretComplexFields, LeaveComplexType, InterpretElement, InterpretGroup,
     LeaveGroup, InterpretAttribute, InterpretAnyAttribute, InterpretAttributeGroupRef,
     LeaveAttributeGroup, Doing
<1>4. TextsOn(todo', s, Len(s) - j)
  BY <1>1, <1>2, <1>3, TextsStay DEF Texted
<1>5. TextsBehind'
  <2>1. tasks = << >> \/ Head(todo).task \notin {"leaveType", "type", "content"}
    BY <1>2
  <2> QED  BY <1>1, <1>2, <2>1, BehindStays DEF Texted
<1>6. ~ Descending'
  BY <1>1, <1>2, NoTypePushed
<1>7. TextsKept /\ (Head(todo).task = "leaveType" => fields' = fields)
  BY OthersKeepTexts
<1>8. ASSUME j > 0, ~ HasBase(s[Len(s)]) PROVE OneText(s, j)'
  <2>1. PICK p \in DOMAIN fields : /\ TextPlaces = {p} /\ fields[p].name = TextName(s, j)
                                   /\ j = Len(s) => p = Len(fields)
    BY <1>8 DEF Texted, OneText
  <2>2. TextPlaces' = {p} /\ fields'[p].name = TextName(s, j)
    BY <1>7, <2>1 DEF TextsKept
  <2>3. p \in DOMAIN fields'
    BY <2>2 DEF TextPlaces
  <2>4. ASSUME j = Len(s) PROVE p = Len(fields')
    <3>1. TextsOn(todo, s, 0) /\ ~ Descending /\ j \in Nat
      <4>1. j \in Nat
        BY <2>4, <1>8, WayIsTypes DEF Texted
      <4>2. Len(s) - j = 0
        BY <2>4, <4>1
      <4> QED  BY <1>8, <4>1, <4>2 DEF Texted
    <3>2. \A i \in DOMAIN todo : todo[i].task # "content"
      <4>1. 1..0 = {}
        OBVIOUS
      <4> QED  BY <3>1, <4>1 DEF TextsOn
    <3>3. 1 \in DOMAIN todo /\ todo[1] = Head(todo)
      BY <1>1, TailIsSequence DEF IInv, Stack
    <3>4. Head(todo).task = "leaveType"
      BY <3>1, <3>2, <3>3 DEF Texted, TextsBehind
    <3> QED  BY <1>7, <2>1, <2>4, <3>4
  <2>5. TextName(s, j)' = TextName(s, j)
    BY DEF TextName, Enumerations
  <2> QED  BY <2>2, <2>3, <2>4, <2>5 DEF OneText
<1>9. j = 0 => TextPlaces' = {}
  BY <1>7 DEF Texted, TextsKept
<1>10. HasBase(s[Len(s)])' <=> HasBase(s[Len(s)])
  BY <1>1, SchemaStays
<1>11. j \in 0..Len(s)
  BY DEF Texted
<1> QED  BY <1>4, <1>5, <1>6, <1>8, <1>9, <1>10, <1>11 DEF Texted


(* The text of a type that enumerates values is of its own type. *)
LEMMA NextText ==
  ASSUME NEW S, NEW s \in Seq(S), NEW j \in Nat, j < Len(s)
  PROVE  /\ TextName(s, j + 1) = IF IsEnumeration(s[Len(s) - j]) THEN s[Len(s) - j].name ELSE TextName(s, j)
         /\ TextName(s, 0) = s[Len(s)].base
<1> DEFINE n == Len(s) - j
           E == Enumerations(s, j)
           F == Enumerations(s, j + 1)
<1>1. n \in Nat /\ n \in 1..Len(s) /\ Len(s) \in Nat
  OBVIOUS
<1>2. (Len(s) - (j + 1)) + 1 = n
  BY <1>1
<1>3. E = {i \in n + 1 .. Len(s) : IsEnumeration(s[i])}
  BY DEF Enumerations
<1>4. F = {i \in n .. Len(s) : IsEnumeration(s[i])}
  BY <1>2 DEF Enumerations
<1>5. TextName(s, 0) = s[Len(s)].base
  <2>1. (Len(s) - 0) + 1 .. Len(s) = {}
    BY <1>1
  <2>2. Enumerations(s, 0) = {}
    BY <2>1 DEF Enumerations
  <2> QED  BY <2>2 DEF TextName
<1> HIDE DEF n, E, F
<1>6. CASE IsEnumeration(s[n])
  <2>1. n \in F /\ \A i \in F : n <= i /\ i \in Nat
    BY <1>1, <1>4, <1>6
  <2>2. (CHOOSE i \in F : \A k \in F : i <= k) = n
    <3> DEFINE c == CHOOSE i \in F : \A k \in F : i <= k
    <3>1. c \in F /\ \A k \in F : c <= k
      BY <2>1
    <3> HIDE DEF c
    <3>2. c <= n /\ n <= c /\ c \in Nat
      BY <2>1, <3>1
    <3>3. c = n
      BY <1>1, <3>2
    <3> QED  BY <3>3 DEF c
  <2>3. TextName(s, j + 1) = s[n].name
    <3>1. F # {}
      BY <2>1
    <3> QED  BY <2>2, <3>1 DEF TextName, F
  <2> QED  BY <1>5, <1>6, <2>3 DEF n
<1>7. CASE ~ IsEnumeration(s[n])
  <2>1. E = F
    <3>1. \A i \in n..Len(s) : i = n \/ i \in n + 1..Len(s)
      BY <1>1
    <3>2. \A i \in n + 1..Len(s) : i \in n..Len(s)
      BY <1>1
    <3> QED  BY <1>3, <1>4, <1>7, <3>1, <3>2
  <2>2. TextName(s, j + 1) = TextName(s, j)
    BY <2>1 DEF TextName, E, F
  <2> QED  BY <1>5, <1>7, <2>2 DEF n
<1> QED  BY <1>6, <1>7

(* Where the texts are after one is taken out and one put at the end. *)
LEMMA TextMoves ==
  ASSUME Fields, NEW p \in DOMAIN fields, TextPlaces = {p}, NEW f, f.kind = "content",
         fields' = Append(Without(fields, p), f)
  PROVE  TextPlaces' = {Len(fields')} /\ Len(fields') \in DOMAIN fields' /\ fields'[Len(fields')] = f
<1>1. PICK S : fields \in Seq(S)
  BY DEF Fields, IsSequence
<1> DEFINE r == Without(fields, p)
<1>2. /\ r \in Seq(S)
      /\ \A i \in DOMAIN r : \E k \in DOMAIN fields : k # p /\ r[i] = fields[k]
  BY <1>1, WithoutHolds
<1> HIDE DEF r
<1>3. fields' = Append(r, f)
  BY DEF r
<1>4. /\ DOMAIN fields' = 1..Len(r) + 1 /\ Len(r) \in Nat /\ DOMAIN r = 1..Len(r)
      /\ \A i \in DOMAIN r : fields'[i] = r[i]
      /\ fields'[Len(r) + 1] = f /\ Len(fields') = Len(r) + 1
  BY <1>2, <1>3
<1>5. \A i \in DOMAIN r : r[i].kind # "content"
  BY <1>2 DEF TextPlaces
<1>6. \A i \in DOMAIN fields' : i \in DOMAIN r \/ i = Len(r) + 1
  BY <1>4
<1>7. Len(r) + 1 \in DOMAIN fields'
  BY <1>4
<1> QED  BY <1>4, <1>5, <1>6, <1>7 DEF TextPlaces

LEMMA TextAdded ==
  ASSUME Fields, TextPlaces = {}, NEW f, f.kind = "content", fields' = Append(fields, f)
  PROVE  TextPlaces' = {Len(fields')} /\ Len(fields') \in DOMAIN fields' /\ fields'[Len(fields')] = f
<1>1. PICK S : fields \in Seq(S)
  BY DEF Fields, IsSequence
<1>2. /\ DOMAIN fields' = 1..Len(fields) + 1 /\ Len(fields) \in Nat /\ DOMAIN fields = 1..Len(fields)
      /\ \A i \in DOMAIN fields : fields'[i] = fields[i]
      /\ fields'[Len(fields) + 1] = f /\ Len(fields') = Len(fields) + 1
  BY <1>1
<1>3. \A i \in DOMAIN fields' : i \in DOMAIN fields \/ i = Len(fields) + 1
  BY <1>2
<1>4. Len(fields) + 1 \in DOMAIN fields'
  BY <1>2
<1> QED  BY <1>2, <1>3, <1>4 DEF TextPlaces

(* The text of a type moves behind what has been added since, or is added. *)
LEMMA ContentTexted ==
  ASSUME IInv, NEW s, NEW j, Way(s), Texted(s, j), InterpretContent
  PROVE  Texted(s, j + 1)'
<1> DEFINE n == Len(s) - j
<1>1. /\ todo # << >> /\ Head(todo).task = "content" /\ UNCHANGED <<schema, root>> /\ Call(<< >>)
  BY DEF InterpretContent, Doing
<1>2. IsPath(s)
  BY <1>1 DEF Way, Entered, Descending
<1>3. Len(s) \in Nat \ {0} /\ s \in Seq(Types)
  BY <1>2, PathDiffers DEF IsPath
<1>4. j \in Nat /\ n \in Nat /\ n <= Len(s) /\ TextsOn(todo, s, n)
  BY <1>3 DEF Texted
<1> HIDE DEF n
<1>5. n \in 1..Len(s) /\ Head(todo).type = s[n] /\ Head(todo).from = 0 /\ TextsOn(todo', s, n - 1)
  BY <1>1, <1>2, <1>4, TextComes
<1>6. n - 1 = Len(s) - (j + 1) /\ j + 1 \in 0..Len(s) /\ j < Len(s) /\ j + 1 # 0 /\ n = Len(s) - j
  BY <1>3, <1>4, <1>5 DEF n
<1>7. OfKinds(<< >>, {})
  BY NoTasks DEF OfKinds, Tasks
<1>8. TextsBehind' /\ ~ Descending'
  <2> DEFINE e == << >>
  <2>1. e = << >> /\ OfKinds(e, {}) /\ Call(e)
    BY <1>1, <1>7
  <2> HIDE DEF e
  <2>2. TextsBehind'
    BY <1>1, <2>1, BehindStays DEF Texted
  <2>3. ~ Descending'
    BY <1>1, <2>1, NoTypePushed
  <2> QED  BY <2>2, <2>3
<1>9. HasBase(s[Len(s)])' <=> HasBase(s[Len(s)])
  BY <1>1, SchemaStays
<1>10. ASSUME ~ HasBase(s[Len(s)]) PROVE OneText(s, j + 1)'
  <2> DEFINE type == Head(todo).type
             ofBase == {i \in DOMAIN fields : i > Head(todo).from /\ fields[i].kind = "content"}
             first == CHOOSE i \in ofBase : \A k \in ofBase : i <= k
  <2>1. fields' = CASE ofBase # {} -> Append(Without(fields, first), Renamed(fields[first], type))
                    [] ofBase = {} /\ HasBase(type) /\ type.kind = "simpleExtension" -> fields
                    [] OTHER -> Append(fields, Content(type))
    BY DEF InterpretContent
  <2>2. \A i \in DOMAIN fields : i \in Nat /\ i > 0
    <3>1. IsSequence(fields)
      BY DEF IInv, Fields
    <3> QED  BY <3>1 DEF IsSequence
  <2>3. ofBase = TextPlaces
    BY <1>5, <2>2 DEF TextPlaces
  <2>4. type = s[n]
    BY <1>5
  <2> HIDE DEF ofBase, type
  <2>5. TextName(s, j + 1) = IF IsEnumeration(type) THEN type.name ELSE TextName(s, j)
    BY <1>3, <1>4, <1>6, <2>4, NextText
  <2>6. ASSUME NEW f, f.name = TextName(s, j + 1), f.kind = "content",
               TextPlaces' = {Len(fields')} /\ Len(fields') \in DOMAIN fields' /\ fields'[Len(fields')] = f
        PROVE  OneText(s, j + 1)'
    <3>1. TextName(s, j + 1)' = TextName(s, j + 1)
      BY DEF TextName, Enumerations
    <3> QED  BY <2>6, <3>1 DEF OneText
  <2>7. CASE j = 0
    <3>1. TextPlaces = {}
      BY <2>7 DEF Texted
    <3>2. type = s[Len(s)]
      BY <1>6, <1>3, <2>4, <2>7
    <3> DEFINE f == Content(type)
    <3>3. fields' = Append(fields, f)
      BY <1>10, <2>1, <2>3, <3>1, <3>2
    <3>4. TextName(s, 0) = type.base
      BY <1>3, <1>4, <1>6, <3>2, NextText
    <3>5. f.name = TextName(s, j + 1) /\ f.kind = "content"
      BY <2>5, <2>7, <3>4 DEF Content, IsEnumeration
    <3> HIDE DEF f
    <3>6. TextPlaces' = {Len(fields')} /\ Len(fields') \in DOMAIN fields' /\ fields'[Len(fields')] = f
      BY <3>1, <3>3, <3>5, TextAdded DEF IInv
    <3> QED  BY <2>6, <3>5, <3>6
  <2>8. CASE j # 0
    <3>1. PICK p \in DOMAIN fields : TextPlaces = {p} /\ fields[p].name = TextName(s, j)
      <4>1. j > 0
        BY <1>4, <2>8
      <4> QED  BY <1>10, <4>1 DEF Texted, OneText
    <3>2. ofBase # {} /\ first = p
      <4>1. p \in Nat /\ ofBase = {p}
        BY <2>2, <2>3, <3>1
      <4> QED  BY <4>1
    <3> DEFINE x == fields[p]
               f == Renamed(x, type)
    <3>3. fields' = Append(Without(fields, p), f)
      BY <2>1, <3>2
    <3>4. f.name = TextName(s, j + 1) /\ f.kind = "content"
      <4>1. IsField(x) /\ x.kind = "content" /\ x.name = TextName(s, j)
        BY <3>1 DEF IInv, Fields, TextPlaces
      <4> HIDE DEF x
      <4>2. f.kind = "content" /\ f.name = IF IsEnumeration(type) THEN type.name ELSE x.name
        BY <4>1 DEF Renamed, IsField, IsEnumeration
      <4> QED  BY <2>5, <4>1, <4>2
    <3> HIDE DEF f
    <3>5. TextPlaces' = {Len(fields')} /\ Len(fields') \in DOMAIN fields' /\ fields'[Len(fields')] = f
      BY <3>1, <3>3, <3>4, TextMoves DEF IInv
    <3> QED  BY <2>6, <3>4, <3>5
  <2> QED  BY <2>7, <2>8
<1>11. TextsOn(todo', s, Len(s) - (j + 1))
  BY <1>5, <1>6
<1> QED  BY <1>6, <1>8, <1>9, <1>10, <1>11 DEF Texted

TInv == IInv /\ \E s : Way(s) /\ (AllSimple(s) => \E j : Texted(s, j))

LEMMA NextTInv == TInv /\ [Next]_vars => TInv'
<1> SUFFICES ASSUME TInv, [Next]_vars PROVE TInv'
  OBVIOUS
<1>1. IInv'
  BY NextIInv DEF TInv
<1>2. PICK s : Way(s) /\ (AllSimple(s) => \E j : Texted(s, j))
  BY DEF TInv
<1>3. IInv
  BY DEF TInv
<1>4. ASSUME Next PROVE \E p : Way(p)' /\ (AllSimple(p) => \E k : Texted(p, k)')
  <2>1. CASE Entering
    <3>1. PICK type : type = Head(todo).type
      OBVIOUS
    <3>2. InterpretComplexFields /\ type.name \notin visiting
      BY <1>4, <2>1, <3>1 DEF Entering, Descending, Next, LeaveComplexType, InterpretElement, InterpretGroup,
         LeaveGroup, InterpretAttribute, InterpretAnyAttribute, InterpretAttributeGroupRef,
         LeaveAttributeGroup, InterpretContent, Doing
    <3> DEFINE p == Append(s, type)
    <3>3. Way(p)' /\ s \in Seq(Types) /\ type \in Types
      BY <1>2, <1>3, <3>1, <3>2, EntersWay
    <3>4. ASSUME AllSimple(p) PROVE Texted(p, 0)'
      <4>1. AllSimple(s)
        <5>1. \A i \in DOMAIN s : i \in DOMAIN p /\ p[i] = s[i]
          BY <3>3
        <5> HIDE DEF p
        <5> QED  BY <3>4, <5>1 DEF AllSimple
      <4>2. PICK j : Texted(s, j)
        BY <1>2, <4>1
      <4> QED  BY <1>2, <1>3, <3>1, <3>2, <3>4, <4>2, EntersTexted
    <3> HIDE DEF p
    <3> QED  BY <3>3, <3>4
  <2>2. CASE ~ Entering
    <3>1. Way(s)'
      BY <1>2, <1>3, <1>4, <2>2, StaysWay
    <3>2. ASSUME AllSimple(s) PROVE \E k : Texted(s, k)'
      <4>1. PICK j : Texted(s, j)
        BY <1>2, <3>2
      <4>2. CASE InterpretContent
        <5>1. Texted(s, j + 1)'
          BY <1>2, <1>3, <4>1, <4>2, ContentTexted
        <5> QED  BY <5>1
      <4>3. CASE ~ InterpretContent
        BY <1>2, <1>3, <1>4, <2>2, <4>1, <4>3, StaysTexted
      <4> QED  BY <4>2, <4>3
    <3> QED  BY <3>1, <3>2
  <2> QED  BY <2>1, <2>2
<1>5. ASSUME UNCHANGED vars PROVE \E p : Way(p)' /\ (AllSimple(p) => \E k : Texted(p, k)')
  <2>1. Way(s)'
    BY <1>2, <1>5, StutterWay
  <2>2. ASSUME NEW k, Texted(s, k) PROVE Texted(s, k)'
    <3>1. UNCHANGED <<schema, root, todo, visiting, groupsVisiting, fields>>
      BY <1>5 DEF vars
    <3>2. /\ HasBase(s[Len(s)])' <=> HasBase(s[Len(s)])
      BY <3>1, SchemaStays
    <3>3. TextsBehind' /\ (Descending' <=> Descending) /\ TextPlaces' = TextPlaces
      BY <2>2, <3>1 DEF Texted, TextsBehind, Descending, TextPlaces
    <3>4. OneText(s, k) => OneText(s, k)'
      BY <3>1, <3>3 DEF OneText, TextName, Enumerations
    <3>5. TextsOn(todo', s, Len(s) - k)
      BY <2>2, <3>1 DEF Texted
    <3> QED  BY <2>2, <3>2, <3>3, <3>4, <3>5 DEF Texted
  <2> QED  BY <1>2, <2>1, <2>2
<1>6. PICK p : Way(p)' /\ (AllSimple(p) => \E k : Texted(p, k)')
  BY <1>4, <1>5
<1>7. AllSimple(p)' <=> AllSimple(p)
  BY DEF AllSimple
<1> QED  BY <1>1, <1>6, <1>7 DEF TInv

LEMMA InitTInv == Init => TInv
BY InitIInv, InitWay, InitTexted DEF TInv


LEMMA DoneText == TInv => TextIsLast
<1> DEFINE enumerations == {i \in DOMAIN Chain : Chain[i].kind = "simpleRestriction" /\ Chain[i].enumerated}
           nearest == CHOOSE i \in enumerations : \A j \in enumerations : j <= i
           text == {i \in DOMAIN fields : fields[i].kind = "content"}
<1> SUFFICES ASSUME TInv, Done, \A i \in DOMAIN Chain : SimpleContent(Chain[i]), ~ HasBase(Chain[1])
             PROVE  /\ text = {Len(fields)}
                    /\ fields[Len(fields)].name = IF enumerations # {} THEN Chain[nearest].name ELSE Chain[1].base
  BY DEF TextIsLast
<1>1. PICK s : Way(s) /\ (AllSimple(s) => \E j : Texted(s, j))
  BY DEF TInv
<1>2. IsPath(s) /\ Extend(s) = s /\ s \in Seq(Types) /\ root \in Types
  BY <1>1, WayIsTypes DEF Way, Entered, Descending, Done
<1>3. Chain = Reverse(s)
  BY <1>2, PathIsChain DEF TInv, IInv
<1> DEFINE L == Len(s)
           C == Chain
<1>4. /\ L \in Nat \ {0} /\ DOMAIN C = 1..L /\ DOMAIN s = 1..L
      /\ \A i \in 1..L : (L - i) + 1 \in 1..L /\ C[i] = s[(L - i) + 1]
  BY <1>2, <1>3, PathDiffers, RangeOfReverse
<1>5. enumerations = {i \in 1..L : IsEnumeration(C[i])}
  BY <1>4 DEF IsEnumeration
<1>6. \A i \in 1..L : (L - i) + 1 \in 1..L /\ s[i] = C[(L - i) + 1]
  <2> TAKE i \in 1..L
  <2>1. (L - i) + 1 \in 1..L /\ (L - ((L - i) + 1)) + 1 = i
    BY <1>4
  <2> QED  BY <1>4, <2>1
<1>7. AllSimple(s)
  BY <1>4, <1>6 DEF AllSimple
<1>8. PICK j : Texted(s, j)
  BY <1>1, <1>7
<1>9. j = L
  <2>1. j \in 0..L /\ TextsOn(todo, s, L - j)
    BY <1>8 DEF Texted
  <2>2. DOMAIN todo = {}
    BY DEF Done
  <2>3. \A k \in 1..L - j : FALSE
    BY <2>1, <2>2 DEF TextsOn
  <2>4. L \in Nat /\ j \in 0..L
    BY <1>4, <2>1
  <2> HIDE DEF L
  <2> QED  BY ONLY <2>3, <2>4
<1>10. C[1] = s[L]
  <2>1. (L - 1) + 1 = L /\ 1 \in 1..L
    BY <1>4
  <2> QED  BY <1>4, <2>1
<1>11. TextPlaces = {Len(fields)} /\ fields[Len(fields)].name = TextName(s, L)
  <2>1. j > 0 /\ ~ HasBase(s[L])
    BY <1>4, <1>9, <1>10
  <2> QED  BY <1>8, <1>9, <2>1 DEF Texted, OneText
<1>12. text = {Len(fields)}
  BY <1>11 DEF TextPlaces
<1> DEFINE E == Enumerations(s, L)
<1>13. E = {i \in 1..L : IsEnumeration(s[i])}
  <2>1. (L - L) + 1 = 1
    BY <1>4
  <2> QED  BY <2>1 DEF Enumerations
<1>14. TextName(s, L) = IF E = {} THEN s[L].base ELSE s[CHOOSE i \in E : \A k \in E : i <= k].name
  BY DEF TextName
<1> HIDE DEF C, E, enumerations, text
<1>15. \A i \in 1..L : i \in enumerations <=> (L - i) + 1 \in E
  BY <1>4, <1>5, <1>13
<1>16. \A i \in 1..L : i \in E <=> (L - i) + 1 \in enumerations
  BY <1>5, <1>6, <1>13
<1>17. E \subseteq 1..L /\ enumerations \subseteq 1..L
  BY <1>5, <1>13
<1> HIDE DEF L
<1>18. TextName(s, L) = IF enumerations # {} THEN C[nearest].name ELSE C[1].base
  <2>1. CASE E = {}
    <3>1. enumerations = {}
      BY <1>15, <1>17, <2>1
    <3> QED  BY <1>10, <1>14, <2>1, <3>1
  <2>2. CASE E # {}
    <3> DEFINE m == CHOOSE i \in E : \A k \in E : i <= k
    <3>1. m \in E /\ \A k \in E : m <= k
      <4>1. E \subseteq Nat
        BY <1>17
      <4> QED  BY <2>2, <4>1, SmallestIndex
    <3> HIDE DEF m
    <3>2. (L - m) + 1 \in enumerations /\ m \in 1..L
      BY <1>16, <1>17, <3>1
    <3>3. \A k \in enumerations : k <= (L - m) + 1
      <4> TAKE k \in enumerations
      <4>1. k \in 1..L /\ (L - k) + 1 \in E
        BY <1>15, <1>17
      <4>2. m <= (L - k) + 1
        BY <3>1, <4>1
      <4> QED  BY <1>4, <3>2, <4>1, <4>2
    <3>4. nearest = (L - m) + 1
      <4>1. nearest \in enumerations /\ \A k \in enumerations : k <= nearest
        BY <3>2, <3>3
      <4>2. \A k \in enumerations : k \in 1..L
        BY <1>17
      <4> HIDE DEF nearest
      <4>3. nearest <= (L - m) + 1 /\ (L - m) + 1 <= nearest /\ nearest \in 1..L
        BY <3>2, <3>3, <4>1, <4>2
      <4> QED  BY <1>4, <3>2, <4>3
    <3> HIDE DEF nearest
    <3>5. C[nearest] = s[m]
      BY <1>6, <3>2, <3>4
    <3>6. TextName(s, L) = s[m].name
      BY <1>14, <2>2 DEF m
    <3> QED  BY <3>2, <3>5, <3>6
  <2> QED  BY <2>1, <2>2
<1> QED  BY <1>11, <1>12, <1>18 DEF C

(* The text of a type of simple content is behind all its attributes, and is   *)
(* of the nearest type that enumerates values, else of the first base.         *)
THEOREM TextStaysLast == Spec => []TextIsLast
<1>1. Spec => []TInv
  BY InitTInv, NextTInv, PTL DEF Spec
<1> QED  BY <1>1, DoneText, PTL

-----------------------------------------------------------------------------
(* What is below a node *)

(* No particle is prohibited by a maxOccurs of 0, and the one that a global   *)
(* group consists of has no occurrences of its own.                           *)
OccursFit ==
  /\ \A p \in Range(schema.particles) : p.max # 0
  /\ \A g \in DOMAIN schema.groups : schema.particles[schema.groups[g]].max = 1

ParticleNames == {schema.particles[n].name : n \in Node}

LEMMA NodesAreNumbers ==
  ASSUME IsSchema(schema)
  PROVE  Node = 1..Len(schema.particles) /\ Len(schema.particles) \in Nat
<1>1. schema.particles \in Seq(Range(schema.particles))
  BY DEF IsSchema
<1> QED  BY <1>1 DEF Node

LEMMA ParticleIs ==
  ASSUME IsSchema(schema), NEW n \in Node
  PROVE  /\ schema.particles[n].kind \in {"element", "any", "sequence", "choice", "all", ""}
         /\ schema.particles[n].name \in ParticleNames
         /\ schema.particles[n].ns \in Namespace
         /\ schema.particles[n].children \in Seq(Node)
         /\ schema.particles[n].min \in Nat /\ schema.particles[n].max \in Nat
         /\ OccursFit => schema.particles[n].max # 0
<1> DEFINE IsParticle(p) ==
      p \in [kind : {"element", "any", "sequence", "choice", "all", ""}, name : {p.name},
             ns : Namespace, ref : BOOLEAN, qualified : BOOLEAN, refers : {p.refers},
             children : Seq(DOMAIN schema.particles), min : Occurrences, max : Occurrences]
<1>1. schema.particles[n] \in Range(schema.particles)
  BY DEF Node, Range
<1>2. IsParticle(schema.particles[n])
  <2>1. \A p \in Range(schema.particles) : IsParticle(p)
    BY DEF IsSchema
  <2> QED  BY <1>1, <2>1
<1>3. \A o \in Occurrences : o \in Nat
  BY OccursAssumption DEF Occurrences
<1> QED  BY <1>1, <1>2, <1>3 DEF ParticleNames, Node, OccursFit

LEMMA GroupIs ==
  ASSUME IsSchema(schema), NEW g \in DOMAIN schema.groups
  PROVE  schema.groups[g] \in Node
BY DEF IsSchema, Node

LEMMA ChildrenAreNodes ==
  ASSUME IsSchema(schema), NEW n \in Node
  PROVE  Children(n) \in Seq(Node)
<1>1. schema.particles[n].children \in Seq(Node)
  BY ParticleIs
<1>2. \A g \in DOMAIN schema.groups : schema.particles[schema.groups[g]].children \in Seq(Node)
  BY GroupIs, ParticleIs
<1>3. << >> \in Seq(Node)
  OBVIOUS
<1> QED  BY <1>1, <1>2, <1>3 DEF Children

ChildrenOf(S) == UNION {{Children(n)[i] : i \in DOMAIN Children(n)} : n \in S}

IsDepths(d) ==
  /\ d \in [Nat -> SUBSET Node] /\ d[0] = Node
  /\ \A k \in Nat : d[k + 1] = ChildrenOf(d[k])

LEMMA ChildrenOfNodes ==
  ASSUME IsSchema(schema), NEW S \in SUBSET Node
  PROVE  ChildrenOf(S) \in SUBSET Node
<1>1. \A n \in S : \A i \in DOMAIN Children(n) : Children(n)[i] \in Node
  <2> TAKE n \in S
  <2>1. Children(n) \in Seq(Node)
    BY ChildrenAreNodes
  <2> HIDE DEF Node
  <2> QED  BY <2>1
<1> HIDE DEF Node
<1> QED  BY <1>1 DEF ChildrenOf

LEMMA DepthsExist ==
  ASSUME IsSchema(schema)
  PROVE  \E d : IsDepths(d) /\ (CyclicGroups <=> d[Len(schema.particles)] # {})
<1> DEFINE step == [n \in Nat |-> [x \in SUBSET Node |-> ChildrenOf(x)]]
           L == Len(schema.particles)
<1>1. step \in Steps(SUBSET Node)
  <2> HIDE DEF Node
  <2> QED  BY ChildrenOfNodes DEF Steps
<1>3. PICK c : IsRecursion(c, SUBSET Node, Node, step)
  <2> HIDE DEF step
  <2> QED  BY <1>1, RecursionExists
<1>4. IsDepths(c)
  BY <1>3 DEF IsDepths, IsRecursion
<1>5. L \in Nat
  BY NodesAreNumbers
<1> DEFINE IsDeep(d) ==
      d = [k \in 0..L |-> IF k = 0 THEN Node
             ELSE UNION {{Children(n)[i] : i \in DOMAIN Children(n)} : n \in d[k - 1]}]
           up == [n \in 0..L |-> c[n]]
<1>6. IsDeep(up)
  <2>1. ASSUME NEW n \in 0..L, n # 0
        PROVE  up[n] = ChildrenOf(up[n - 1])
    <3>1. n - 1 \in Nat /\ (n - 1) + 1 = n /\ n - 1 \in 0..L
      BY <1>5, <2>1
    <3> QED  BY <1>4, <3>1 DEF IsDepths
  <2>2. 0 \in 0..L => up[0] = Node
    BY <1>4 DEF IsDepths
  <2> QED  BY <2>1, <2>2 DEF ChildrenOf
<1>7. ASSUME NEW d, NEW e, IsDeep(d), IsDeep(e)
      PROVE  d[L] = e[L]
  <2> DEFINE Same == {n \in Nat : n <= L => d[n] = e[n]}
  <2>1. 0 \in Same
    BY <1>5, <1>7
  <2>2. ASSUME NEW n \in Nat, n \in Same PROVE n + 1 \in Same
    <3> SUFFICES ASSUME n + 1 <= L PROVE d[n + 1] = e[n + 1]
      OBVIOUS
    <3>1. n + 1 \in 0..L /\ n + 1 # 0 /\ (n + 1) - 1 = n /\ d[n] = e[n]
      BY <1>5, <2>2
    <3> DEFINE next(f, k) == IF k = 0 THEN Node ELSE ChildrenOf(f[k - 1])
    <3>2. ASSUME NEW f, IsDeep(f) PROVE f[n + 1] = ChildrenOf(f[n])
      <4>1. f = [k \in 0..L |-> next(f, k)]
        BY <3>2 DEF ChildrenOf
      <4> HIDE DEF next
      <4>2. f[n + 1] = next(f, n + 1)
        BY <3>1, <4>1
      <4> QED  BY <3>1, <4>2 DEF next
    <3>3. d[n + 1] = ChildrenOf(d[n]) /\ e[n + 1] = ChildrenOf(e[n])
      <4> HIDE DEF IsDeep
      <4> QED  BY <1>7, <3>2
    <3> QED  BY <3>1, <3>3
  <2>3. Nat \subseteq Same
    <3> HIDE DEF Same
    <3> QED  BY <2>1, <2>2, NumbersByInduction
  <2>4. L \in Same
    <3> HIDE DEF Same, L
    <3> QED  BY <1>5, <2>3
  <2> HIDE DEF IsDeep, L
  <2> QED  BY <1>5, <2>4
<1>8. CyclicGroups <=> (CHOOSE d : IsDeep(d))[L] # {}
  BY DEF CyclicGroups
<1>9. IsDeep(CHOOSE d : IsDeep(d))
  <2> HIDE DEF IsDeep
  <2> QED  BY <1>6
<1>10. (CHOOSE d : IsDeep(d))[L] = c[L]
  <2>1. up[L] = c[L]
    BY <1>5
  <2> HIDE DEF IsDeep, up
  <2> QED  BY <1>6, <1>7, <1>9, <2>1
<1> QED  BY <1>4, <1>8, <1>10

(* What holds of a node if it does of its children holds of every node, if no *)
(* group is inside of itself.                                                 *)
LEMMA NodesByDepth ==
  ASSUME IsSchema(schema), ~ CyclicGroups, NEW P,
         \A n \in Node : (\A i \in DOMAIN Children(n) : Children(n)[i] \in P) => n \in P
  PROVE  Node \subseteq P
<1> DEFINE L == Len(schema.particles)
<1>1. PICK d : IsDepths(d) /\ d[L] = {}
  BY DepthsExist
<1>2. L \in Nat
  BY NodesAreNumbers
<1> HIDE DEF L
<1> DEFINE Q == {k \in Nat : k <= L => d[L - k] \subseteq P}
<1>3. 0 \in Q
  BY <1>1, <1>2
<1>4. ASSUME NEW k \in Nat, k \in Q PROVE k + 1 \in Q
  <2> SUFFICES ASSUME k + 1 <= L, NEW n \in d[L - (k + 1)] PROVE n \in P
    OBVIOUS
  <2> PICK j : j = L - (k + 1)
    OBVIOUS
  <2>1. j \in Nat /\ j + 1 = L - k /\ k <= L /\ n \in d[j]
    BY <1>2
  <2>2. d[j + 1] = ChildrenOf(d[j]) /\ n \in Node
    BY ONLY <1>1, <2>1 DEF IsDepths
  <2>3. d[j + 1] \subseteq P
    BY <1>4, <2>1
  <2>4. \A i \in DOMAIN Children(n) : Children(n)[i] \in d[j + 1]
    BY ONLY <2>1, <2>2 DEF ChildrenOf
  <2> QED  BY <2>2, <2>3, <2>4
<1>5. Nat \subseteq Q
  <2> HIDE DEF Q
  <2> QED  BY <1>3, <1>4, NumbersByInduction
<1>6. L \in Q /\ L - L = 0
  <2> HIDE DEF Q
  <2> QED  BY <1>2, <1>5
<1>7. d[0] \subseteq P
  BY <1>2, <1>6
<1> QED  BY <1>1, <1>7 DEF IsDepths

(* The items of a content model: what may be a leaf below a node. *)
LeafItems == [kind : ElementKinds, name : ParticleNames, node : Node, choice : BOOLEAN,
              min : Nat, max : Nat \ {0}]

LeafOf(node) ==
  [kind |-> schema.particles[node].kind, name |-> schema.particles[node].name, node |-> node,
   choice |-> FALSE, min |-> schema.particles[node].min, max |-> schema.particles[node].max]

Widened(node, x) ==
  [x EXCEPT !.choice = @ \/ IsChoice(node),
            !.min = IF IsChoice(node) THEN 0 ELSE Times(@, schema.particles[node].min),
            !.max = Times(@, schema.particles[node].max)]

Widen(node) == [x \in LeafItems |-> Widened(node, x)]

LeavesAt(f, node) ==
  IF IsLeaf(node) THEN <<LeafOf(node)>>
  ELSE Through(Widen(node), FlattenSeq(Through(f, Children(node))))

LEMMA TimesType ==
  ASSUME NEW a \in Nat, NEW b \in Nat
  PROVE  /\ Times(a, b) \in Nat
         /\ a # 0 /\ b # 0 => Times(a, b) # 0 /\ (Times(a, b) > 1 <=> a > 1 \/ b > 1)
<1>1. a * b \in Nat
  OBVIOUS
<1>2. ASSUME a # 0, b # 0 PROVE a * b # 0 /\ (a * b > 1 <=> a > 1 \/ b > 1)
  <2>1. CASE a = 1
    BY <1>2, <2>1
  <2>2. CASE b = 1
    BY <1>2, <2>2
  <2>3. CASE a > 1 /\ b > 1
    <3>1. a * b >= a * 1
      BY <2>3
    <3> QED  BY <1>1, <2>3, <3>1
  <2> QED  BY <1>2, <2>1, <2>2, <2>3
<1> QED  BY <1>1, <1>2, OccursAssumption DEF Times

LEMMA WidenedType ==
  ASSUME IsSchema(schema), OccursFit, NEW node \in Node, NEW x \in LeafItems
  PROVE  /\ Widened(node, x) \in LeafItems
         /\ Widened(node, x).kind = x.kind /\ Widened(node, x).name = x.name
         /\ Widened(node, x).node = x.node
         /\ Widened(node, x).choice = (x.choice \/ IsChoice(node))
         /\ Widened(node, x).max > 1 <=> x.max > 1 \/ schema.particles[node].max > 1
<1> DEFINE least == IF IsChoice(node) THEN 0 ELSE Times(x.min, schema.particles[node].min)
           most == Times(x.max, schema.particles[node].max)
           choice == x.choice \/ IsChoice(node)
<1>1. /\ x.kind \in ElementKinds /\ x.name \in ParticleNames /\ x.node \in Node
      /\ x.choice \in BOOLEAN /\ x.min \in Nat /\ x.max \in Nat /\ x.max # 0
  BY DEF LeafItems
<1>2. /\ schema.particles[node].min \in Nat /\ schema.particles[node].max \in Nat
      /\ schema.particles[node].max # 0
  BY ParticleIs
<1>3. /\ most \in Nat \ {0} /\ least \in Nat
      /\ most > 1 <=> x.max > 1 \/ schema.particles[node].max > 1
  BY <1>1, <1>2, TimesType
<1>4. choice \in BOOLEAN
  BY <1>1 DEF IsChoice
<1>5. Widened(node, x) = [x EXCEPT !.choice = choice, !.min = least, !.max = most]
  BY DEF Widened
<1> HIDE DEF least, most, choice
<1>6. Widened(node, x) = [kind |-> x.kind, name |-> x.name, node |-> x.node, choice |-> choice,
                          min |-> least, max |-> most]
  BY <1>5 DEF LeafItems
<1>7. Widened(node, x) \in LeafItems
  BY <1>1, <1>3, <1>4, <1>6 DEF LeafItems
<1> QED  BY <1>3, <1>6, <1>7 DEF choice

LEMMA LeafOfType ==
  ASSUME IsSchema(schema), OccursFit, NEW node \in Node, IsLeaf(node)
  PROVE  LeafOf(node) \in LeafItems
<1>1. /\ schema.particles[node].min \in Nat /\ schema.particles[node].max \in Nat
      /\ schema.particles[node].max # 0 /\ schema.particles[node].name \in ParticleNames
      /\ schema.particles[node].kind \in ElementKinds
  BY ParticleIs DEF IsLeaf, ElementKinds
<1> HIDE DEF Node
<1> QED  BY <1>1 DEF LeafOf, LeafItems

Trees == [Node -> Seq(LeafItems)]

LEMMA LeavesAtType ==
  ASSUME IsSchema(schema), OccursFit, NEW f \in Trees, NEW node \in Node
  PROVE  /\ FlattenSeq(Through(f, Children(node))) \in Seq(LeafItems)
         /\ LeavesAt(f, node) \in Seq(LeafItems)
<1> HIDE DEF LeafItems, Node
<1>1. Through(f, Children(node)) \in Seq(Seq(LeafItems))
  <2> DEFINE T == Seq(LeafItems)
             s == Children(node)
  <2>1. s \in Seq(Node) /\ \A x \in Node : f[x] \in T
    BY ChildrenAreNodes DEF Trees
  <2> HIDE DEF T, s
  <2>2. Through(f, s) \in Seq(T)
    BY <2>1, ThroughWithin
  <2> QED  BY <2>2 DEF T, s
<1>2. FlattenSeq(Through(f, Children(node))) \in Seq(LeafItems)
  BY <1>1, FlatType
<1>3. \A x \in LeafItems : Widen(node)[x] \in LeafItems
  BY WidenedType DEF Widen
<1>4. Through(Widen(node), FlattenSeq(Through(f, Children(node)))) \in Seq(LeafItems)
  <2> DEFINE s == FlattenSeq(Through(f, Children(node)))
             g == Widen(node)
  <2>1. s \in Seq(LeafItems) /\ \A x \in LeafItems : g[x] \in LeafItems
    BY <1>2, <1>3
  <2> HIDE DEF s, g
  <2>2. Through(g, s) \in Seq(LeafItems)
    BY <2>1, ThroughWithin
  <2> QED  BY <2>2 DEF s, g
<1>5. IsLeaf(node) => <<LeafOf(node)>> \in Seq(LeafItems)
  BY LeafOfType
<1> QED  BY <1>2, <1>4, <1>5 DEF LeavesAt

(* There is a tree of leaves: every node has those of its children.           *)
LEMMA TreeExists ==
  ASSUME IsSchema(schema), OccursFit, ~ CyclicGroups
  PROVE  \E f \in Trees : \A node \in Node : f[node] = LeavesAt(f, node)
<1> HIDE DEF LeafItems, Node
<1> DEFINE base == [node \in Node |-> << >>]
           step == [n \in Nat |-> [f \in Trees |-> [node \in Node |-> LeavesAt(f, node)]]]
           L == Len(schema.particles)
<1>1. base \in Trees
  BY DEF Trees
<1>2. step \in Steps(Trees)
  BY LeavesAtType DEF Trees, Steps
<1>3. PICK g : IsRecursion(g, Trees, base, step)
  <2> HIDE DEF base, step
  <2> QED  BY <1>1, <1>2, RecursionExists
<1>4. \A k \in Nat : /\ g[k] \in Trees
                     /\ \A node \in Node : g[k + 1][node] = LeavesAt(g[k], node)
  <2> TAKE k \in Nat
  <2>1. g[k] \in Trees /\ g[k + 1] = step[k][g[k]]
    <3> HIDE DEF step, base
    <3> QED  BY <1>3 DEF IsRecursion
  <2>2. g[k + 1] = [node \in Node |-> LeavesAt(g[k], node)]
    <3> HIDE DEF base
    <3> QED  BY <2>1
  <2> HIDE DEF step, base
  <2> QED  BY <2>1, <2>2
<1>5. PICK d : IsDepths(d) /\ d[L] = {}
  BY DepthsExist
<1>6. L \in Nat
  BY NodesAreNumbers
<1> HIDE DEF base, step, L
<1> DEFINE Q == {k \in Nat : k <= L => \A node \in d[L - k] : g[k + 1][node] = g[k][node]}
<1>7. 0 \in Q
  BY <1>5, <1>6
<1>8. ASSUME NEW k \in Nat, k \in Q PROVE k + 1 \in Q
  <2> SUFFICES ASSUME k + 1 <= L, NEW node \in d[L - (k + 1)]
               PROVE  g[(k + 1) + 1][node] = g[k + 1][node]
    OBVIOUS
  <2> PICK j : j = L - (k + 1)
    OBVIOUS
  <2>1. j \in Nat /\ j + 1 = L - k /\ k <= L /\ node \in d[j]
    BY <1>6
  <2>2. d[j + 1] = ChildrenOf(d[j]) /\ node \in Node
    BY ONLY <1>5, <2>1 DEF IsDepths
  <2>3. \A child \in d[j + 1] : g[k + 1][child] = g[k][child]
    BY <1>8, <2>1
  <2>4. \A i \in DOMAIN Children(node) : Children(node)[i] \in d[j + 1]
    BY ONLY <2>1, <2>2 DEF ChildrenOf
  <2>5. Through(g[k + 1], Children(node)) = Through(g[k], Children(node))
    BY <2>3, <2>4 DEF Through
  <2>6. LeavesAt(g[k + 1], node) = LeavesAt(g[k], node)
    BY <2>5 DEF LeavesAt
  <2>7. g[(k + 1) + 1][node] = LeavesAt(g[k + 1], node) /\ g[k + 1][node] = LeavesAt(g[k], node)
    BY <1>4, <2>2
  <2> QED  BY <2>6, <2>7
<1>9. Nat \subseteq Q
  <2> HIDE DEF Q
  <2> QED  BY <1>7, <1>8, NumbersByInduction
<1>10. L \in Q /\ L - L = 0 /\ L <= L
  <2> HIDE DEF Q
  <2> QED  BY <1>6, <1>9
<1>11. \A node \in Node : g[L + 1][node] = g[L][node]
  BY <1>5, <1>10 DEF IsDepths
<1>12. \A node \in Node : g[L][node] = LeavesAt(g[L], node)
  BY <1>4, <1>6, <1>11
<1> QED  BY <1>4, <1>6, <1>12

LEMMA LeavesAre ==
  ASSUME IsSchema(schema), OccursFit, ~ CyclicGroups
  PROVE  /\ \A node \in Node : Leaves[node] \in Seq(LeafItems)
         /\ \A node \in Node : Leaves[node] = LeavesAt(Leaves, node)
<1> HIDE DEF LeafItems, Node
<1> DEFINE value(f, node) ==
             LET particle == schema.particles[node]
                 below == FlattenSeq([i \in DOMAIN Children(node) |-> f[Children(node)[i]]])
             IN  IF IsLeaf(node)
                 THEN <<[kind |-> particle.kind, name |-> particle.name, node |-> node,
                         choice |-> FALSE, min |-> particle.min, max |-> particle.max]>>
                 ELSE [i \in DOMAIN below |->
                         [below[i] EXCEPT !.choice = @ \/ IsChoice(node),
                                          !.min = IF IsChoice(node) THEN 0 ELSE Times(@, particle.min),
                                          !.max = Times(@, particle.max)]]
           IsTree(f) == f = [node \in Node |-> value(f, node)]
<1>1. ASSUME NEW f, NEW node \in Node, FlattenSeq(Through(f, Children(node))) \in Seq(LeafItems)
      PROVE  value(f, node) = LeavesAt(f, node)
  <2> DEFINE below == FlattenSeq(Through(f, Children(node)))
  <2>1. value(f, node) = IF IsLeaf(node) THEN <<LeafOf(node)>>
                         ELSE [i \in DOMAIN below |-> Widened(node, below[i])]
    BY DEF LeafOf, Widened, Through
  <2> HIDE DEF below, value
  <2>2. \A i \in DOMAIN below : Widened(node, below[i]) = Widen(node)[below[i]]
    BY <1>1 DEF Widen, below
  <2>3. [i \in DOMAIN below |-> Widened(node, below[i])] = Through(Widen(node), below)
    BY <2>2 DEF Through
  <2> QED  BY <2>1, <2>3 DEF LeavesAt, below
<1>2. PICK g \in Trees : \A node \in Node : g[node] = LeavesAt(g, node)
  BY TreeExists
<1>3. g = [node \in Node |-> value(g, node)]
  <2>1. \A node \in Node : value(g, node) = g[node]
    <3> HIDE DEF value
    <3> QED  BY <1>1, <1>2, LeavesAtType
  <2> HIDE DEF value
  <2> QED  BY <1>2, <2>1 DEF Trees
<1>4. IsTree(g)
  <2> HIDE DEF value
  <2> QED  BY <1>3
<1>5. Leaves = CHOOSE f : IsTree(f)
  BY DEF Leaves
<1>6. IsTree(Leaves)
  <2> HIDE DEF IsTree
  <2> QED  BY <1>4, <1>5
<1>7. \A node \in Node : Leaves[node] = value(Leaves, node)
  <2>1. Leaves = [node \in Node |-> value(Leaves, node)]
    <3> HIDE DEF value
    <3> QED  BY <1>6
  <2> HIDE DEF value
  <2> QED  BY <2>1
<1> HIDE DEF value, IsTree
<1> DEFINE P == {node \in Node : Leaves[node] \in Seq(LeafItems)}
<1>8. ASSUME NEW node \in Node, \A i \in DOMAIN Children(node) : Children(node)[i] \in P
      PROVE  FlattenSeq(Through(Leaves, Children(node))) \in Seq(LeafItems) /\ node \in P
  <2> DEFINE s == Children(node)
             T == Seq(LeafItems)
  <2>1. s \in Seq(P) /\ \A x \in P : Leaves[x] \in T
    <3>1. s \in Seq(Node) /\ \A i \in DOMAIN s : s[i] \in P
      BY <1>8, ChildrenAreNodes
    <3> HIDE DEF s, P
    <3>2. s \in Seq(P)
      BY <3>1
    <3> QED  BY <3>2 DEF P
  <2> HIDE DEF s, T, P
  <2>2. Through(Leaves, s) \in Seq(T)
    BY <2>1, ThroughWithin
  <2>3. FlattenSeq(Through(Leaves, Children(node))) \in Seq(LeafItems)
    BY <2>2, FlatType DEF s, T
  <2>4. Leaves[node] = LeavesAt(Leaves, node)
    BY <1>1, <1>7, <2>3
  <2>5. LeavesAt(Leaves, node) \in Seq(LeafItems)
    <3>1. \A x \in LeafItems : Widen(node)[x] \in LeafItems
      BY WidenedType DEF Widen
    <3> DEFINE b == FlattenSeq(Through(Leaves, Children(node)))
               w == Widen(node)
    <3>2. b \in Seq(LeafItems) /\ \A x \in LeafItems : w[x] \in LeafItems
      BY <2>3, <3>1
    <3> HIDE DEF b, w
    <3>3. Through(w, b) \in Seq(LeafItems)
      BY <3>2, ThroughWithin
    <3>4. IsLeaf(node) => <<LeafOf(node)>> \in Seq(LeafItems)
      BY LeafOfType
    <3> QED  BY <3>3, <3>4 DEF LeavesAt, b, w
  <2> QED  BY <2>3, <2>4, <2>5 DEF P
<1>9. Node \subseteq P
  <2>1. \A n \in Node : (\A i \in DOMAIN Children(n) : Children(n)[i] \in P) => n \in P
    <3> HIDE DEF P
    <3> QED  BY <1>8
  <2> HIDE DEF P
  <2> QED  BY <2>1, NodesByDepth
<1>10. \A node \in Node : Leaves[node] \in Seq(LeafItems)
  BY <1>9
<1>11. ASSUME NEW node \in Node PROVE Leaves[node] = LeavesAt(Leaves, node)
  <2>1. \A i \in DOMAIN Children(node) : Children(node)[i] \in P
    <3>1. Children(node) \in Seq(Node)
      BY ChildrenAreNodes
    <3> HIDE DEF P
    <3> QED  BY <1>9, <3>1
  <2>2. FlattenSeq(Through(Leaves, Children(node))) \in Seq(LeafItems)
    <3> HIDE DEF P
    <3> QED  BY <1>8, <2>1
  <2> QED  BY <1>1, <1>7, <2>2
<1> QED  BY <1>10, <1>11

-----------------------------------------------------------------------------
(* What becomes of a particle *)

(* A field as the content model sees it. *)
Briefs == [kind : ElementKinds, name : ParticleNames, ns : Namespace, choice : BOOLEAN, many : BOOLEAN]

(* What a leaf below a particle is to be, where the particle is one of a choice *)
(* or not and may be repeated or not.                                           *)
Brief(x, ns, inChoice, many) ==
  [kind |-> x.kind, name |-> x.name, ns |-> ElementNamespace(schema.particles[x.node], ns),
   choice |-> x.choice \/ inChoice, many |-> many \/ x.max > 1]

BriefOf(ns, inChoice, many) == [x \in LeafItems |-> Brief(x, ns, inChoice, many)]

(* The fields that a task is still to give. *)
Due(t, many) ==
  IF t.task = "particle" THEN Through(BriefOf(t.ns, t.inChoice, many), Leaves[t.node]) ELSE << >>

Fit == ~ CyclicGroups /\ OccursFit

LEMMA NamespaceOfLeaf ==
  ASSUME IsSchema(schema), NEW node \in Node, NEW ns \in Namespace
  PROVE  ElementNamespace(schema.particles[node], ns) \in Namespace
<1>1. schema.particles[node].ns \in Namespace
  BY ParticleIs
<1>2. NoNamespace \in Namespace
  BY NamespaceAssumption
<1> QED  BY <1>1, <1>2 DEF ElementNamespace

LEMMA BriefType ==
  ASSUME IsSchema(schema), NEW x \in LeafItems, NEW ns \in Namespace, NEW inChoice \in BOOLEAN,
         NEW many \in BOOLEAN
  PROVE  Brief(x, ns, inChoice, many) \in Briefs
<1>1. /\ x.kind \in ElementKinds /\ x.name \in ParticleNames /\ x.node \in Node
      /\ x.choice \in BOOLEAN
  BY DEF LeafItems
<1>2. ElementNamespace(schema.particles[x.node], ns) \in Namespace
  BY <1>1, NamespaceOfLeaf
<1>3. (x.choice \/ inChoice) \in BOOLEAN /\ (many \/ x.max > 1) \in BOOLEAN
  BY <1>1
<1> QED  BY <1>1, <1>2, <1>3 DEF Brief, Briefs

LEMMA BriefOfType ==
  ASSUME IsSchema(schema), NEW ns \in Namespace, NEW inChoice \in BOOLEAN, NEW many \in BOOLEAN
  PROVE  \A x \in LeafItems : /\ BriefOf(ns, inChoice, many)[x] = Brief(x, ns, inChoice, many)
                              /\ BriefOf(ns, inChoice, many)[x] \in Briefs
BY BriefType DEF BriefOf

(* What is below the particles of a list. *)
Below(nodes) == FlattenSeq(Through(Leaves, nodes))

LEMMA BelowType ==
  ASSUME IsSchema(schema), Fit, NEW nodes \in Seq(Node)
  PROVE  Through(Leaves, nodes) \in Seq(Seq(LeafItems)) /\ Below(nodes) \in Seq(LeafItems)
<1> DEFINE T == Seq(LeafItems)
<1>1. \A n \in Node : Leaves[n] \in T
  BY LeavesAre DEF Fit
<1> HIDE DEF T, Node
<1>2. Through(Leaves, nodes) \in Seq(T)
  BY <1>1, ThroughWithin
<1> HIDE DEF LeafItems
<1>3. Through(Leaves, nodes) \in Seq(Seq(LeafItems))
  BY <1>2 DEF T
<1> QED  BY <1>3, FlatType DEF Below

(* What a list of particles gives, one after the other. *)
PartsOf(nodes, ns, inChoice, many) == Throughs(BriefOf(ns, inChoice, many), Through(Leaves, nodes))

LEMMA PartsType ==
  ASSUME IsSchema(schema), Fit, NEW nodes \in Seq(Node), NEW ns \in Namespace,
         NEW inChoice \in BOOLEAN, NEW many \in BOOLEAN
  PROVE  /\ PartsOf(nodes, ns, inChoice, many) \in Seq(Seq(Briefs))
         /\ Len(PartsOf(nodes, ns, inChoice, many)) = Len(nodes)
         /\ FlattenSeq(PartsOf(nodes, ns, inChoice, many)) = Through(BriefOf(ns, inChoice, many), Below(nodes))
         /\ \A i \in DOMAIN nodes : PartsOf(nodes, ns, inChoice, many)[i]
                                    = Through(BriefOf(ns, inChoice, many), Leaves[nodes[i]])
<1> DEFINE g == BriefOf(ns, inChoice, many)
           ss == Through(Leaves, nodes)
<1>1. \A x \in LeafItems : g[x] \in Briefs
  BY BriefOfType
<1>2. ss \in Seq(Seq(LeafItems))
  BY BelowType
<1>3. Len(ss) = Len(nodes) /\ DOMAIN ss = DOMAIN nodes /\ \A i \in DOMAIN nodes : ss[i] = Leaves[nodes[i]]
  <2> HIDE DEF Node
  <2> QED  BY ThroughValues
<1> HIDE DEF g, ss, LeafItems, Briefs, Node
<1>4. Throughs(g, ss) \in Seq(Seq(Briefs)) /\ FlattenSeq(Throughs(g, ss)) = Through(g, FlattenSeq(ss))
  BY <1>1, <1>2, FlatOfThroughs
<1>5. DOMAIN Throughs(g, ss) = DOMAIN ss /\ \A i \in DOMAIN ss : Throughs(g, ss)[i] = Through(g, ss[i])
  BY DEF Throughs
<1>6. Len(Throughs(g, ss)) = Len(ss)
  <2> PICK r : r = Throughs(g, ss)
    OBVIOUS
  <2>1. r \in Seq(Seq(Briefs)) /\ DOMAIN r = DOMAIN ss
    BY <1>4, <1>5
  <2>2. Len(r) = Len(ss)
    BY <1>2, <2>1
  <2> QED  BY <2>2
<1> QED  BY <1>3, <1>4, <1>5, <1>6 DEF PartsOf, Below, g, ss

LEMMA DueType ==
  ASSUME IsSchema(schema), Fit, NEW t, IsTask(t), NEW many \in BOOLEAN
  PROVE  Due(t, many) \in Seq(Briefs)
<1>1. CASE t.task = "particle"
  <2>1. t.node \in Node /\ t.ns \in Namespace /\ t.inChoice \in BOOLEAN
    BY <1>1 DEF IsTask, Node
  <2> DEFINE g == BriefOf(t.ns, t.inChoice, many)
             l == Leaves[t.node]
  <2>2. l \in Seq(LeafItems)
    BY <2>1, LeavesAre DEF Fit
  <2>3. \A x \in LeafItems : g[x] \in Briefs
    BY <2>1, BriefOfType
  <2> HIDE DEF g, l, LeafItems, Briefs
  <2>4. Through(g, l) \in Seq(Briefs)
    BY <2>2, <2>3, ThroughWithin
  <2> QED  BY <1>1, <2>4 DEF Due, g, l
<1>2. CASE t.task # "particle"
  BY <1>2 DEF Due
<1> QED  BY <1>1, <1>2

(* An element is one field. *)
LEMMA DueOfElement ==
  ASSUME IsSchema(schema), Fit, NEW t, IsTask(t), t.task = "particle", IsLeaf(t.node), NEW many \in BOOLEAN
  PROVE  /\ LeafOf(t.node) \in LeafItems
         /\ Due(t, many) = <<Brief(LeafOf(t.node), t.ns, t.inChoice, many)>>
         /\ Brief(LeafOf(t.node), t.ns, t.inChoice, many) \in Briefs
<1>1. t.node \in Node /\ t.ns \in Namespace /\ t.inChoice \in BOOLEAN
  BY DEF IsTask, Node
<1>2. LeafOf(t.node) \in LeafItems
  BY <1>1, LeafOfType DEF Fit
<1>3. Leaves[t.node] = <<LeafOf(t.node)>>
  <2>1. Leaves[t.node] = LeavesAt(Leaves, t.node)
    BY <1>1, LeavesAre DEF Fit
  <2> QED  BY <2>1 DEF LeavesAt
<1>4. /\ BriefOf(t.ns, t.inChoice, many)[LeafOf(t.node)] = Brief(LeafOf(t.node), t.ns, t.inChoice, many)
      /\ Brief(LeafOf(t.node), t.ns, t.inChoice, many) \in Briefs
  <2> HIDE DEF Briefs, LeafItems
  <2> QED  BY <1>1, <1>2, BriefOfType
<1>5. Due(t, many) = Through(BriefOf(t.ns, t.inChoice, many), <<LeafOf(t.node)>>)
  BY <1>3 DEF Due
<1>6. Through(BriefOf(t.ns, t.inChoice, many), <<LeafOf(t.node)>>) = <<BriefOf(t.ns, t.inChoice, many)[LeafOf(t.node)]>>
  BY ThroughOne
<1> QED  BY <1>2, <1>4, <1>5, <1>6

(* The group that a node is or refers to. *)
LEMMA GroupOfNode ==
  ASSUME IsSchema(schema), Fit, NEW node \in Node
  PROVE  LET group == ResolveGroupRef(schema.particles[node])
         IN  /\ group.kind \in ElementKinds <=> IsLeaf(node)
             /\ ~ IsLeaf(node) => group.children = Children(node)
             /\ IsChoice(node) <=> group.kind = "choice"
             /\ group.max = schema.particles[node].max
<1> DEFINE p == schema.particles[node]
           content == schema.particles[schema.groups[p.refers]]

<1>1. ASSUME p.refers \in DOMAIN schema.groups
      PROVE  /\ ~ IsLeaf(node) /\ content.kind \in {"sequence", "choice", "all"} /\ content.max = 1
             /\ "min" \in DOMAIN content /\ "max" \in DOMAIN content
             /\ content = [content EXCEPT !.kind = content.kind]
  <2>1. p \in Range(schema.particles)
    BY DEF Node, Range
  <2>2. p.kind \notin {"element", "any"}
    BY <1>1, <2>1 DEF IsSchema
  <2>3. /\ schema.groups[p.refers] \in Node
        /\ content.kind \in {"sequence", "choice", "all"}
    BY <1>1 DEF IsSchema, Node
  <2>4. content.max = 1
    BY <1>1 DEF Fit, OccursFit
  <2>5. content \in Range(schema.particles)
    BY <2>3 DEF Node, Range
  <2>6. content \in [kind : {"element", "any", "sequence", "choice", "all", ""}, name : {content.name},
                  ns : Namespace, ref : BOOLEAN, qualified : BOOLEAN, refers : {content.refers},
                  children : Seq(DOMAIN schema.particles), min : Occurrences, max : Occurrences]
    <3> DEFINE IsParticle(x) ==
          x \in [kind : {"element", "any", "sequence", "choice", "all", ""}, name : {x.name},
                  ns : Namespace, ref : BOOLEAN, qualified : BOOLEAN, refers : {x.refers},
                  children : Seq(DOMAIN schema.particles), min : Occurrences, max : Occurrences]
    <3>1. \A x \in Range(schema.particles) : IsParticle(x)
      BY DEF IsSchema
    <3>2. IsParticle(content)
      <4> HIDE DEF IsParticle, content
      <4> QED  BY <2>5, <3>1
    <3> QED  BY <3>2
  <2>7. "min" \in DOMAIN content /\ "max" \in DOMAIN content /\ content = [content EXCEPT !.kind = content.kind]
    <3> HIDE DEF content
    <3> QED  BY <2>6
  <2> QED  BY <2>2, <2>3, <2>4, <2>7 DEF IsLeaf
<1>2. CASE p.refers \notin DOMAIN schema.groups
  <2>1. ResolveGroupRef(p) = p
    BY <1>2 DEF ResolveGroupRef
  <2> QED  BY <1>2, <2>1 DEF IsLeaf, Children, IsChoice, ElementKinds
<1>3. CASE p.refers \in DOMAIN schema.groups
  <2>1. PICK least, most : /\ least = (IF p.min # 1 THEN p.min ELSE content.min)
                           /\ most = (IF p.max # 1 THEN p.max ELSE content.max)
    OBVIOUS
  <2>2. ResolveGroupRef(p) = [content EXCEPT !.min = least, !.max = most]
    BY <1>3, <2>1 DEF ResolveGroupRef
  <2>3. most = p.max
    BY <1>1, <1>3, <2>1
  <2>4. /\ ResolveGroupRef(p).kind = content.kind /\ ResolveGroupRef(p).children = content.children
        /\ ResolveGroupRef(p).max = most
    <3>1. "min" \in DOMAIN content /\ "max" \in DOMAIN content
      BY <1>1, <1>3
    <3> HIDE DEF content
    <3> QED  BY <2>2, <3>1
  <2>5. Children(node) = content.children /\ (IsChoice(node) <=> content.kind = "choice")
    BY <1>1, <1>3 DEF Children, IsChoice
  <2> QED  BY <1>1, <1>3, <2>3, <2>4, <2>5 DEF ElementKinds
<1> QED  BY <1>2, <1>3

(* A group is what its particles are, in a choice if it is one and repeated if *)
(* it is.                                                                       *)
LEMMA DueOfGroup ==
  ASSUME IsSchema(schema), Fit, NEW t, IsTask(t), t.task = "particle", ~ IsLeaf(t.node), NEW many \in BOOLEAN,
         NEW inChoice, inChoice = (t.inChoice \/ IsChoice(t.node)),
         NEW repeated, repeated = (many \/ schema.particles[t.node].max > 1)
  PROVE  /\ inChoice \in BOOLEAN /\ repeated \in BOOLEAN
         /\ Children(t.node) \in Seq(Node)
         /\ FlattenSeq(PartsOf(Children(t.node), t.ns, inChoice, repeated)) = Due(t, many)
<1>1. t.node \in Node /\ t.ns \in Namespace /\ t.inChoice \in BOOLEAN
  BY DEF IsTask, Node
<1>2. IsChoice(t.node) \in BOOLEAN
  BY DEF IsChoice
<1>3. schema.particles[t.node].max \in Nat
  BY <1>1, ParticleIs
<1>4. inChoice \in BOOLEAN /\ repeated \in BOOLEAN
  BY <1>1, <1>2, <1>3
<1>5. Children(t.node) \in Seq(Node)
  BY <1>1, ChildrenAreNodes
<1> DEFINE f == Below(Children(t.node))
           b == BriefOf(t.ns, t.inChoice, many)
           c == BriefOf(t.ns, inChoice, repeated)
           w == Widen(t.node)
<1>6. f \in Seq(LeafItems)
  BY <1>5, BelowType
<1>7. FlattenSeq(PartsOf(Children(t.node), t.ns, inChoice, repeated)) = Through(c, f)
  <2> HIDE DEF Node
  <2> QED  BY <1>1, <1>4, <1>5, PartsType
<1>8. Leaves[t.node] = Through(w, f)
  <2>1. Leaves[t.node] = LeavesAt(Leaves, t.node)
    BY <1>1, LeavesAre DEF Fit
  <2> QED  BY <2>1 DEF LeavesAt, Below
<1>9. ASSUME NEW x \in LeafItems PROVE w[x] \in LeafItems /\ b[w[x]] = c[x]
  <2> DEFINE y == Widened(t.node, x)
  <2>1. /\ y \in LeafItems /\ y.kind = x.kind /\ y.name = x.name /\ y.node = x.node
        /\ y.choice = (x.choice \/ IsChoice(t.node))
        /\ y.max > 1 <=> x.max > 1 \/ schema.particles[t.node].max > 1
    <3> HIDE DEF LeafItems
    <3> QED  BY <1>1, WidenedType DEF Fit
  <2>2. w[x] = y
    BY DEF Widen
  <2> HIDE DEF y, w
  <2>3. b[y] = Brief(y, t.ns, t.inChoice, many) /\ c[x] = Brief(x, t.ns, inChoice, repeated)
    <3> HIDE DEF LeafItems
    <3> QED  BY <2>1 DEF BriefOf
  <2>4. (y.choice \/ t.inChoice) = (x.choice \/ inChoice)
    <3>1. x.choice \in BOOLEAN
      BY DEF LeafItems
    <3>2. PICK k, i, j : k = x.choice /\ i = t.inChoice /\ j = IsChoice(t.node)
      OBVIOUS
    <3>3. k \in BOOLEAN /\ i \in BOOLEAN /\ j \in BOOLEAN
      BY <1>1, <1>2, <3>1, <3>2
    <3>4. ((k \/ j) \/ i) = (k \/ (i \/ j))
      BY ONLY <3>3
    <3> QED  BY <2>1, <3>2, <3>4
  <2>5. (many \/ y.max > 1) = (repeated \/ x.max > 1)
    <3>1. (x.max > 1) \in BOOLEAN /\ (y.max > 1) \in BOOLEAN /\ (schema.particles[t.node].max > 1) \in BOOLEAN
      <4>1. x.max \in Nat /\ y.max \in Nat
        BY <2>1 DEF LeafItems
      <4> QED  BY <1>3, <4>1
    <3>2. PICK k, i, j : k = (x.max > 1) /\ i = (y.max > 1) /\ j = (schema.particles[t.node].max > 1)
      OBVIOUS
    <3>3. k \in BOOLEAN /\ i \in BOOLEAN /\ j \in BOOLEAN /\ (i <=> k \/ j)
      BY <2>1, <3>1, <3>2
    <3>4. \A m \in BOOLEAN : (m \/ i) = ((m \/ j) \/ k)
      BY ONLY <3>3
    <3>5. (many \/ i) = ((many \/ j) \/ k)
      BY <3>4
    <3> QED  BY ONLY <3>2, <3>5, repeated = (many \/ schema.particles[t.node].max > 1)
  <2>6. Brief(y, t.ns, t.inChoice, many) = Brief(x, t.ns, inChoice, repeated)
    BY <2>1, <2>4, <2>5 DEF Brief
  <2> QED  BY <2>1, <2>2, <2>3, <2>6
<1>10. Through(b, Through(w, f)) = Through(c, f)
  <2> HIDE DEF b, c, w, f, LeafItems
  <2>1. /\ DOMAIN Through(w, f) = DOMAIN f
        /\ \A k \in DOMAIN f : Through(w, f)[k] = w[f[k]] /\ f[k] \in LeafItems
    BY <1>6, ThroughValues
  <2>2. \A k \in DOMAIN f : b[Through(w, f)[k]] = c[f[k]]
    BY <1>9, <2>1
  <2>3. Through(b, Through(w, f)) = [k \in DOMAIN Through(w, f) |-> b[Through(w, f)[k]]]
    BY DEF Through
  <2>4. Through(c, f) = [k \in DOMAIN f |-> c[f[k]]]
    BY DEF Through
  <2> QED  BY <2>1, <2>2, <2>3, <2>4
<1>11. Due(t, many) = Through(b, Leaves[t.node])
  BY DEF Due
<1> QED  BY <1>4, <1>5, <1>7, <1>8, <1>10, <1>11

-----------------------------------------------------------------------------
(* What the types that were entered give *)

OwnBriefs(type) ==
  IF SimpleContent(type) THEN << >>
  ELSE Through(BriefOf(type.ns, FALSE, FALSE), Below(type.content))

OwnOf == [t \in Types |-> OwnBriefs(t)]

(* The elements of the types s, the last one's first. *)
Model(s) == FlattenSeq(Through(OwnOf, Reverse(s)))

LEMMA OwnBriefsType ==
  ASSUME IsSchema(schema), Fit, NEW type \in Types
  PROVE  OwnBriefs(type) \in Seq(Briefs)
<1>1. type.content \in Seq(Node) /\ type.ns \in Namespace
  BY TypeParts DEF Node
<1>2. Below(type.content) \in Seq(LeafItems)
  BY <1>1, BelowType
<1>3. \A x \in LeafItems : BriefOf(type.ns, FALSE, FALSE)[x] \in Briefs
  BY <1>1, BriefOfType
<1>4. Through(BriefOf(type.ns, FALSE, FALSE), Below(type.content)) \in Seq(Briefs)
  <2> DEFINE g == BriefOf(type.ns, FALSE, FALSE)
             l == Below(type.content)
  <2> HIDE DEF LeafItems, Briefs
  <2>1. l \in Seq(LeafItems) /\ \A x \in LeafItems : g[x] \in Briefs
    BY <1>2, <1>3
  <2> HIDE DEF g, l
  <2>2. Through(g, l) \in Seq(Briefs)
    BY <2>1, ThroughWithin
  <2> QED  BY <2>2 DEF g, l
<1>5. << >> \in Seq(Briefs)
  OBVIOUS
<1> HIDE DEF Briefs
<1> QED  BY <1>4, <1>5 DEF OwnBriefs

LEMMA OwnOfType ==
  ASSUME IsSchema(schema), Fit
  PROVE  \A t \in Types : OwnOf[t] = OwnBriefs(t) /\ OwnOf[t] \in Seq(Briefs)
BY OwnBriefsType DEF OwnOf

LEMMA ReverseOneMore ==
  ASSUME NEW S, NEW s \in Seq(S), NEW t \in S
  PROVE  Reverse(Append(s, t)) = <<t>> \o Reverse(s)
<1> DEFINE p == Append(s, t)
           l == Reverse(p)
           r == Reverse(s)
           o == <<t>>
<1>1. /\ p \in Seq(S) /\ Len(p) = Len(s) + 1 /\ Len(s) \in Nat
      /\ p[Len(s) + 1] = t /\ \A i \in 1..Len(s) : p[i] = s[i]
  OBVIOUS
<1>2. o \in Seq(S) /\ Len(o) = 1 /\ o[1] = t
  OBVIOUS
<1> HIDE DEF p, o
<1>3. l \in Seq(S) /\ Len(l) = Len(s) + 1 /\ \A i \in 1..Len(s) + 1 : l[i] = p[((Len(s) + 1) - i) + 1]
  BY <1>1, RangeOfReverse
<1>4. r \in Seq(S) /\ Len(r) = Len(s) /\ \A i \in 1..Len(s) : r[i] = s[(Len(s) - i) + 1]
  BY RangeOfReverse
<1> HIDE DEF l, r
<1>5. /\ o \o r \in Seq(S) /\ Len(o \o r) = Len(s) + 1
      /\ \A i \in 1..Len(s) + 1 : (o \o r)[i] = IF i <= 1 THEN o[i] ELSE r[i - 1]
  <2>1. /\ o \o r \in Seq(S) /\ Len(o \o r) = Len(o) + Len(r)
        /\ \A i \in 1..Len(o) + Len(r) : (o \o r)[i] = IF i <= Len(o) THEN o[i] ELSE r[i - Len(o)]
    <3>1. o \in Seq(S) /\ r \in Seq(S)
      BY <1>2, <1>4
    <3> QED  BY ONLY <3>1, ConcatProperties
  <2>2. Len(o) + Len(r) = Len(s) + 1
    BY <1>1, <1>2, <1>4
  <2> QED  BY <1>2, <2>1, <2>2
<1>6. ASSUME NEW i \in 1..Len(s) + 1 PROVE l[i] = (o \o r)[i]
  <2>1. CASE i = 1
    <3>1. ((Len(s) + 1) - i) + 1 = Len(s) + 1
      BY <1>1, <2>1
    <3>2. l[i] = t /\ (o \o r)[i] = t
      BY <1>1, <1>2, <1>3, <1>5, <2>1, <3>1
    <3> QED  BY <3>2
  <2>2. CASE i > 1
    <3>1. /\ i - 1 \in 1..Len(s) /\ ((Len(s) + 1) - i) + 1 \in 1..Len(s)
          /\ (Len(s) - (i - 1)) + 1 = ((Len(s) + 1) - i) + 1 /\ ~ (i <= 1)
      BY <1>1, <2>2
    <3> QED  BY <1>1, <1>3, <1>4, <1>5, <3>1
  <2>3. i = 1 \/ i > 1
    BY <1>1
  <2> QED  BY <2>1, <2>2, <2>3
<1>7. l = o \o r
  BY <1>3, <1>5, <1>6, SameLists
<1> QED  BY <1>7 DEF l, o, r, p

LEMMA ModelOfNone == Model(<< >>) = << >>
<1>1. Reverse(<< >>) = << >>
  <2>1. << >> \in Seq({})
    OBVIOUS
  <2>2. Reverse(<< >>) \in Seq({}) /\ Len(Reverse(<< >>)) = Len(<< >>)
    BY <2>1, RangeOfReverse
  <2> QED  BY <2>1, <2>2, SameLists
<1>2. Through(OwnOf, << >>) = << >>
  BY ThroughOne
<1> QED  BY <1>1, <1>2, FlatOfNone DEF Model

LEMMA ModelOfOneMore ==
  ASSUME IsSchema(schema), Fit, NEW s \in Seq(Types), NEW t \in Types
  PROVE  /\ Model(Append(s, t)) = OwnBriefs(t) \o Model(s) /\ Model(s) \in Seq(Briefs)
         /\ Model(Append(s, t)) \in Seq(Briefs)
<1> DEFINE r == Reverse(s)
           B == Seq(Briefs)
           rest == Through(OwnOf, r)
           own == OwnBriefs(t)
<1>0. \A x \in Types : OwnOf[x] = OwnBriefs(x) /\ OwnOf[x] \in B
  BY OwnOfType
<1>1. r \in Seq(Types)
  BY RangeOfReverse
<1>2. <<t>> \in Seq(Types)
  OBVIOUS
<1> HIDE DEF Briefs, Types
<1>3. Through(OwnOf, <<t>> \o r) = <<own>> \o rest
  <2> PICK o : o = <<t>>
    OBVIOUS
  <2>1. o \in Seq(Types) /\ Through(OwnOf, o) = <<OwnOf[t]>>
    BY <1>2, ThroughOne
  <2> PICK g : g = OwnOf
    OBVIOUS
  <2>2. Through(OwnOf, o \o r) = Through(OwnOf, o) \o Through(OwnOf, r)
    <3> HIDE DEF r
    <3>1. Through(g, o \o r) = Through(g, o) \o Through(g, r)
      <4> PICK T : T = Types
        OBVIOUS
      <4>1. o \in Seq(T) /\ r \in Seq(T)
        BY <1>1, <2>1
      <4> QED  BY ONLY <4>1, ThroughConcat
    <3> QED  BY <3>1
  <2> QED  BY <1>0, <2>1, <2>2
<1>4. rest \in Seq(B) /\ own \in B
  <2> HIDE DEF B, r
  <2> QED  BY <1>0, <1>1, ThroughWithin
<1>5. FlattenSeq(<<own>> \o rest) = FlattenSeq(<<own>>) \o FlattenSeq(rest) /\ FlattenSeq(<<own>>) = own
  <2> PICK o : o = <<own>>
    OBVIOUS
  <2> HIDE DEF own, rest
  <2>1. o \in Seq(Seq(Briefs)) /\ rest \in Seq(Seq(Briefs)) /\ own \in Seq(Briefs)
    BY <1>4
  <2>2. FlattenSeq(o \o rest) = FlattenSeq(o) \o FlattenSeq(rest)
    BY <2>1, FlatOfConcat
  <2> QED  BY <2>1, <2>2, FlatOfOne
<1>6. Model(s) \in Seq(Briefs)
  <2>1. FlattenSeq(rest) \in Seq(Briefs)
    <3> HIDE DEF rest
    <3> QED  BY <1>4, FlatType
  <2> QED  BY <2>1 DEF Model
<1>7. Model(Append(s, t)) = own \o Model(s)
  <2>1. Reverse(Append(s, t)) = <<t>> \o r
    BY ReverseOneMore
  <2> HIDE DEF own
  <2> QED  BY <1>3, <1>5, <2>1 DEF Model
<1>8. own \o Model(s) \in Seq(Briefs)
  BY <1>4, <1>6
<1> QED  BY <1>6, <1>7, <1>8

LEMMA FlatOfEmpties ==
  ASSUME NEW n \in Nat, NEW S
  PROVE  /\ [i \in 1..n |-> << >>] \in Seq(Seq(S)) /\ Len([i \in 1..n |-> << >>]) = n
         /\ FlattenSeq([i \in 1..n |-> << >>]) = << >>
<1> DEFINE e == [i \in 1..n |-> << >>]
           N == << >>
<1>1. e \in [1..n -> {N}] /\ N \in Seq(S) /\ N \in Seq({}) /\ N \o N = N
  OBVIOUS
<1> HIDE DEF e, N
<1>2. e \in Seq({N}) /\ e \in Seq(Seq(S)) /\ Len(e) = n
  BY <1>1
<1>3. FlattenSeq(e) \in {N}
  <2> DEFINE T == {N}
  <2>1. T \in SUBSET Seq({}) /\ N \in T /\ \A x, y \in T : x \o y \in T
    BY <1>1
  <2>2. e \in Seq(T)
    BY <1>2
  <2> HIDE DEF T
  <2>3. FlattenSeq(e) \in T
    BY <2>1, <2>2, FlatWithin DEF N
  <2> QED  BY <2>3 DEF T
<1> QED  BY <1>2, <1>3 DEF e, N

(* The first list of some replaced by lists that make it up. *)
LEMMA FlatOfHead ==
  ASSUME NEW S, NEW ss \in Seq(Seq(S)), ss # << >>, NEW q \in Seq(Seq(S))
  PROVE  /\ Tail(ss) \in Seq(Seq(S)) /\ ss[1] \in Seq(S) /\ 1 \in DOMAIN ss
         /\ q \o Tail(ss) \in Seq(Seq(S))
         /\ FlattenSeq(q \o Tail(ss)) = FlattenSeq(q) \o FlattenSeq(Tail(ss))
         /\ FlattenSeq(ss) = ss[1] \o FlattenSeq(Tail(ss))
         /\ FlattenSeq(q) \in Seq(S) /\ FlattenSeq(Tail(ss)) \in Seq(S) /\ FlattenSeq(ss) \in Seq(S)
<1> DEFINE Q == Seq(S)
<1>1. Tail(ss) \in Seq(Q) /\ ss[1] \in Q /\ <<ss[1]>> \in Seq(Q) /\ ss = <<ss[1]>> \o Tail(ss) /\ 1 \in DOMAIN ss
  <2>1. ss \in Seq(Q)
    OBVIOUS
  <2> HIDE DEF Q
  <2> QED  BY <2>1
<1>2. Tail(ss) \in Seq(Seq(S)) /\ <<ss[1]>> \in Seq(Seq(S))
  BY <1>1
<1>3. PICK h, r, e : h = <<ss[1]>> /\ r = Tail(ss) /\ e = ss[1]
  OBVIOUS
<1>4. h \in Seq(Seq(S)) /\ r \in Seq(Seq(S)) /\ e \in Seq(S) /\ h = <<e>> /\ ss = h \o r
  BY <1>1, <1>2, <1>3
<1>5. q \o r \in Seq(Seq(S))
  <2>1. q \in Seq(Q) /\ r \in Seq(Q)
    BY <1>4
  <2> HIDE DEF Q
  <2>2. q \o r \in Seq(Q)
    BY <2>1
  <2> QED  BY <2>2 DEF Q
<1>6. FlattenSeq(q \o r) = FlattenSeq(q) \o FlattenSeq(r) /\ FlattenSeq(h \o r) = FlattenSeq(h) \o FlattenSeq(r)
  BY ONLY <1>4, q \in Seq(Seq(S)), FlatOfConcat
<1>7. FlattenSeq(<<e>>) = e
  BY ONLY <1>4, FlatOfOne
<1>8. FlattenSeq(q) \in Seq(S) /\ FlattenSeq(r) \in Seq(S) /\ FlattenSeq(ss) \in Seq(S)
  BY ONLY <1>4, q \in Seq(Seq(S)), ss \in Seq(Seq(S)), FlatType
<1>9. FlattenSeq(ss) = e \o FlattenSeq(r)
  BY <1>4, <1>6, <1>7
<1> QED  BY <1>1, <1>2, <1>3, <1>5, <1>6, <1>8, <1>9

-----------------------------------------------------------------------------
(* The invariant *)

(* What each task of a list is to give. *)
Dues(list, pend) ==
  /\ IsSequence(list) /\ pend \in Seq(Seq(Briefs)) /\ Len(pend) = Len(list)
  /\ \A i \in DOMAIN list : \E many \in BOOLEAN : pend[i] = Due(list[i], many)

AllMany(briefs) == \A k \in DOMAIN briefs : briefs[k].many

Mirrors(f, b) ==
  /\ f.kind = b.kind /\ f.name = b.name /\ f.ns = b.ns /\ f.choice = b.choice
  /\ f.max > 1 => b.many

(* What each field was to be: an element what the content model has, another *)
(* one nothing of it.                                                         *)
Mirror(made) ==
  /\ made \in Seq(Seq(Briefs)) /\ Len(made) = Len(fields)
  /\ \A k \in DOMAIN fields :
       IF fields[k].kind \in ElementKinds
       THEN \E b \in Briefs : made[k] = <<b>> /\ Mirrors(fields[k], b)
       ELSE made[k] = << >>

(* All that is in a repeated group may be repeated. *)
Repeats(made, pend) ==
  \A j \in DOMAIN todo : todo[j].task = "leaveGroup" /\ todo[j].group.max > 1 =>
    /\ \A i \in DOMAIN todo : i < j => AllMany(pend[i])
    /\ \A k \in DOMAIN fields : k > todo[j].from => AllMany(made[k])

Mirrored(s, made, pend) ==
  /\ Dues(todo, pend) /\ Mirror(made) /\ Repeats(made, pend)
  /\ FlattenSeq(made) \o FlattenSeq(pend) = Model(s)

-----------------------------------------------------------------------------
(* What the schema means does not change *)

LeafIn(s, node) == s.particles[node].kind \in {"element", "any"}

ChildrenIn(s, node) ==
  LET particle == s.particles[node]
  IN  IF LeafIn(s, node) THEN << >>
      ELSE IF particle.refers \in DOMAIN s.groups
           THEN s.particles[s.groups[particle.refers]].children
           ELSE particle.children

ChoiceIn(s, node) ==
  LET particle == s.particles[node]
  IN  IF particle.refers \in DOMAIN s.groups
      THEN s.particles[s.groups[particle.refers]].kind = "choice"
      ELSE particle.kind = "choice"

LeavesIn(s) ==
  LET leaves[node \in DOMAIN s.particles] ==
        LET particle == s.particles[node]
            below == FlattenSeq([i \in DOMAIN ChildrenIn(s, node) |-> leaves[ChildrenIn(s, node)[i]]])
        IN  IF LeafIn(s, node)
            THEN <<[kind |-> particle.kind, name |-> particle.name, node |-> node, choice |-> FALSE,
                    min |-> particle.min, max |-> particle.max]>>
            ELSE [i \in DOMAIN below |->
                    [below[i] EXCEPT !.choice = @ \/ ChoiceIn(s, node),
                                     !.min = IF ChoiceIn(s, node) THEN 0 ELSE Times(@, particle.min),
                                     !.max = Times(@, particle.max)]]
  IN  leaves

CyclicIn(s) ==
  LET deep[k \in 0..Len(s.particles)] ==
        IF k = 0 THEN DOMAIN s.particles
        ELSE UNION {{ChildrenIn(s, n)[i] : i \in DOMAIN ChildrenIn(s, n)} : n \in deep[k - 1]}
  IN  deep[Len(s.particles)] # {}

LEMMA LeavesStay ==
  ASSUME schema' = schema
  PROVE  Leaves' = Leaves /\ (Fit' <=> Fit)
<1>1. Leaves = LeavesIn(schema)
  BY DEF Leaves, LeavesIn, Node, Children, IsLeaf, IsChoice, LeafIn, ChildrenIn, ChoiceIn
<1>2. Leaves' = LeavesIn(schema')
  BY DEF Leaves, LeavesIn, Node, Children, IsLeaf, IsChoice, LeafIn, ChildrenIn, ChoiceIn
<1>3. CyclicGroups <=> CyclicIn(schema)
  BY DEF CyclicGroups, CyclicIn, Node, Children, IsLeaf, LeafIn, ChildrenIn
<1>4. CyclicGroups' <=> CyclicIn(schema')
  BY DEF CyclicGroups, CyclicIn, Node, Children, IsLeaf, LeafIn, ChildrenIn
<1>5. OccursFit' <=> OccursFit
  BY DEF OccursFit
<1> QED  BY <1>1, <1>2, <1>3, <1>4, <1>5 DEF Fit

LEMMA MeaningStays ==
  ASSUME schema' = schema
  PROVE  /\ Fit' <=> Fit
         /\ Briefs' = Briefs
         /\ \A t, many : Due(t, many)' = Due(t, many)
         /\ \A s : Model(s)' = Model(s)
<1>1. Leaves' = Leaves /\ (Fit' <=> Fit)
  BY LeavesStay
<1>2. Briefs' = Briefs
  BY DEF Briefs, ParticleNames, Node
<1>3. LeafItems' = LeafItems
  BY DEF LeafItems, ParticleNames, Node
<1>4. \A x, ns, inChoice, many : Brief(x, ns, inChoice, many)' = Brief(x, ns, inChoice, many)
  BY DEF Brief
<1>5. \A ns, inChoice, many : BriefOf(ns, inChoice, many)' = BriefOf(ns, inChoice, many)
  BY <1>3, <1>4 DEF BriefOf
<1>6. \A t, many : Due(t, many)' = Due(t, many)
  BY <1>1, <1>5 DEF Due
<1>7. \A t : OwnBriefs(t)' = OwnBriefs(t)
  <2>1. \A nodes : Below(nodes)' = Below(nodes)
    BY <1>1 DEF Below, Through
  <2> QED  BY <1>5, <2>1 DEF OwnBriefs
<1>8. OwnOf' = OwnOf
  BY <1>7 DEF OwnOf, Types
<1>9. \A s : Model(s)' = Model(s)
  BY <1>8 DEF Model, Through
<1> QED  BY <1>1, <1>2, <1>6, <1>9

LEMMA PendPlaces ==
  ASSUME NEW X, NEW q \in Seq(X), NEW pend \in Seq(X), pend # << >>
  PROVE  /\ q \o Tail(pend) \in Seq(X) /\ Len(q \o Tail(pend)) = Len(q) + Len(pend) - 1
         /\ \A i \in 1..Len(q) : (q \o Tail(pend))[i] = q[i]
         /\ \A k \in 2..Len(pend) : (q \o Tail(pend))[k - 1 + Len(q)] = pend[k]
<1> DEFINE r == Tail(pend)
           m == Len(q)
           n == Len(pend)
<1>1. /\ r \in Seq(X) /\ Len(r) = n - 1 /\ m \in Nat /\ n \in Nat \ {0}
      /\ \A i \in 1..n - 1 : r[i] = pend[i + 1]
  OBVIOUS
<1> HIDE DEF r
<1>2. /\ q \o r \in Seq(X) /\ Len(q \o r) = m + Len(r)
      /\ \A i \in 1..m + Len(r) : (q \o r)[i] = IF i <= m THEN q[i] ELSE r[i - m]
  BY ONLY <1>1, q \in Seq(X), ConcatProperties
<1> HIDE DEF m, n
<1>3. \A i \in 1..m : (q \o r)[i] = q[i]
  BY <1>1, <1>2
<1>4. ASSUME NEW k \in 2..n PROVE (q \o r)[k - 1 + m] = pend[k]
  <2> PICK i : i = k - 1 + m
    OBVIOUS
  <2>1. i \in 1..m + Len(r) /\ ~ (i <= m) /\ i - m = k - 1 /\ k - 1 \in 1..n - 1 /\ (k - 1) + 1 = k
    BY ONLY <1>1, k \in 2..n, i = k - 1 + m
  <2>2. (q \o r)[i] = r[i - m]
    BY <1>2, <2>1
  <2> QED  BY <1>1, <2>1, <2>2
<1> QED  BY <1>1, <1>2, <1>3, <1>4 DEF r, m, n

(* A step that makes of the first task tasks or fields, or both. *)
LEMMA MirroredStep ==
  ASSUME IInv, todo # << >>, schema' = schema, NEW tasks, IsSequence(tasks), Call(tasks),
         NEW made, NEW pend, Dues(todo, pend), Repeats(made, pend),
         NEW q, Dues(tasks, q), NEW more, Mirror(more)',
         (\E j \in DOMAIN todo : j # 1 /\ todo[j].task = "leaveGroup") /\ AllMany(pend[1]) =>
           /\ \A i \in DOMAIN tasks : AllMany(q[i])
           /\ \A k \in DOMAIN fields' : \/ k \in DOMAIN fields /\ more[k] = made[k]
                                        \/ AllMany(more[k]),
         \A j \in DOMAIN tasks : tasks[j].task = "leaveGroup" /\ tasks[j].group.max > 1 =>
           /\ \A i \in DOMAIN tasks : i < j => AllMany(q[i])
           /\ \A k \in DOMAIN fields' : k > tasks[j].from => AllMany(more[k]),
         NEW s, (FlattenSeq(more) \o FlattenSeq(q)) \o FlattenSeq(Tail(pend)) = Model(s)
  PROVE  Mirrored(s, more, q \o Tail(pend))'
<1> DEFINE X == Seq(Briefs)
           r == q \o Tail(pend)
<1>1. /\ q \in Seq(X) /\ pend \in Seq(X) /\ Len(q) = Len(tasks) /\ Len(pend) = Len(todo)
  BY DEF Dues
<1>2. /\ IsSequence(todo') /\ Len(tasks) \in Nat /\ DOMAIN tasks = 1..Len(tasks) /\ 1 \in DOMAIN todo
      /\ \A i \in DOMAIN todo' :
           \/ i \in DOMAIN tasks /\ todo'[i] = tasks[i]
           \/ \E k \in DOMAIN todo : /\ k \in Nat /\ k > 1 /\ i = k - 1 + Len(tasks)
                                     /\ todo'[i] = todo[k]
  BY CallPlaces DEF IInv, Stack
<1>3. DOMAIN todo = 1..Len(todo) /\ Len(todo) \in Nat /\ Len(todo) # 0
  <2>1. PICK T : todo \in Seq(T)
    BY DEF IInv, Stack, IsSequence
  <2> QED  BY <2>1
<1>4. pend # << >>
  <2> HIDE DEF X
  <2> QED  BY <1>1, <1>3
<1>5. /\ r \in Seq(X) /\ Len(r) = Len(tasks) + Len(todo) - 1
      /\ \A i \in DOMAIN tasks : r[i] = q[i]
      /\ \A k \in DOMAIN todo : k > 1 => r[k - 1 + Len(tasks)] = pend[k]
  <2>1. /\ r \in Seq(X) /\ Len(r) = Len(q) + Len(pend) - 1
        /\ \A i \in 1..Len(q) : r[i] = q[i]
        /\ \A k \in 2..Len(pend) : r[k - 1 + Len(q)] = pend[k]
    <3> HIDE DEF X
    <3> QED  BY ONLY <1>1, <1>4, PendPlaces
  <2>2. \A k \in DOMAIN todo : k > 1 => k \in 2..Len(pend)
    BY <1>1, <1>3
  <2> HIDE DEF r, X
  <2> QED  BY <1>1, <1>2, <2>1, <2>2
<1>6. Len(todo') = Len(tasks) + Len(todo) - 1
  <2>1. IsSequence(Tail(todo)) /\ Len(Tail(todo)) = Len(todo) - 1
    <3>1. PICK T : todo \in Seq(T)
      BY DEF IInv, Stack, IsSequence
    <3> QED  BY <3>1, <1>3 DEF IsSequence
  <2>2. PICK T, U : tasks \in Seq(T) /\ Tail(todo) \in Seq(U)
    BY <2>1 DEF IsSequence
  <2> PICK u : u = Tail(todo)
    OBVIOUS
  <2>3. tasks \in Seq(T \cup U) /\ u \in Seq(T \cup U) /\ Len(u) = Len(todo) - 1 /\ todo' = tasks \o u
    BY <2>1, <2>2 DEF Call
  <2>4. Len(tasks \o u) = Len(tasks) + Len(u)
    BY ONLY <2>3, ConcatProperties
  <2> QED  BY ONLY <1>2, <1>3, <2>3, <2>4
<1> HIDE DEF r
<1>7. Dues(todo, r)'
  <2>1. \A i \in DOMAIN todo' : \E many \in BOOLEAN : r[i] = Due(todo'[i], many)
    <3> TAKE i \in DOMAIN todo'
    <3>1. CASE i \in DOMAIN tasks /\ todo'[i] = tasks[i]
      <4>1. PICK many \in BOOLEAN : q[i] = Due(tasks[i], many)
        BY <3>1 DEF Dues
      <4> QED  BY <1>5, <3>1, <4>1
    <3>2. ASSUME NEW k \in DOMAIN todo, k \in Nat, k > 1, i = k - 1 + Len(tasks), todo'[i] = todo[k]
          PROVE  \E many \in BOOLEAN : r[i] = Due(todo'[i], many)
      <4>1. PICK many \in BOOLEAN : pend[k] = Due(todo[k], many)
        BY DEF Dues
      <4> QED  BY <1>5, <3>2, <4>1
    <3> QED  BY <1>2, <3>1, <3>2
  <2>2. PICK list : list = todo'
    OBVIOUS
  <2>3. \A i \in DOMAIN list : \E many \in BOOLEAN : r[i] = Due(list[i], many)'
    <3>1. \A t, many : Due(t, many)' = Due(t, many)
      BY MeaningStays
    <3> QED  BY <2>1, <2>2, <3>1
  <2>4. (r \in Seq(Seq(Briefs)))'
    <3>1. Briefs' = Briefs
      BY MeaningStays
    <3> QED  BY <1>5, <3>1
  <2>5. Len(r) = Len(list) /\ IsSequence(list)
    BY <1>2, <1>5, <1>6, <2>2
  <2> QED  BY <2>2, <2>3, <2>4, <2>5 DEF Dues
<1>8. Repeats(more, r)'
  <2> SUFFICES ASSUME NEW j \in DOMAIN todo', todo'[j].task = "leaveGroup", todo'[j].group.max > 1
               PROVE  /\ \A i \in DOMAIN todo' : i < j => AllMany(r[i])
                      /\ \A k \in DOMAIN fields' : k > todo'[j].from => AllMany(more[k])
    BY DEF Repeats
  <2>1. CASE j \in DOMAIN tasks /\ todo'[j] = tasks[j]
    <3>1. ASSUME NEW i \in DOMAIN todo', i < j PROVE i \in DOMAIN tasks
      BY <1>2, <2>1, <3>1
    <3> QED  BY <1>5, <2>1, <3>1
  <2>2. ASSUME NEW l \in DOMAIN todo, l \in Nat, l > 1, j = l - 1 + Len(tasks), todo'[j] = todo[l]
        PROVE  /\ \A i \in DOMAIN todo' : i < j => AllMany(r[i])
               /\ \A k \in DOMAIN fields' : k > todo'[j].from => AllMany(more[k])
    <3>1. /\ \A i \in DOMAIN todo : i < l => AllMany(pend[i])
          /\ \A k \in DOMAIN fields : k > todo[l].from => AllMany(made[k])
      BY <2>2 DEF Repeats
    <3>2. AllMany(pend[1])
      BY <1>2, <2>2, <3>1
    <3>3. l # 1 /\ todo[l].task = "leaveGroup"
      BY <2>2
    <3>4. /\ \A i \in DOMAIN tasks : AllMany(q[i])
          /\ \A k \in DOMAIN fields' : \/ k \in DOMAIN fields /\ more[k] = made[k]
                                       \/ AllMany(more[k])
      BY <3>2, <3>3
    <3>5. ASSUME NEW i \in DOMAIN todo', i < j PROVE AllMany(r[i])
      <4>1. CASE i \in DOMAIN tasks
        BY <1>5, <3>4, <4>1
      <4>2. ASSUME NEW k \in DOMAIN todo, k \in Nat, k > 1, i = k - 1 + Len(tasks)
            PROVE  AllMany(r[i])
        <5>1. k < l
          BY <1>2, <2>2, <3>5, <4>2
        <5> QED  BY <1>5, <3>1, <4>2, <5>1
      <4> QED  BY <1>2, <4>1, <4>2
    <3>6. ASSUME NEW k \in DOMAIN fields', k > todo'[j].from PROVE AllMany(more[k])
      BY <2>2, <3>1, <3>4, <3>6
    <3> QED  BY <3>5, <3>6
  <2> QED  BY <1>2, <2>1, <2>2
<1>9. (FlattenSeq(more) \o FlattenSeq(r) = Model(s))'
  <2>1. Mirror(more)' => more \in Seq(Seq(Briefs))
    <3>1. Briefs' = Briefs
      BY MeaningStays
    <3> QED  BY <3>1 DEF Mirror
  <2>2. /\ FlattenSeq(r) = FlattenSeq(q) \o FlattenSeq(Tail(pend))
        /\ FlattenSeq(q) \in Seq(Briefs) /\ FlattenSeq(Tail(pend)) \in Seq(Briefs)
    <3>1. q \in Seq(Seq(Briefs)) /\ pend \in Seq(Seq(Briefs))
      BY <1>1
    <3> QED  BY ONLY <1>4, <3>1, FlatOfHead DEF r
  <2>3. FlattenSeq(more) \in Seq(Briefs)
    BY <2>1, FlatType
  <2>4. PICK a, b, c : a = FlattenSeq(more) /\ b = FlattenSeq(q) /\ c = FlattenSeq(Tail(pend))
    OBVIOUS
  <2>5. a \o (b \o c) = (a \o b) \o c
    <3>1. PICK B : B = Briefs
      OBVIOUS
    <3>2. a \in Seq(B) /\ b \in Seq(B) /\ c \in Seq(B)
      BY <2>2, <2>3, <2>4, <3>1
    <3> QED  BY ONLY <3>2, ConcatAssociative
  <2>6. FlattenSeq(more) \o FlattenSeq(r) = Model(s)
    BY <2>2, <2>4, <2>5
  <2>7. Model(s)' = Model(s)
    BY MeaningStays
  <2> QED  BY <2>6, <2>7
<1> QED  BY <1>7, <1>8, <1>9 DEF Mirrored, r

-----------------------------------------------------------------------------
(* What lists of tasks give *)

Gives(list, briefs) == briefs \in Seq(Briefs) /\ \E p : Dues(list, p) /\ FlattenSeq(p) = briefs

LEMMA GivesNothing ==
  ASSUME NEW list, NEW K, OfKinds(list, K), "particle" \notin K
  PROVE  Gives(list, << >>)
<1>1. PICK T : list \in Seq(T)
  BY DEF OfKinds, IsSequence
<1>2. Len(list) \in Nat /\ DOMAIN list = 1..Len(list)
  BY <1>1
<1> DEFINE n == Len(list)
           p == [i \in 1..n |-> << >>]
<1>3. p \in Seq(Seq(Briefs)) /\ Len(p) = n /\ FlattenSeq(p) = << >>
  <2> HIDE DEF n
  <2> QED  BY <1>2, FlatOfEmpties DEF n
<1>4. \A i \in DOMAIN list : p[i] = Due(list[i], FALSE)
  BY <1>2 DEF OfKinds, Due
<1> HIDE DEF p
<1>5. Dues(list, p)
  BY <1>3, <1>4 DEF Dues, OfKinds
<1> QED  BY <1>3, <1>5 DEF Gives

(* What two lists give together. *)
Together(a, b, p, q) == Dues(a \o b, p \o q) /\ FlattenSeq(p \o q) = FlattenSeq(p) \o FlattenSeq(q)

LEMMA DuesConcat ==
  ASSUME NEW a, NEW b, NEW p, NEW q, Dues(a, p), Dues(b, q)
  PROVE  Together(a, b, p, q)
<1> DEFINE X == Seq(Briefs)
<1>1. /\ IsSequence(a) /\ IsSequence(b) /\ p \in Seq(X) /\ q \in Seq(X)
      /\ Len(p) = Len(a) /\ Len(q) = Len(b)
      /\ \A i \in DOMAIN a : \E many \in BOOLEAN : p[i] = Due(a[i], many)
      /\ \A i \in DOMAIN b : \E many \in BOOLEAN : q[i] = Due(b[i], many)
  BY DEF Dues
<1>2. FlattenSeq(p \o q) = FlattenSeq(p) \o FlattenSeq(q)
  BY <1>1, FlatOfConcat
<1> HIDE DEF X
<1>3. /\ IsSequence(a \o b)
      /\ DOMAIN a = 1..Len(a) /\ DOMAIN b = 1..Len(b) /\ Len(a) \in Nat /\ Len(b) \in Nat
  BY ONLY <1>1, ConcatIsSequence
<1>4. /\ p \o q \in Seq(X) /\ Len(p \o q) = Len(p) + Len(q)
      /\ \A i \in 1..Len(p) + Len(q) : (p \o q)[i] = IF i <= Len(p) THEN p[i] ELSE q[i - Len(p)]
  <2>1. p \in Seq(X) /\ q \in Seq(X)
    BY <1>1
  <2> QED  BY ONLY <2>1, ConcatProperties
<1>5. Len(a \o b) = Len(a) + Len(b) /\ DOMAIN (a \o b) = 1..Len(a) + Len(b)
  <2>1. PICK A, B : a \in Seq(A) /\ b \in Seq(B)
    BY <1>1 DEF IsSequence
  <2>2. a \in Seq(A \cup B) /\ b \in Seq(A \cup B)
    BY <2>1
  <2>3. a \o b \in Seq(A \cup B) /\ Len(a \o b) = Len(a) + Len(b)
    BY ONLY <2>2, ConcatProperties
  <2> PICK c : c = a \o b
    OBVIOUS
  <2>4. DOMAIN c = 1..Len(c)
    BY <2>3
  <2> QED  BY <2>3, <2>4
<1>6. ASSUME NEW i \in DOMAIN (a \o b) PROVE \E many \in BOOLEAN : (p \o q)[i] = Due((a \o b)[i], many)
  <2>1. \/ i \in DOMAIN a /\ (a \o b)[i] = a[i]
        \/ i - Len(a) \in DOMAIN b /\ i \notin DOMAIN a /\ (a \o b)[i] = b[i - Len(a)]
    BY <1>1, ConcatMembers
  <2>2. CASE i \in DOMAIN a /\ (a \o b)[i] = a[i]
    <3>1. (p \o q)[i] = p[i]
      BY <1>1, <1>3, <1>4, <2>2
    <3> QED  BY <1>1, <2>2, <3>1
  <2>3. CASE i - Len(a) \in DOMAIN b /\ i \notin DOMAIN a /\ (a \o b)[i] = b[i - Len(a)]
    <3>1. (p \o q)[i] = q[i - Len(a)]
      BY <1>1, <1>3, <1>4, <1>5, <1>6, <2>3
    <3>2. PICK many \in BOOLEAN : q[i - Len(a)] = Due(b[i - Len(a)], many)
      BY <1>1, <2>3
    <3> QED  BY <2>3, <3>1, <3>2
  <2> QED  BY <2>1, <2>2, <2>3
<1>7. Dues(a \o b, p \o q)
  BY <1>1, <1>3, <1>4, <1>5, <1>6 DEF Dues, X
<1> QED  BY <1>2, <1>7 DEF Together

LEMMA GivesConcat ==
  ASSUME NEW a, NEW b, NEW x, NEW y, Gives(a, x), Gives(b, y)
  PROVE  Gives(a \o b, x \o y)
<1>1. PICK p, q : Dues(a, p) /\ FlattenSeq(p) = x /\ Dues(b, q) /\ FlattenSeq(q) = y
  BY DEF Gives
<1>2. Dues(a \o b, p \o q) /\ FlattenSeq(p \o q) = x \o y
  <2>1. Dues(a, p) /\ Dues(b, q)
    BY <1>1
  <2>2. Dues(a \o b, p \o q) /\ FlattenSeq(p \o q) = FlattenSeq(p) \o FlattenSeq(q)
    <3>1. Together(a, b, p, q)
      BY ONLY <2>1, DuesConcat
    <3> QED  BY ONLY <3>1 DEF Together
  <2>3. FlattenSeq(p) = x /\ FlattenSeq(q) = y
    BY <1>1
  <2> QED  BY ONLY <2>2, <2>3
<1>3. x \o y \in Seq(Briefs)
  <2>1. PICK B : B = Briefs
    OBVIOUS
  <2>2. x \in Seq(B) /\ y \in Seq(B)
    BY <2>1 DEF Gives
  <2>3. x \o y \in Seq(B)
    BY ONLY <2>2, ConcatProperties
  <2> QED  BY <2>1, <2>3
<1> QED  BY <1>2, <1>3 DEF Gives

LEMMA ParticleDues ==
  ASSUME IsSchema(schema), Fit, NEW nodes \in Seq(Node), NEW ns \in Namespace,
         NEW inChoice \in BOOLEAN, NEW many \in BOOLEAN
  PROVE  Dues(ParticleTasks(nodes, ns, inChoice), PartsOf(nodes, ns, inChoice, many))
<1> DEFINE p == PartsOf(nodes, ns, inChoice, many)
           l == ParticleTasks(nodes, ns, inChoice)
<1>1. /\ p \in Seq(Seq(Briefs)) /\ Len(p) = Len(nodes)
      /\ \A i \in DOMAIN nodes : p[i] = Through(BriefOf(ns, inChoice, many), Leaves[nodes[i]])
  <2> HIDE DEF Node
  <2> QED  BY PartsType
<1>2. IsSequence(l)
  <2>1. IsSequence(nodes)
    BY DEF IsSequence
  <2> QED  BY <2>1, ParticleKinds DEF OfKinds
<1>3. DOMAIN l = DOMAIN nodes /\ \A i \in DOMAIN nodes :
        l[i] = [task |-> "particle", node |-> nodes[i], ns |-> ns, inChoice |-> inChoice]
  BY DEF ParticleTasks
<1> HIDE DEF p, l
<1>4. Len(l) = Len(nodes)
  <2>1. PICK T : l \in Seq(T)
    BY <1>2 DEF IsSequence
  <2> HIDE DEF Node
  <2>2. DOMAIN l = 1..Len(l) /\ DOMAIN nodes = 1..Len(nodes) /\ Len(l) \in Nat /\ Len(nodes) \in Nat
    BY <2>1
  <2>3. PICK m, n : m = Len(l) /\ n = Len(nodes)
    OBVIOUS
  <2>4. m \in Nat /\ n \in Nat /\ 1..m = 1..n
    <3>1. DOMAIN l = DOMAIN nodes
      BY <1>3
    <3> QED  BY <2>2, <2>3, <3>1, Zenon
  <2>5. m = n
    BY ONLY <2>4
  <2> QED  BY <2>3, <2>5
<1>5. \A i \in DOMAIN l : p[i] = Due(l[i], many)
  <2> TAKE i \in DOMAIN l
  <2> PICK t : t = l[i]
    OBVIOUS
  <2>1. i \in DOMAIN nodes /\ t = [task |-> "particle", node |-> nodes[i], ns |-> ns, inChoice |-> inChoice]
    BY <1>3
  <2>2. t.task = "particle" /\ t.node = nodes[i] /\ t.ns = ns /\ t.inChoice = inChoice
    BY ONLY <2>1
  <2>3. Due(t, many) = Through(BriefOf(ns, inChoice, many), Leaves[nodes[i]])
    BY ONLY <2>2 DEF Due
  <2> QED  BY <1>1, <2>1, <2>3
<1> QED  BY <1>1, <1>2, <1>4, <1>5 DEF Dues, p, l

(* A type gives what it has itself; its base is a task of its own. *)
LEMMA OwnGives ==
  ASSUME IsSchema(schema), Fit, NEW type \in Types
  PROVE  Gives(OwnTasks(type), OwnBriefs(type))
<1> DEFINE particles == IF SimpleContent(type) THEN << >> ELSE ParticleTasks(type.content, type.ns, FALSE)
           attributes == AttributeTasks(type.attributes, type.ns)
           groups == AttributeGroupTasks(type.attributeGroups, type.ns)
           any == AnyAttributeTasks(type.any, type.ns)
           own == OwnBriefs(type)
<1>1. /\ type.ns \in Namespace /\ type.content \in Seq(Node)
      /\ IsSequence(type.attributes) /\ IsSequence(type.attributeGroups) /\ type.any \in Nat
  BY TypeParts DEF IsSequence, Node
<1>2. own \in Seq(Briefs)
  BY OwnBriefsType
<1>3. Gives(particles, own)
  <2>1. CASE SimpleContent(type)
    <3>1. particles = << >> /\ own = << >>
      BY <2>1 DEF OwnBriefs
    <3>2. OfKinds(<< >>, {})
      BY NoTasks DEF OfKinds, Tasks
    <3> HIDE DEF particles, own
    <3> QED  BY <3>1, <3>2, GivesNothing
  <2>2. CASE ~ SimpleContent(type)
    <3> DEFINE p == PartsOf(type.content, type.ns, FALSE, FALSE)
    <3> HIDE DEF Node
    <3>1. Dues(ParticleTasks(type.content, type.ns, FALSE), p)
      BY <1>1, ParticleDues
    <3>2. FlattenSeq(p) = Through(BriefOf(type.ns, FALSE, FALSE), Below(type.content))
      BY <1>1, PartsType
    <3>3. FlattenSeq(p) = own
      BY <2>2, <3>2 DEF OwnBriefs
    <3> QED  BY <1>2, <2>2, <3>1, <3>3 DEF Gives
  <2> QED  BY <2>1, <2>2
<1>4. Gives(attributes, << >>) /\ Gives(groups, << >>) /\ Gives(any, << >>)
  <2>1. /\ OfKinds(attributes, AttributeKinds) /\ OfKinds(groups, AttributeKinds) /\ OfKinds(any, AttributeKinds)
        /\ "particle" \notin AttributeKinds
    BY <1>1, AttributesKinds DEF AttributeKinds
  <2> HIDE DEF attributes, groups, any
  <2> QED  BY <2>1, GivesNothing
<1>5. PICK e : e = << >>
  OBVIOUS
<1>6. own \o e = own
  BY <1>2, <1>5, ConcatEmptySeq
<1> HIDE DEF particles, attributes, groups, any, own
<1>7. Gives(particles \o attributes \o groups \o any, own \o e \o e \o e)
  <2>1. Gives(particles \o attributes, own \o e)
    BY <1>3, <1>4, <1>5, GivesConcat
  <2>2. Gives((particles \o attributes) \o groups, (own \o e) \o e)
    BY <1>4, <1>5, <2>1, GivesConcat
  <2>3. Gives(((particles \o attributes) \o groups) \o any, ((own \o e) \o e) \o e)
    BY <1>4, <1>5, <2>2, GivesConcat
  <2> QED  BY <2>3
<1> QED  BY <1>6, <1>7 DEF OwnTasks, particles, attributes, groups, any, own

LEMMA EnterGives ==
  ASSUME IsSchema(schema), Fit, NEW type \in Types
  PROVE  Gives(EnterTasks(type), OwnBriefs(type))
<1> DEFINE leave == <<[task |-> "leaveType", name |-> type.name]>>
           base == IF HasBase(type) THEN <<TypeTask(ComplexType(type.base))>> ELSE << >>
           own == OwnTasks(type)
           content == ContentTasks(type)
           b == OwnBriefs(type)
<1>1. EnterTasks(type) = base \o own \o content \o leave
  BY EnterParts
<1>2. OfKinds(leave, {"leaveType"}) /\ OfKinds(content, {"content"}) /\ OfKinds(base, {"type"})
  BY EnterParts
<1>3. b \in Seq(Briefs) /\ Gives(own, b)
  BY OwnBriefsType, OwnGives
<1>4. PICK e : e = << >>
  OBVIOUS
<1>5. b \o e = b /\ e \o b = b
  BY <1>3, <1>4, ConcatEmptySeq
<1> HIDE DEF leave, base, own, content, b
<1>6. Gives(leave, e) /\ Gives(content, e) /\ Gives(base, e)
  BY <1>2, <1>4, GivesNothing
<1>7. Gives(base \o own \o content \o leave, ((e \o b) \o e) \o e)
  <2>1. Gives(base \o own, e \o b)
    BY <1>3, <1>6, GivesConcat
  <2>2. Gives((base \o own) \o content, (e \o b) \o e)
    BY <1>6, <2>1, GivesConcat
  <2>3. Gives(((base \o own) \o content) \o leave, ((e \o b) \o e) \o e)
    BY <1>6, <2>2, GivesConcat
  <2> QED  BY <2>3
<1> QED  BY <1>1, <1>5, <1>7 DEF b

-----------------------------------------------------------------------------
(* What a step leaves *)

LEMMA HeadPend ==
  ASSUME IInv, todo # << >>, NEW pend, Dues(todo, pend)
  PROVE  /\ 1 \in DOMAIN todo /\ Head(todo) = todo[1] /\ IsTask(Head(todo))
         /\ \E many \in BOOLEAN : pend[1] = Due(Head(todo), many)
         /\ pend[1] \in Seq(Briefs) /\ FlattenSeq(Tail(pend)) \in Seq(Briefs)
         /\ FlattenSeq(pend) = pend[1] \o FlattenSeq(Tail(pend))
<1>1. 1 \in DOMAIN todo /\ Head(todo) = todo[1] /\ IsTask(Head(todo))
  BY TailIsSequence, HeadIsTask DEF IInv, Stack
<1>2. \E many \in BOOLEAN : pend[1] = Due(Head(todo), many)
  BY <1>1 DEF Dues
<1>3. pend \in Seq(Seq(Briefs)) /\ Len(pend) = Len(todo)
  BY DEF Dues
<1>4. pend # << >>
  <2>1. PICK T : todo \in Seq(T)
    BY DEF IInv, Stack, IsSequence
  <2>2. Len(todo) # 0
    BY <2>1
  <2> QED  BY <1>3, <2>2
<1> PICK e : e = << >>
  OBVIOUS
<1>5. << >> \in Seq(Seq(Briefs))
  OBVIOUS
<1>6. /\ pend[1] \in Seq(Briefs) /\ FlattenSeq(Tail(pend)) \in Seq(Briefs)
      /\ FlattenSeq(pend) = pend[1] \o FlattenSeq(Tail(pend))
  BY ONLY <1>3, <1>4, <1>5, FlatOfHead
<1> QED  BY <1>1, <1>2, <1>6

(* More fields and tasks for the fields there were and the first task. *)
Replaces(more, q, made, pend) == FlattenSeq(more) \o FlattenSeq(q) = FlattenSeq(made) \o pend[1]
Completes(more, q, pend, s) == (FlattenSeq(more) \o FlattenSeq(q)) \o FlattenSeq(Tail(pend)) = Model(s)

LEMMA RestStays ==
  ASSUME IInv, todo # << >>, NEW s, NEW made, NEW pend, Mirrored(s, made, pend),
         NEW more, NEW q, Replaces(more, q, made, pend)
  PROVE  Completes(more, q, pend, s)
<1>1. /\ pend[1] \in Seq(Briefs) /\ FlattenSeq(Tail(pend)) \in Seq(Briefs)
      /\ FlattenSeq(pend) = pend[1] \o FlattenSeq(Tail(pend))
  <2>1. Dues(todo, pend)
    BY DEF Mirrored
  <2> QED  BY <2>1, HeadPend
<1>2. FlattenSeq(made) \in Seq(Briefs)
  <2>1. made \in Seq(Seq(Briefs))
    BY DEF Mirrored, Mirror
  <2> QED  BY <2>1, FlatType
<1>3. PICK B, a, b, c : B = Briefs /\ a = FlattenSeq(made) /\ b = pend[1] /\ c = FlattenSeq(Tail(pend))
  OBVIOUS
<1>4. a \in Seq(B) /\ b \in Seq(B) /\ c \in Seq(B)
  BY <1>1, <1>2, <1>3
<1>5. a \o (b \o c) = (a \o b) \o c
  BY ONLY <1>4, ConcatAssociative
<1>6. a \o (b \o c) = Model(s)
  BY <1>1, <1>3 DEF Mirrored
<1> QED  BY <1>3, <1>5, <1>6 DEF Replaces, Completes

LEMMA MirrorStays ==
  ASSUME NEW made, Mirror(made), fields' = fields, schema' = schema
  PROVE  Mirror(made)'
<1>1. Briefs' = Briefs
  BY MeaningStays
<1> QED  BY <1>1 DEF Mirror

(* What a field was to be. *)
Part(f, part) ==
  IF f.kind \in ElementKinds THEN \E b \in Briefs : part = <<b>> /\ Mirrors(f, b) ELSE part = << >>

(* One field more, and what it was to be. *)
Added(r, made, part) ==
  /\ FlattenSeq(r) = FlattenSeq(made) \o part
  /\ \A k \in DOMAIN fields' : (k \in DOMAIN fields /\ r[k] = made[k]) \/ r[k] = part

LEMMA MirrorAdds ==
  ASSUME Fields, schema' = schema, NEW made, Mirror(made), NEW f, fields' = Append(fields, f),
         NEW part, Part(f, part), NEW r, r = Append(made, part)
  PROVE  Mirror(r)' /\ Added(r, made, part)
<1> DEFINE X == Seq(Briefs)
<1>1. part \in X
  <2>1. ASSUME NEW b \in Briefs PROVE <<b>> \in X
    BY <2>1
  <2>2. << >> \in X
    OBVIOUS
  <2> HIDE DEF X
  <2> QED  BY <2>1, <2>2 DEF Part
<1>2. PICK S : fields \in Seq(S)
  BY DEF Fields, IsSequence
<1>3. made \in Seq(X) /\ Len(made) = Len(fields)
  BY DEF Mirror
<1> HIDE DEF X
<1>4. /\ DOMAIN fields' = 1..Len(fields) + 1 /\ DOMAIN fields = 1..Len(fields) /\ Len(fields) \in Nat
      /\ fields'[Len(fields) + 1] = f /\ Len(fields') = Len(fields) + 1
      /\ \A k \in 1..Len(fields) : fields'[k] = fields[k]
  BY <1>2
<1>5. /\ r \in Seq(X) /\ Len(r) = Len(fields) + 1 /\ r[Len(fields) + 1] = part
      /\ \A k \in 1..Len(fields) : r[k] = made[k]
  BY <1>1, <1>3
<1>6. \A k \in DOMAIN fields' : \/ k \in DOMAIN fields /\ k \in 1..Len(fields)
                                \/ k = Len(fields) + 1
  BY <1>4
<1>7. Mirror(r)'
  <2>1. \A k \in DOMAIN fields' : Part(fields'[k], r[k])
    <3> TAKE k \in DOMAIN fields'
    <3>1. CASE k \in DOMAIN fields /\ k \in 1..Len(fields)
      <4>1. Part(fields[k], made[k])
        BY <3>1 DEF Mirror, Part
      <4> QED  BY <1>4, <1>5, <3>1, <4>1
    <3>2. CASE k = Len(fields) + 1
      BY <1>4, <1>5, <3>2
    <3> QED  BY <1>6, <3>1, <3>2
  <2>2. Briefs' = Briefs
    BY MeaningStays
  <2> QED  BY <1>4, <1>5, <2>1, <2>2 DEF Mirror, Part, X
<1>8. FlattenSeq(r) = FlattenSeq(made) \o part
  <2>1. made \in Seq(Seq(Briefs)) /\ part \in Seq(Briefs)
    BY <1>1, <1>3 DEF X
  <2>2. FlattenSeq(Append(made, part)) = FlattenSeq(made) \o part
    BY ONLY <2>1, FlatOfOneMore
  <2> QED  BY <2>2
<1>9. \A k \in DOMAIN fields' : \/ k \in DOMAIN fields /\ r[k] = made[k]
                                \/ k = Len(fields) + 1 /\ r[k] = part
  BY <1>5, <1>6
<1> QED  BY <1>7, <1>8, <1>9 DEF Added

(* An empty list taken out of some. *)
LEMMA FlatWithout ==
  ASSUME NEW S, NEW ss \in Seq(Seq(S)), NEW at \in DOMAIN ss, ss[at] = << >>
  PROVE  FlattenSeq(Without(ss, at)) = FlattenSeq(ss)
<1> DEFINE X == Seq(S)
           n == Len(ss)
           a == [i \in 1..at - 1 |-> ss[i]]
           b == [i \in 1..n - at |-> ss[at + i]]
           o == <<ss[at]>>
           w == Without(ss, at)
<1>1. ss \in Seq(X) /\ n \in Nat /\ at \in 1..n /\ DOMAIN ss = 1..n
  OBVIOUS
<1> HIDE DEF X, n
<1>2. /\ at - 1 \in Nat /\ n - at \in Nat /\ \A i \in 1..n : ss[i] \in X
      /\ \A i \in 1..at - 1 : i \in 1..n
      /\ \A i \in 1..n - at : at + i \in 1..n
  BY <1>1
<1>3. a \in Seq(X) /\ Len(a) = at - 1 /\ \A i \in 1..at - 1 : a[i] = ss[i]
  <2>1. a \in [1..at - 1 -> X] /\ \A i \in 1..at - 1 : a[i] = ss[i]
    BY <1>2
  <2> HIDE DEF a
  <2>2. PICK m : m = at - 1
    OBVIOUS
  <2>3. m \in Nat /\ a \in [1..m -> X]
    BY <1>2, <2>1, <2>2
  <2>4. a \in Seq(X) /\ Len(a) = m
    BY ONLY <2>3
  <2> QED  BY <2>1, <2>2, <2>4
<1>4. b \in Seq(X) /\ Len(b) = n - at /\ \A i \in 1..n - at : b[i] = ss[at + i]
  <2>1. b \in [1..n - at -> X] /\ \A i \in 1..n - at : b[i] = ss[at + i]
    BY <1>2
  <2> HIDE DEF b
  <2>2. PICK m : m = n - at
    OBVIOUS
  <2>3. m \in Nat /\ b \in [1..m -> X]
    BY <1>2, <2>1, <2>2
  <2>4. b \in Seq(X) /\ Len(b) = m
    BY ONLY <2>3
  <2> QED  BY <2>1, <2>2, <2>4
<1>5. o \in Seq(X) /\ Len(o) = 1 /\ o[1] = ss[at]
  BY <1>1, <1>2
<1>6. w \in Seq(X) /\ Len(w) = n - 1 /\ \A i \in 1..n - 1 : w[i] = IF i < at THEN ss[i] ELSE ss[i + 1]
  <2>1. ss \in Seq(X) /\ at \in DOMAIN ss /\ Len(ss) = n
    BY <1>1 DEF n
  <2> HIDE DEF w
  <2>2. /\ Without(ss, at) \in Seq(X) /\ Len(Without(ss, at)) = Len(ss) - 1
        /\ \A i \in 1..Len(ss) - 1 : Without(ss, at)[i] = IF i < at THEN ss[i] ELSE ss[i + 1]
    BY <2>1, WithoutHolds
  <2> QED  BY <2>1, <2>2 DEF w
<1> HIDE DEF a, b, o, w
<1>7. /\ a \o b \in Seq(X) /\ Len(a \o b) = n - 1
      /\ \A i \in 1..n - 1 : (a \o b)[i] = IF i <= at - 1 THEN a[i] ELSE b[i - (at - 1)]
  <2>1. a \in Seq(X) /\ b \in Seq(X)
    BY <1>3, <1>4
  <2>2. /\ a \o b \in Seq(X) /\ Len(a \o b) = Len(a) + Len(b)
        /\ \A i \in 1..Len(a) + Len(b) : (a \o b)[i] = IF i <= Len(a) THEN a[i] ELSE b[i - Len(a)]
    BY ONLY <2>1, ConcatProperties
  <2>3. Len(a) + Len(b) = n - 1
    BY <1>1, <1>3, <1>4
  <2> QED  BY <1>3, <2>2, <2>3
<1>8. w = a \o b
  <2>1. ASSUME NEW i \in 1..n - 1 PROVE w[i] = (a \o b)[i]
    <3>1. CASE i < at
      <4>1. i \in 1..at - 1 /\ i <= at - 1
        BY <1>1, <3>1
      <4> QED  BY <1>3, <1>6, <1>7, <3>1, <4>1
    <3>2. CASE ~ (i < at)
      <4>1. ~ (i <= at - 1) /\ i - (at - 1) \in 1..n - at /\ at + (i - (at - 1)) = i + 1
        BY <1>1, <3>2
      <4> QED  BY <1>4, <1>6, <1>7, <3>2, <4>1
    <3> QED  BY <3>1, <3>2
  <2>2. PICK c : c = a \o b
    OBVIOUS
  <2>3. c \in Seq(X) /\ w \in Seq(X) /\ Len(w) = Len(c) /\ \A i \in 1..Len(w) : w[i] = c[i]
    BY <1>6, <1>7, <2>1, <2>2
  <2>4. w = c
    BY ONLY <2>3, SameLists
  <2> QED  BY <2>2, <2>4
<1>9. /\ o \o b \in Seq(X) /\ Len(o \o b) = (n - at) + 1
      /\ \A i \in 1..(n - at) + 1 : (o \o b)[i] = ss[(at - 1) + i]
  <2>1. o \in Seq(X) /\ b \in Seq(X)
    BY <1>4, <1>5
  <2>2. /\ o \o b \in Seq(X) /\ Len(o \o b) = Len(o) + Len(b)
        /\ \A i \in 1..Len(o) + Len(b) : (o \o b)[i] = IF i <= Len(o) THEN o[i] ELSE b[i - Len(o)]
    BY ONLY <2>1, ConcatProperties
  <2>3. Len(o) + Len(b) = (n - at) + 1 /\ Len(o) = 1
    BY <1>1, <1>4, <1>5
  <2>4. ASSUME NEW i \in 1..(n - at) + 1 PROVE (o \o b)[i] = ss[(at - 1) + i]
    <3>1. CASE i = 1
      <4>1. i <= Len(o) /\ (at - 1) + i = at
        BY <1>1, <2>3, <3>1
      <4> QED  BY <1>5, <2>2, <2>3, <3>1, <4>1
    <3>2. CASE i # 1
      <4>1. ~ (i <= Len(o)) /\ i - Len(o) \in 1..n - at /\ at + (i - Len(o)) = (at - 1) + i
        BY <1>1, <2>3, <3>2
      <4> QED  BY <1>4, <2>2, <2>3, <4>1
    <3> QED  BY <3>1, <3>2
  <2> QED  BY <2>2, <2>3, <2>4
<1> PICK r : r = o \o b
  OBVIOUS
<1>10. ss = a \o r
  <2>1. a \in Seq(X) /\ r \in Seq(X)
    BY <1>3, <1>9
  <2>2. /\ a \o r \in Seq(X) /\ Len(a \o r) = Len(a) + Len(r)
        /\ \A i \in 1..Len(a) + Len(r) : (a \o r)[i] = IF i <= Len(a) THEN a[i] ELSE r[i - Len(a)]
    BY ONLY <2>1, ConcatProperties
  <2>3. Len(a) + Len(r) = n
    BY <1>1, <1>3, <1>9
  <2>4. ASSUME NEW i \in 1..n PROVE ss[i] = (a \o r)[i]
    <3>1. CASE i <= at - 1
      <4>1. i \in 1..at - 1
        BY <1>1, <3>1
      <4> QED  BY <1>3, <2>2, <2>3, <3>1, <4>1
    <3>2. CASE ~ (i <= at - 1)
      <4>1. i - (at - 1) \in 1..(n - at) + 1 /\ (at - 1) + (i - (at - 1)) = i
        BY <1>1, <3>2
      <4> QED  BY <1>3, <1>9, <2>2, <2>3, <3>2, <4>1
    <3> QED  BY <3>1, <3>2
  <2>5. PICK c : c = a \o r
    OBVIOUS
  <2>6. c \in Seq(X) /\ ss \in Seq(X) /\ Len(ss) = Len(c) /\ \A i \in 1..Len(ss) : ss[i] = c[i]
    BY <1>1, <2>2, <2>3, <2>4, <2>5 DEF n
  <2>7. ss = c
    BY ONLY <2>6, SameLists
  <2> QED  BY <2>5, <2>7
<1>11. a \in Seq(Seq(S)) /\ b \in Seq(Seq(S)) /\ o \in Seq(Seq(S)) /\ r \in Seq(Seq(S)) /\ << >> \in Seq(S)
  BY <1>3, <1>4, <1>5, <1>9 DEF X
<1>12. /\ FlattenSeq(a \o b) = FlattenSeq(a) \o FlattenSeq(b) /\ FlattenSeq(a \o r) = FlattenSeq(a) \o FlattenSeq(r)
       /\ FlattenSeq(o \o b) = FlattenSeq(o) \o FlattenSeq(b)
  BY ONLY <1>11, FlatOfConcat
<1>13. FlattenSeq(o) = << >>
  <2>1. PICK e : e = << >>
    OBVIOUS
  <2>2. e \in Seq(S) /\ o = <<e>>
    BY <1>11, <2>1 DEF o
  <2>3. FlattenSeq(<<e>>) = e
    BY ONLY <2>2, FlatOfOne
  <2> QED  BY <2>1, <2>2, <2>3
<1>14. << >> \o FlattenSeq(b) = FlattenSeq(b)
  <2>1. FlattenSeq(b) \in Seq(S)
    BY ONLY <1>11, FlatType
  <2> QED  BY ONLY <2>1, ConcatEmptySeq
<1>15. FlattenSeq(r) = FlattenSeq(b)
  BY <1>12, <1>13, <1>14
<1> QED  BY <1>8, <1>10, <1>12, <1>15 DEF w

-----------------------------------------------------------------------------
(* Steps that make no elements *)

LEMMA MirrorMoves ==
  ASSUME Fields, schema' = schema, NEW made, Mirror(made), NEW p \in DOMAIN fields, NEW f,
         fields[p].kind \notin ElementKinds, f.kind \notin ElementKinds,
         fields' = Append(Without(fields, p), f)
  PROVE  \E more : Mirror(more)' /\ FlattenSeq(more) = FlattenSeq(made)
<1> DEFINE X == Seq(Briefs)
           r == Without(fields, p)
           w == Without(made, p)
           more == Append(w, << >>)
<1>1. PICK S : fields \in Seq(S)
  BY DEF Fields, IsSequence
<1>2. made \in Seq(X) /\ Len(made) = Len(fields) /\ << >> \in X /\ made[p] = << >>
  BY DEF Mirror
<1> HIDE DEF X
<1>3. DOMAIN fields = 1..Len(fields) /\ Len(fields) \in Nat /\ p \in DOMAIN made
  BY <1>1, <1>2
<1> PICK n : n = Len(fields)
  OBVIOUS
<1>4. /\ r \in Seq(S) /\ Len(r) = n - 1
      /\ \A i \in 1..n - 1 : r[i] = IF i < p THEN fields[i] ELSE fields[i + 1]
  <2>1. fields \in Seq(S) /\ p \in DOMAIN fields
    BY <1>1
  <2>2. /\ Without(fields, p) \in Seq(S) /\ Len(Without(fields, p)) = Len(fields) - 1
        /\ \A i \in 1..Len(fields) - 1 : Without(fields, p)[i] = IF i < p THEN fields[i] ELSE fields[i + 1]
    BY ONLY <2>1, WithoutHolds
  <2> QED  BY <1>2, <2>2
<1>5. /\ w \in Seq(X) /\ Len(w) = n - 1
      /\ \A i \in 1..n - 1 : w[i] = IF i < p THEN made[i] ELSE made[i + 1]
  <2>1. made \in Seq(X) /\ p \in DOMAIN made
    BY <1>2, <1>3
  <2>2. /\ Without(made, p) \in Seq(X) /\ Len(Without(made, p)) = Len(made) - 1
        /\ \A i \in 1..Len(made) - 1 : Without(made, p)[i] = IF i < p THEN made[i] ELSE made[i + 1]
    BY ONLY <2>1, WithoutHolds
  <2> QED  BY <1>2, <2>2
<1>6. FlattenSeq(w) = FlattenSeq(made)
  <2>1. made \in Seq(Seq(Briefs)) /\ p \in DOMAIN made /\ made[p] = << >>
    BY <1>2, <1>3 DEF X
  <2> QED  BY <2>1, FlatWithout
<1> HIDE DEF r, w
<1>7. n \in Nat \ {0}
  BY <1>3
<1>8. /\ DOMAIN fields' = 1..n /\ Len(fields') = n /\ fields'[n] = f
      /\ \A i \in 1..n - 1 : fields'[i] = r[i]
  <2>1. fields' = Append(r, f)
    BY DEF r
  <2> QED  BY <1>4, <1>7, <2>1
<1>9. /\ more \in Seq(X) /\ Len(more) = n /\ more[n] = << >>
      /\ \A i \in 1..n - 1 : more[i] = w[i]
  BY <1>2, <1>5, <1>7
<1>10. FlattenSeq(more) = FlattenSeq(made)
  <2>1. w \in Seq(Seq(Briefs)) /\ << >> \in Seq(Briefs)
    BY <1>2, <1>5 DEF X
  <2>2. FlattenSeq(Append(w, << >>)) = FlattenSeq(w) \o << >>
    BY ONLY <2>1, FlatOfOneMore
  <2>3. FlattenSeq(w) \o << >> = FlattenSeq(w)
    <3>1. FlattenSeq(w) \in Seq(Briefs)
      BY ONLY <2>1, FlatType
    <3> QED  BY ONLY <3>1, ConcatEmptySeq
  <2> QED  BY <1>6, <2>2, <2>3
<1> HIDE DEF more
<1>11. \A k \in DOMAIN fields : Part(fields[k], made[k])
  BY DEF Mirror, Part
<1>12. \A k \in DOMAIN fields' : Part(fields'[k], more[k])
  <2> TAKE k \in DOMAIN fields'
  <2>1. CASE k = n
    BY <1>8, <1>9, <2>1 DEF Part
  <2>2. CASE k # n
    <3>1. k \in 1..n - 1 /\ k \in DOMAIN fields /\ k + 1 \in DOMAIN fields
      BY <1>3, <1>8, <2>2
    <3>2. \/ fields'[k] = fields[k] /\ more[k] = made[k]
          \/ fields'[k] = fields[k + 1] /\ more[k] = made[k + 1]
      BY <1>4, <1>5, <1>8, <1>9, <3>1
    <3> QED  BY <1>11, <3>1, <3>2
  <2> QED  BY <2>1, <2>2
<1>13. Mirror(more)'
  <2>1. Briefs' = Briefs
    BY MeaningStays
  <2> QED  BY <1>8, <1>9, <1>12, <2>1 DEF Mirror, Part, X
<1> QED  BY <1>10, <1>13

LEMMA MirrorGains ==
  ASSUME Fields, schema' = schema, NEW made, Mirror(made), NEW f, fields' = Append(fields, f),
         f.kind \notin ElementKinds
  PROVE  \E more : Mirror(more)' /\ FlattenSeq(more) = FlattenSeq(made)
<1> PICK e : e = << >>
  OBVIOUS
<1>1. Part(f, e)
  BY DEF Part
<1> PICK more : more = Append(made, e)
  OBVIOUS
<1>2. Mirror(more)' /\ FlattenSeq(more) = FlattenSeq(made) \o e
  BY <1>1, MirrorAdds DEF Added
<1>3. FlattenSeq(made) \o e = FlattenSeq(made)
  <2>1. made \in Seq(Seq(Briefs))
    BY DEF Mirror
  <2>2. FlattenSeq(made) \in Seq(Briefs)
    BY ONLY <2>1, FlatType
  <2>3. FlattenSeq(made) \o << >> = FlattenSeq(made)
    BY ONLY <2>2, ConcatEmptySeq
  <2> QED  BY <2>3
<1>4. Mirror(more)' /\ FlattenSeq(more) = FlattenSeq(made)
  BY <1>2, <1>3
<1> QED  BY <1>4

LEMMA OthersKeepMirror ==
  ASSUME IInv, Next, Head(todo).task \notin {"particle", "leaveGroup"}, NEW made, Mirror(made)
  PROVE  \E more : Mirror(more)' /\ FlattenSeq(more) = FlattenSeq(made)
<1>1. schema' = schema /\ Fields
  BY DEF Next, InterpretComplexFields, LeaveComplexType, InterpretElement, InterpretGroup,
     LeaveGroup, InterpretAttribute, InterpretAnyAttribute, InterpretAttributeGroupRef,
     LeaveAttributeGroup, InterpretContent, IInv
<1>2. CASE fields' = fields
  BY <1>1, <1>2, MirrorStays
<1>3. CASE \E f : fields' = Append(fields, f) /\ f.kind \notin ElementKinds
  BY <1>1, <1>3, MirrorGains
<1>4. CASE InterpretAttribute
  <2> DEFINE a == Head(todo).attribute
             f == [kind |-> "attribute", name |-> a.name,
                   ns |-> ElementNamespace(a, Head(todo).ns), choice |-> FALSE,
                   min |-> IF a.required THEN 1 ELSE 0, max |-> 1]
  <2>1. fields' = Append(fields, f) /\ f.kind \notin ElementKinds
    BY <1>4 DEF InterpretAttribute, Add, ElementKinds
  <2> HIDE DEF f
  <2> QED  BY <1>3, <2>1
<1>5. CASE InterpretAnyAttribute
  <2> DEFINE f == [kind |-> "anyAttribute", name |-> NoName, ns |-> NoNamespace, choice |-> FALSE,
                   min |-> 0, max |-> Unbounded]
  <2>1. fields' = Append(fields, f) /\ f.kind \notin ElementKinds
    BY <1>5 DEF InterpretAnyAttribute, Add, ElementKinds
  <2> HIDE DEF f
  <2> QED  BY <1>3, <2>1
<1>6. CASE InterpretContent
  <2> DEFINE type == Head(todo).type
             ofBase == {i \in DOMAIN fields : i > Head(todo).from /\ fields[i].kind = "content"}
             first == CHOOSE i \in ofBase : \A j \in ofBase : i <= j
  <2>1. CASE ofBase = {}
    <3> DEFINE f == Content(type)
    <3>1. fields' = fields \/ fields' = Append(fields, f)
      BY <1>6, <2>1 DEF InterpretContent
    <3>2. f.kind \notin ElementKinds
      BY DEF Content, ElementKinds
    <3> HIDE DEF f
    <3> QED  BY <1>2, <1>3, <3>1, <3>2
  <2>2. CASE ofBase # {}
    <3> DEFINE f == Renamed(fields[first], type)
    <3>1. fields' = Append(Without(fields, first), f)
      BY <1>6, <2>2 DEF InterpretContent
    <3>2. first \in ofBase
      <4>1. ofBase \subseteq Nat
        <5>1. PICK S : fields \in Seq(S)
          BY <1>1 DEF Fields, IsSequence
        <5> QED  BY <5>1
      <4> HIDE DEF ofBase
      <4> QED  BY <4>1, <2>2, SmallestIndex
    <3>3. first \in DOMAIN fields /\ fields[first].kind = "content"
      BY <3>2
    <3>4. f.kind = "content"
      <4> DEFINE x == fields[first]
      <4>1. IsField(x) /\ x.kind = "content"
        BY <1>1, <3>3 DEF Fields
      <4> HIDE DEF x
      <4>2. Renamed(x, type).kind = "content"
        BY <4>1 DEF Renamed, IsField
      <4> QED  BY <4>2 DEF x
    <3> HIDE DEF first, f
    <3> QED  BY <1>1, <3>1, <3>3, <3>4, MirrorMoves DEF ElementKinds
  <2> QED  BY <2>1, <2>2
<1> QED  BY <1>2, <1>4, <1>5, <1>6 DEF Next, InterpretComplexFields, LeaveComplexType, InterpretElement, InterpretGroup,
     LeaveGroup, InterpretAttributeGroupRef, LeaveAttributeGroup, Doing

(* No group is left where something else is done. *)
LEMMA OutsideGroups ==
  ASSUME IInv, GroupsNest, todo # << >>, Head(todo).task \notin {"particle", "leaveGroup"}
  PROVE  \A j \in DOMAIN todo : todo[j].task # "leaveGroup"
<1> TAKE j \in DOMAIN todo
<1>1. 1 \in DOMAIN todo /\ todo[1] = Head(todo)
  BY TailIsSequence DEF IInv, Stack
<1>2. j \in Nat \ {0}
  <2>1. IsSequence(todo)
    BY DEF IInv, Stack
  <2> QED  BY <2>1 DEF IsSequence
<1>3. CASE j = 1
  BY <1>1, <1>3
<1>4. CASE 1 < j
  BY <1>1, <1>4 DEF GroupsNest
<1> QED  BY <1>2, <1>3, <1>4

LEMMA OthersMirrored ==
  ASSUME IInv, NEW s, NEW made, NEW pend, Way(s), Mirrored(s, made, pend), Next, ~ Entering,
         Head(todo).task \notin {"particle", "leaveGroup"}
  PROVE  \E more, next : Mirrored(s, more, next)'
<1>1. todo # << >> /\ schema' = schema
  BY StepPushes
<1>2. PICK tasks, K : OfKinds(tasks, K) /\ "particle" \notin K /\ "leaveGroup" \notin K /\ Call(tasks)
  BY StepPushes
<1>3. PICK more : Mirror(more)' /\ FlattenSeq(more) = FlattenSeq(made)
  BY OthersKeepMirror DEF Mirrored
<1>4. PICK q : Dues(tasks, q) /\ FlattenSeq(q) = << >>
  BY <1>2, GivesNothing DEF Gives
<1>5. Dues(todo, pend) /\ Repeats(made, pend)
  BY DEF Mirrored
<1>6. pend[1] = << >>
  <2>1. \E many \in BOOLEAN : pend[1] = Due(Head(todo), many)
    BY <1>1, <1>5, HeadPend
  <2> QED  BY <2>1 DEF Due
<1>7. (FlattenSeq(more) \o FlattenSeq(q)) \o FlattenSeq(Tail(pend)) = Model(s)
  <2>1. FlattenSeq(more) \o FlattenSeq(q) = FlattenSeq(made) \o pend[1]
    BY <1>3, <1>4, <1>6
  <2>2. Replaces(more, q, made, pend)
    BY <2>1 DEF Replaces
  <2>3. Completes(more, q, pend, s)
    BY <1>1, <2>2, RestStays
  <2> QED  BY <2>3 DEF Completes
<1>8. \A j \in DOMAIN todo : todo[j].task # "leaveGroup"
  BY <1>1, OutsideGroups DEF Way
<1>9. IsSequence(tasks) /\ \A j \in DOMAIN tasks : tasks[j].task # "leaveGroup"
  BY <1>2 DEF OfKinds
<1>10. Mirrored(s, more, q \o Tail(pend))'
  BY <1>1, <1>2, <1>3, <1>4, <1>5, <1>7, <1>8, <1>9, MirroredStep
<1> QED  BY <1>10

LEMMA EntersMirrored ==
  ASSUME IInv, Fit, NEW s, NEW made, NEW pend, Way(s), Mirrored(s, made, pend), InterpretComplexFields,
         NEW type, type = Head(todo).type, type.name \notin visiting
  PROVE  \E more, next : Mirrored(Append(s, type), more, next)'
<1>1. /\ todo # << >> /\ schema' = schema /\ fields' = fields /\ Head(todo).task = "type"
      /\ Call(EnterTasks(type)) /\ IsSchema(schema)
  BY DEF InterpretComplexFields, Doing, EnterTasks, IInv
<1>2. type \in Types /\ s \in Seq(Types)
  BY EntersWay
<1>3. fields = << >>
  BY <1>1 DEF Way, Entered, Descending
<1>4. PICK q : Dues(EnterTasks(type), q) /\ FlattenSeq(q) = OwnBriefs(type)
  BY <1>1, <1>2, EnterGives DEF Gives
<1>5. Dues(todo, pend) /\ Repeats(made, pend) /\ Mirror(made)
  BY DEF Mirrored
<1>6. made = << >> /\ FlattenSeq(made) = << >>
  <2>1. made \in Seq(Seq(Briefs)) /\ Len(made) = 0
    BY <1>3, <1>5 DEF Mirror
  <2>2. made = << >>
    BY ONLY <2>1
  <2> QED  BY <2>2, FlatOfNone
<1>7. /\ pend[1] = << >> /\ FlattenSeq(Tail(pend)) \in Seq(Briefs)
      /\ FlattenSeq(pend) = pend[1] \o FlattenSeq(Tail(pend))
  <2>1. /\ \E many \in BOOLEAN : pend[1] = Due(Head(todo), many)
        /\ FlattenSeq(Tail(pend)) \in Seq(Briefs)
        /\ FlattenSeq(pend) = pend[1] \o FlattenSeq(Tail(pend))
    BY <1>1, <1>5, HeadPend
  <2> QED  BY <1>1, <2>1 DEF Due
<1>8. OwnBriefs(type) \in Seq(Briefs)
  BY <1>1, <1>2, OwnBriefsType
<1>9. PICK e, rest : e = << >> /\ rest = FlattenSeq(Tail(pend))
  OBVIOUS
<1>10. FlattenSeq(Tail(pend)) = Model(s)
  <2>1. e \o rest = rest
    <3>1. rest \in Seq(Briefs)
      BY <1>7, <1>9
    <3>2. << >> \o rest = rest
      BY ONLY <3>1, ConcatEmptySeq
    <3> QED  BY <1>9, <3>2
  <2>2. e \o (e \o rest) = Model(s)
    BY <1>6, <1>7, <1>9 DEF Mirrored
  <2> QED  BY <1>9, <2>1, <2>2
<1>11. (FlattenSeq(made) \o FlattenSeq(q)) \o FlattenSeq(Tail(pend)) = Model(Append(s, type))
  <2>1. Model(Append(s, type)) = OwnBriefs(type) \o Model(s)
    BY <1>1, <1>2, ModelOfOneMore
  <2>2. << >> \o OwnBriefs(type) = OwnBriefs(type)
    BY ONLY <1>8, ConcatEmptySeq
  <2> QED  BY <1>4, <1>6, <1>10, <2>1, <2>2
<1>12. Mirror(made)'
  BY <1>1, <1>5, MirrorStays
<1>13. \A j \in DOMAIN todo : todo[j].task # "leaveGroup"
  BY <1>1, OutsideGroups DEF Way
<1>14. IsSequence(EnterTasks(type)) /\ \A j \in DOMAIN EnterTasks(type) : EnterTasks(type)[j].task # "leaveGroup"
  <2>1. Holds(EnterTasks(type), EnterKinds \cup {"type"}, Range(type.attributes), Range(type.attributeGroups))
    BY <1>1, <1>2, EnterTasksHold
  <2>2. "leaveGroup" \notin EnterKinds \cup {"type"}
    BY DEF EnterKinds, OwnKinds, AttributeKinds
  <2> QED  BY <2>1, <2>2 DEF Holds, OfKinds
<1>15. Mirrored(Append(s, type), made, q \o Tail(pend))'
  BY <1>1, <1>4, <1>5, <1>11, <1>12, <1>13, <1>14, MirroredStep
<1> QED  BY <1>15

-----------------------------------------------------------------------------
(* Steps of particles *)

LEMMA NothingDue == \E q : Dues(<< >>, q) /\ FlattenSeq(q) = << >>
<1>1. OfKinds(<< >>, {})
  BY NoTasks DEF OfKinds, Tasks
<1> QED  BY <1>1, GivesNothing DEF Gives

(* An element is the field that it was to be. *)
LEMMA ElementIsPart ==
  ASSUME IsSchema(schema), Fit, NEW t, IsTask(t), t.task = "particle", NEW many \in BOOLEAN,
         NEW element, element = schema.particles[t.node], element.kind \in ElementKinds
  PROVE  Part([kind |-> element.kind, name |-> element.name,
               ns |-> ElementNamespace(element, t.ns), choice |-> t.inChoice,
               min |-> Occurs(element).min, max |-> Occurs(element).max], Due(t, many))
<1> DEFINE f == [kind |-> element.kind, name |-> element.name,
                 ns |-> ElementNamespace(element, t.ns), choice |-> t.inChoice,
                 min |-> Occurs(element).min, max |-> Occurs(element).max]
           x == LeafOf(t.node)
           b == Brief(x, t.ns, t.inChoice, many)
<1>1. t.node \in Node /\ IsLeaf(t.node) /\ t.inChoice \in BOOLEAN
  BY DEF IsTask, Node, IsLeaf, ElementKinds
<1>2. Due(t, many) = <<b>> /\ b \in Briefs
  <2> HIDE DEF Briefs
  <2> QED  BY <1>1, DueOfElement
<1>3. /\ x.kind = element.kind /\ x.name = element.name /\ x.node = t.node /\ x.choice = FALSE
      /\ x.max = element.max
  BY DEF LeafOf
<1>4. /\ b.kind = x.kind /\ b.name = x.name /\ b.ns = ElementNamespace(schema.particles[x.node], t.ns)
      /\ b.choice = (x.choice \/ t.inChoice) /\ b.many = (many \/ x.max > 1)
  <2> HIDE DEF x
  <2> QED  BY DEF Brief
<1>5. /\ f.kind = element.kind /\ f.name = element.name /\ f.ns = ElementNamespace(element, t.ns)
      /\ f.choice = t.inChoice /\ f.max = element.max
  BY DEF Occurs
<1> HIDE DEF f, b, x
<1>6. f.choice = b.choice
  BY <1>1, <1>3, <1>4, <1>5
<1>7. f.max > 1 => b.many
  BY <1>3, <1>4, <1>5
<1>8. f.ns = b.ns
  BY <1>3, <1>4, <1>5
<1>9. Mirrors(f, b)
  BY <1>3, <1>4, <1>5, <1>6, <1>7, <1>8 DEF Mirrors
<1>10. Part(f, <<b>>)
  BY <1>2, <1>5, <1>9 DEF Part
<1> QED  BY <1>2, <1>10 DEF f

LEMMA ElementMirrored ==
  ASSUME IInv, Fit, NEW s, NEW made, NEW pend, Mirrored(s, made, pend), InterpretElement
  PROVE  \E more, next : Mirrored(s, more, next)'
<1> DEFINE call == Head(todo)
           element == schema.particles[call.node]
           f == [kind |-> element.kind, name |-> element.name,
                 ns |-> ElementNamespace(element, call.ns), choice |-> call.inChoice,
                 min |-> Occurs(element).min, max |-> Occurs(element).max]
<1>1. /\ todo # << >> /\ schema' = schema /\ Call(<< >>) /\ call.task = "particle"
      /\ element.kind \in ElementKinds /\ fields' = Append(fields, f)
  BY DEF InterpretElement, Doing, Add, ElementKinds
<1>2. IsSchema(schema) /\ Fields
  BY DEF IInv
<1>3. Dues(todo, pend) /\ Repeats(made, pend) /\ Mirror(made)
  BY DEF Mirrored
<1>4. /\ IsTask(call) /\ pend[1] \in Seq(Briefs)
      /\ \E many \in BOOLEAN : pend[1] = Due(call, many)
  BY <1>1, <1>3, HeadPend
<1>5. Part(f, pend[1])
  <2>1. PICK many \in BOOLEAN : pend[1] = Due(call, many)
    BY <1>4
  <2> HIDE DEF call
  <2> QED  BY <1>1, <1>2, <1>4, <2>1, ElementIsPart
<1> HIDE DEF f, element
<1>6. PICK more, part : part = pend[1] /\ more = Append(made, part)
  OBVIOUS
<1>7. /\ Mirror(more)'
      /\ FlattenSeq(more) = FlattenSeq(made) \o pend[1]
      /\ \A k \in DOMAIN fields' : \/ k \in DOMAIN fields /\ more[k] = made[k]
                                   \/ more[k] = pend[1]
  <2> PICK g : g = f
    OBVIOUS
  <2>1. Part(g, part) /\ fields' = Append(fields, g)
    BY <1>1, <1>5, <1>6
  <2>2. Mirror(more)' /\ Added(more, made, part)
    BY <1>1, <1>2, <1>3, <1>6, <2>1, MirrorAdds
  <2> QED  BY <1>6, <2>2 DEF Added
<1>8. PICK q : Dues(<< >>, q) /\ FlattenSeq(q) = << >>
  BY NothingDue
<1>9. Replaces(more, q, made, pend)
  <2>1. FlattenSeq(made) \o pend[1] \in Seq(Briefs)
    <3>1. made \in Seq(Seq(Briefs))
      BY <1>3 DEF Mirror
    <3>2. FlattenSeq(made) \in Seq(Briefs)
      BY ONLY <3>1, FlatType
    <3>3. PICK B, x, y : B = Briefs /\ x = FlattenSeq(made) /\ y = pend[1]
      OBVIOUS
    <3>4. x \in Seq(B) /\ y \in Seq(B)
      BY <1>4, <3>2, <3>3
    <3>5. x \o y \in Seq(B)
      BY ONLY <3>4, ConcatProperties
    <3> QED  BY <3>3, <3>5
  <2>2. FlattenSeq(more) \o << >> = FlattenSeq(more)
    <3>1. FlattenSeq(more) \in Seq(Briefs)
      BY <1>7, <2>1
    <3> QED  BY ONLY <3>1, ConcatEmptySeq
  <2> QED  BY <1>7, <1>8, <2>2 DEF Replaces
<1>10. Completes(more, q, pend, s)
  BY <1>1, <1>9, RestStays
<1> DEFINE tasks == << >>
<1>11. IsSequence(tasks) /\ \A i \in DOMAIN tasks : FALSE
  BY NoTasks DEF Tasks
<1>12. Dues(tasks, q) /\ Call(tasks)
  BY <1>1, <1>8
<1> HIDE DEF tasks, call
<1>13. Mirrored(s, more, q \o Tail(pend))'
  BY <1>1, <1>3, <1>7, <1>10, <1>11, <1>12, MirroredStep DEF Completes
<1> QED  BY <1>13

(* At the end of a choice its fields may be repeated if it is: their elements  *)
(* may be, too.                                                                *)
LEMMA LeaveMirrored ==
  ASSUME IInv, NEW s, NEW made, NEW pend, Way(s), Mirrored(s, made, pend), LeaveGroup
  PROVE  \E more, next : Mirrored(s, more, next)'
<1> DEFINE t == Head(todo)
           group == t.group
           nested == {i \in DOMAIN fields : i > t.from}
           f == [i \in DOMAIN fields |-> IF i \in nested
                                         THEN [fields[i] EXCEPT !.min = group.min, !.max = group.max]
                                         ELSE fields[i]]
<1>1. /\ todo # << >> /\ schema' = schema /\ Call(<< >>) /\ t.task = "leaveGroup"
      /\ fields' = f \/ fields' = fields
  BY DEF LeaveGroup, Doing
<1>2. Dues(todo, pend) /\ Repeats(made, pend) /\ Mirror(made)
  BY DEF Mirrored
<1>3. IsTask(t) /\ t = todo[1] /\ 1 \in DOMAIN todo /\ pend[1] = << >>
  <2>1. IsTask(t) /\ t = todo[1] /\ 1 \in DOMAIN todo /\ \E many \in BOOLEAN : pend[1] = Due(t, many)
    BY <1>1, <1>2, HeadPend
  <2> QED  BY <1>1, <2>1 DEF Due
<1>4. group.max \in Nat
  <2>1. group.max \in Occurrences
    BY <1>1, <1>3 DEF IsTask
  <2> QED  BY <2>1 DEF Occurrences
<1>5. \A i \in DOMAIN fields : Part(fields[i], made[i]) /\ IsField(fields[i])
  BY <1>2 DEF Mirror, Part, IInv, Fields
<1>6. ASSUME NEW i \in DOMAIN fields PROVE Part(f[i], made[i])
  <2>1. CASE i \notin nested
    BY <1>5, <2>1
  <2>2. CASE i \in nested
    <3>1. PICK x : x = fields[i]
      OBVIOUS
    <3>2. PICK y : y = [x EXCEPT !.min = group.min, !.max = group.max]
      OBVIOUS
    <3>3. f[i] = y
      BY <2>2, <3>1, <3>2
    <3>4. y.kind = x.kind /\ y.name = x.name /\ y.ns = x.ns /\ y.choice = x.choice /\ y.max = group.max
      <4>1. IsField(x)
        BY <1>5, <3>1
      <4> HIDE DEF group
      <4> QED  BY <3>2, <4>1 DEF IsField
    <3>5. Part(x, made[i])
      BY <1>5, <3>1
    <3>6. CASE x.kind \notin ElementKinds
      BY <3>3, <3>4, <3>5, <3>6 DEF Part
    <3>7. CASE x.kind \in ElementKinds
      <4>1. PICK b \in Briefs : made[i] = <<b>> /\ Mirrors(x, b)
        BY <3>5, <3>7 DEF Part
      <4>2. group.max > 1 => b.many
        <5>1. group.max > 1 => AllMany(made[i])
          BY <1>1, <1>2, <1>3, <2>2 DEF Repeats
        <5>2. AllMany(<<b>>) => b.many
          <6>1. 1 \in DOMAIN <<b>> /\ <<b>>[1] = b
            OBVIOUS
          <6> QED  BY <6>1 DEF AllMany
        <5> QED  BY <4>1, <5>1, <5>2
      <4>3. Mirrors(y, b)
        BY <3>4, <4>1, <4>2 DEF Mirrors
      <4> QED  BY <3>3, <3>4, <3>7, <4>1, <4>3 DEF Part
    <3> QED  BY <3>6, <3>7
  <2> QED  BY <2>1, <2>2
<1>7. Mirror(made)'
  <2>1. CASE fields' = fields
    BY <1>1, <1>2, <2>1, MirrorStays
  <2>2. CASE fields' = f
    <3>1. PICK S : fields \in Seq(S)
      BY DEF IInv, Fields, IsSequence
    <3>2. DOMAIN f = DOMAIN fields
      OBVIOUS
    <3> HIDE DEF f
    <3>3. DOMAIN fields' = DOMAIN fields /\ Len(fields') = Len(fields)
      BY <2>2, <3>1, <3>2
    <3>4. \A i \in DOMAIN fields' : Part(fields'[i], made[i])
      BY <1>6, <2>2, <3>3
    <3>5. Briefs' = Briefs
      BY <1>1, MeaningStays
    <3>6. made \in Seq(Seq(Briefs)) /\ Len(made) = Len(fields')
      BY <1>2, <3>3 DEF Mirror
    <3> QED  BY <3>4, <3>5, <3>6 DEF Mirror, Part
  <2> QED  BY <1>1, <2>1, <2>2
<1>8. DOMAIN fields' = DOMAIN fields
  BY <1>1
<1> HIDE DEF f, t
<1>9. PICK q : Dues(<< >>, q) /\ FlattenSeq(q) = << >>
  BY NothingDue
<1>10. Replaces(made, q, made, pend)
  BY <1>3, <1>9 DEF Replaces
<1>11. Completes(made, q, pend, s)
  BY <1>1, <1>10, RestStays
<1> DEFINE tasks == << >>
<1>12. IsSequence(tasks) /\ \A i \in DOMAIN tasks : FALSE
  BY NoTasks DEF Tasks
<1>13. Dues(tasks, q) /\ Call(tasks)
  BY <1>1, <1>9
<1> HIDE DEF tasks
<1>14. Mirrored(s, made, q \o Tail(pend))'
  BY <1>1, <1>2, <1>7, <1>8, <1>11, <1>12, <1>13, MirroredStep DEF Completes
<1> QED  BY <1>14

(* What a repeated group gives may be repeated. *)
LEMMA ManyThrough ==
  ASSUME IsSchema(schema), NEW ns \in Namespace, NEW inChoice \in BOOLEAN, NEW l \in Seq(LeafItems)
  PROVE  AllMany(Through(BriefOf(ns, inChoice, TRUE), l))
<1> DEFINE g == BriefOf(ns, inChoice, TRUE)
<1>1. ASSUME NEW x \in LeafItems PROVE g[x].many
  <2> HIDE DEF LeafItems
  <2>1. g[x] = Brief(x, ns, inChoice, TRUE)
    BY DEF BriefOf
  <2>2. Brief(x, ns, inChoice, TRUE).many = TRUE
    BY DEF Brief
  <2> HIDE DEF g
  <2> QED  BY <2>1, <2>2
<1> HIDE DEF g, LeafItems
<1>2. DOMAIN Through(g, l) = 1..Len(l) /\ \A k \in 1..Len(l) : Through(g, l)[k] = g[l[k]] /\ l[k] \in LeafItems
  BY ThroughValues
<1> QED  BY <1>1, <1>2 DEF AllMany, g

LEMMA ManyParts ==
  ASSUME NEW q \in Seq(Seq(Briefs)), AllMany(FlattenSeq(q))
  PROVE  \A i \in DOMAIN q : AllMany(q[i])
<1>1. Range(FlattenSeq(q)) = UNION {Range(q[i]) : i \in DOMAIN q}
  BY RangeOfFlat
<1>2. \A b \in Range(FlattenSeq(q)) : b.many
  BY DEF AllMany, Range
<1> TAKE i \in DOMAIN q
<1>3. \A b \in Range(q[i]) : b.many
  BY <1>1, <1>2
<1> QED  BY <1>3 DEF AllMany, Range

LEMMA GroupMirrored ==
  ASSUME IInv, Fit, NEW s, NEW made, NEW pend, Way(s), Mirrored(s, made, pend), InterpretGroup
  PROVE  \E more, next : Mirrored(s, more, next)'
<1> PICK call : call = Head(todo)
  OBVIOUS
<1> DEFINE group == ResolveGroupRef(schema.particles[call.node])
           leave == [task |-> "leaveGroup", group |-> group, from |-> Len(fields)]
<1>a. PICK inChoice : inChoice = (call.inChoice \/ group.kind = "choice")
  OBVIOUS
<1>1. /\ todo # << >> /\ schema' = schema /\ fields' = fields /\ call.task = "particle" /\ IsSchema(schema)
      /\ group.kind \notin ElementKinds
      /\ Call(ParticleTasks(group.children, call.ns, inChoice) \o <<leave>>)
  BY <1>a DEF InterpretGroup, Doing, ElementKinds, IInv
<1>2. Dues(todo, pend) /\ Repeats(made, pend) /\ Mirror(made)
  BY DEF Mirrored
<1>3. IsTask(call) /\ pend[1] \in Seq(Briefs)
  BY <1>1, <1>2, HeadPend
<1>4. PICK many \in BOOLEAN : pend[1] = Due(call, many)
  BY <1>1, <1>2, HeadPend
<1>5. call.node \in Node
  BY <1>1, <1>3 DEF IsTask, Node
<1>6. /\ ~ IsLeaf(call.node) /\ group.children = Children(call.node)
      /\ (IsChoice(call.node) <=> group.kind = "choice") /\ group.max = schema.particles[call.node].max
  <2> HIDE DEF Node
  <2> QED  BY <1>1, <1>5, GroupOfNode
<1> HIDE DEF group, leave
<1>b. PICK repeated : repeated = (many \/ schema.particles[call.node].max > 1)
  OBVIOUS
<1>c. PICK nodes, ns : nodes = Children(call.node) /\ ns = call.ns
  OBVIOUS
<1>7. inChoice = (call.inChoice \/ IsChoice(call.node))
  BY <1>6, <1>a
<1>d. PICK p, tasks, q : /\ p = PartsOf(nodes, ns, inChoice, repeated)
                         /\ tasks = ParticleTasks(nodes, ns, inChoice) \o <<leave>>
                         /\ q = p \o << << >> >>
  OBVIOUS
<1>8. /\ inChoice \in BOOLEAN /\ repeated \in BOOLEAN /\ nodes \in Seq(Node)
      /\ FlattenSeq(p) = Due(call, many)
  <2> HIDE DEF Node
  <2>1. /\ inChoice \in BOOLEAN /\ repeated \in BOOLEAN /\ Children(call.node) \in Seq(Node)
        /\ FlattenSeq(PartsOf(Children(call.node), call.ns, inChoice, repeated)) = Due(call, many)
    BY <1>1, <1>3, <1>6, <1>7, <1>b, DueOfGroup
  <2> QED  BY <2>1, <1>c, <1>d
<1>9. ns \in Namespace
  BY <1>1, <1>3, <1>c DEF IsTask
<1>10. Dues(ParticleTasks(nodes, ns, inChoice), p)
  <2> HIDE DEF Node
  <2> QED  BY <1>1, <1>8, <1>9, <1>d, ParticleDues
<1>11. leave.task = "leaveGroup" /\ leave.group = group /\ leave.from = Len(fields)
  BY DEF leave
<1>e. PICK a, b, z : a = ParticleTasks(nodes, ns, inChoice) /\ b = <<leave>> /\ z = << << >> >>
  OBVIOUS
<1>12. Dues(b, z) /\ FlattenSeq(z) = << >>
  <2>1. b \in Seq({leave}) /\ Len(b) = 1 /\ DOMAIN b = {1} /\ b[1] = leave
    BY <1>e
  <2>2. z \in Seq(Seq(Briefs)) /\ Len(z) = 1 /\ z[1] = << >>
    BY <1>e
  <2>3. Due(leave, FALSE) = << >>
    BY <1>11 DEF Due
  <2>4. Dues(b, z)
    BY <2>1, <2>2, <2>3 DEF Dues, IsSequence
  <2>5. FlattenSeq(z) = << >>
    <3>1. PICK e : e = << >>
      OBVIOUS
    <3>2. e \in Seq({}) /\ z = <<e>>
      BY <1>e, <3>1
    <3>3. FlattenSeq(<<e>>) = e
      BY ONLY <3>2, FlatOfOne
    <3> QED  BY <3>1, <3>2, <3>3
  <2> QED  BY <2>4, <2>5
<1>13. Dues(tasks, q) /\ FlattenSeq(q) = pend[1]
  <2>1. Dues(a, p)
    BY <1>10, <1>e
  <2>2. Together(a, b, p, z)
    BY ONLY <1>12, <2>1, DuesConcat
  <2>3. Dues(a \o b, p \o z) /\ FlattenSeq(p \o z) = FlattenSeq(p) \o FlattenSeq(z)
    BY ONLY <2>2 DEF Together
  <2>4. FlattenSeq(p) \o << >> = FlattenSeq(p)
    <3>1. FlattenSeq(p) \in Seq(Briefs)
      BY <1>3, <1>4, <1>8
    <3> QED  BY ONLY <3>1, ConcatEmptySeq
  <2>5. tasks = a \o b /\ q = p \o z
    BY <1>d, <1>e
  <2> QED  BY <1>4, <1>8, <1>12, <2>3, <2>4, <2>5
<1>14. Mirror(made)'
  BY <1>1, <1>2, MirrorStays
<1>15. Replaces(made, q, made, pend)
  BY <1>13 DEF Replaces
<1>16. Completes(made, q, pend, s)
  BY <1>1, <1>15, RestStays
<1>17. AllMany(pend[1]) => \A i \in DOMAIN tasks : AllMany(q[i])
  <2>1. q \in Seq(Seq(Briefs)) /\ Len(q) = Len(tasks) /\ IsSequence(tasks)
    BY <1>13 DEF Dues
  <2>2. DOMAIN q = DOMAIN tasks
    <3>1. PICK T : tasks \in Seq(T)
      BY <2>1 DEF IsSequence
    <3> QED  BY <2>1, <3>1
  <2> QED  BY <1>13, <2>1, <2>2, ManyParts
<1>18. ASSUME NEW j \in DOMAIN tasks, tasks[j].task = "leaveGroup", tasks[j].group.max > 1
       PROVE  /\ \A i \in DOMAIN tasks : AllMany(q[i])
              /\ \A k \in DOMAIN fields : ~ (k > tasks[j].from)
  <2>1. IsSequence(a) /\ IsSequence(b) /\ OfKinds(a, {"particle"})
    <3>1. IsSequence(nodes)
      BY <1>8 DEF IsSequence
    <3>2. OfKinds(a, {"particle"})
      BY <1>e, <3>1, ParticleKinds
    <3> QED  BY <1>12, <3>2 DEF OfKinds, Dues
  <2>2. tasks = a \o b
    BY <1>d, <1>e
  <2>3. tasks[j] = leave
    <3>1. \/ j \in DOMAIN a /\ tasks[j] = a[j]
          \/ j - Len(a) \in DOMAIN b /\ tasks[j] = b[j - Len(a)]
      BY <2>1, <2>2, ConcatMembers
    <3>2. \A i \in DOMAIN b : b[i] = leave
      BY <1>e
    <3> QED  BY <1>18, <2>1, <3>1, <3>2 DEF OfKinds
  <2>4. repeated = TRUE
    BY <1>6, <1>11, <1>18, <1>b, <2>3
  <2>5. \A k \in DOMAIN fields : ~ (k > tasks[j].from)
    <3>1. PICK S : fields \in Seq(S)
      BY DEF IInv, Fields, IsSequence
    <3> QED  BY <1>11, <2>3, <3>1
  <2>6. p \in Seq(Seq(Briefs)) /\ Len(p) = Len(a)
    BY <1>10, <1>e DEF Dues
  <2>7. \A i \in DOMAIN p : AllMany(p[i])
    <3> TAKE i \in DOMAIN p
    <3>1. /\ Len(p) = Len(nodes)
          /\ \A k \in DOMAIN nodes : p[k] = Through(BriefOf(ns, inChoice, repeated), Leaves[nodes[k]])
      <4> HIDE DEF Node
      <4> QED  BY <1>1, <1>8, <1>9, <1>d, PartsType
    <3>2. i \in DOMAIN nodes /\ nodes[i] \in Node
      <4>1. DOMAIN p = 1..Len(p) /\ DOMAIN nodes = 1..Len(nodes)
        BY <1>8, <2>6
      <4> QED  BY <1>8, <3>1, <4>1
    <3>3. Leaves[nodes[i]] \in Seq(LeafItems)
      BY <1>1, <3>2, LeavesAre DEF Fit
    <3>4. AllMany(Through(BriefOf(ns, inChoice, TRUE), Leaves[nodes[i]]))
      <4> HIDE DEF LeafItems
      <4> QED  BY <1>1, <1>8, <1>9, <3>3, ManyThrough
    <3> QED  BY <2>4, <3>1, <3>2, <3>4
  <2>8. \A i \in DOMAIN q : AllMany(q[i])
    <3> TAKE i \in DOMAIN q
    <3>1. p \in Seq(Seq(Briefs)) /\ z \in Seq(Seq(Briefs)) /\ q = p \o z
      BY <1>12, <1>d, <1>e, <2>6 DEF Dues
    <3>2. IsSequence(p) /\ IsSequence(z)
      BY <3>1 DEF IsSequence
    <3>3. \/ i \in DOMAIN p /\ q[i] = p[i]
          \/ i - Len(p) \in DOMAIN z /\ q[i] = z[i - Len(p)]
      BY <3>1, <3>2, ConcatMembers
    <3>4. \A k \in DOMAIN z : z[k] = << >>
      BY <1>e
    <3>5. AllMany(<< >>)
      BY DEF AllMany
    <3> QED  BY <2>7, <3>3, <3>4, <3>5
  <2>9. DOMAIN q = DOMAIN tasks
    <3>1. q \in Seq(Seq(Briefs)) /\ Len(q) = Len(tasks) /\ IsSequence(tasks)
      BY <1>13 DEF Dues
    <3>2. PICK T : tasks \in Seq(T)
      BY <3>1 DEF IsSequence
    <3> QED  BY <3>1, <3>2
  <2> QED  BY <2>5, <2>8, <2>9
<1>19. Call(tasks) /\ IsSequence(tasks)
  BY <1>1, <1>6, <1>13, <1>c, <1>d DEF Dues
<1>20. Mirrored(s, made, q \o Tail(pend))'
  <2>1. \A k \in DOMAIN fields' : k \in DOMAIN fields
    BY <1>1
  <2>2. \A j \in DOMAIN tasks : tasks[j].task = "leaveGroup" /\ tasks[j].group.max > 1 =>
          /\ \A i \in DOMAIN tasks : i < j => AllMany(q[i])
          /\ \A k \in DOMAIN fields' : k > tasks[j].from => AllMany(made[k])
    BY <1>18, <2>1
  <2>3. (FlattenSeq(made) \o FlattenSeq(q)) \o FlattenSeq(Tail(pend)) = Model(s)
    BY <1>16 DEF Completes
  <2> QED  BY <1>1, <1>2, <1>13, <1>14, <1>17, <1>19, <2>1, <2>2, <2>3, MirroredStep
<1> QED  BY <1>20

-----------------------------------------------------------------------------
(* The invariant *)

EInv == IInv /\ (Fit => \E s, made, pend : Way(s) /\ Mirrored(s, made, pend))

LEMMA InitMirrored == Init => \E made, pend : Mirrored(<< >>, made, pend)
<1> SUFFICES ASSUME Init PROVE \E made, pend : Mirrored(<< >>, made, pend)
  OBVIOUS
<1> DEFINE t == TypeTask(root)
<1>1. todo = <<t>> /\ t.task = "type" /\ fields = << >>
  BY DEF Init, TypeTask
<1> HIDE DEF t
<1>2. OfKinds(todo, {"type"})
  BY <1>1, OneKind
<1>3. PICK pend : Dues(todo, pend) /\ FlattenSeq(pend) = << >>
  BY <1>2, GivesNothing DEF Gives
<1> PICK made : made = << >>
  OBVIOUS
<1>4. Mirror(made) /\ FlattenSeq(made) = << >>
  BY <1>1, FlatOfNone DEF Mirror
<1>5. Repeats(made, pend)
  BY <1>2 DEF Repeats, OfKinds
<1>6. << >> \o << >> = << >>
  OBVIOUS
<1>7. Mirrored(<< >>, made, pend)
  BY <1>3, <1>4, <1>5, <1>6, ModelOfNone DEF Mirrored
<1> QED  BY <1>7

LEMMA InitEInv == Init => EInv
BY InitIInv, InitWay, InitMirrored DEF EInv

LEMMA StutterMirrored ==
  ASSUME NEW s, NEW made, NEW pend, Mirrored(s, made, pend), UNCHANGED vars
  PROVE  Mirrored(s, made, pend)'
<1>1. UNCHANGED <<schema, root, todo, visiting, groupsVisiting, fields>>
  BY DEF vars
<1>2. Briefs' = Briefs /\ (\A t, many : Due(t, many)' = Due(t, many)) /\ Model(s)' = Model(s)
  BY <1>1, MeaningStays
<1>3. PICK list : list = todo
  OBVIOUS
<1>4. Dues(todo, pend)'
  <2>1. \A i \in DOMAIN list : \E many \in BOOLEAN : pend[i] = Due(list[i], many)'
    BY <1>2, <1>3 DEF Mirrored, Dues
  <2> QED  BY <1>1, <1>2, <1>3, <2>1 DEF Mirrored, Dues
<1>5. Mirror(made)'
  BY <1>1, MirrorStays DEF Mirrored
<1>6. Repeats(made, pend)'
  BY <1>1 DEF Mirrored, Repeats
<1>7. (FlattenSeq(made) \o FlattenSeq(pend) = Model(s))'
  BY <1>2 DEF Mirrored
<1> QED  BY <1>4, <1>5, <1>6, <1>7 DEF Mirrored

LEMMA NextEInv == EInv /\ [Next]_vars => EInv'
<1> SUFFICES ASSUME EInv, [Next]_vars PROVE EInv'
  OBVIOUS
<1>1. IInv /\ IInv'
  BY NextIInv DEF EInv
<1>2. schema' = schema
  BY DEF vars, Next, InterpretComplexFields, LeaveComplexType, InterpretElement, InterpretGroup,
     LeaveGroup, InterpretAttribute, InterpretAnyAttribute, InterpretAttributeGroupRef,
     LeaveAttributeGroup, InterpretContent
<1>3. Fit' <=> Fit
  BY <1>2, MeaningStays
<1>4. CASE ~ Fit
  BY <1>1, <1>3, <1>4 DEF EInv
<1>5. CASE Fit
  <2>1. PICK s, made, pend : Way(s) /\ Mirrored(s, made, pend)
    BY <1>5 DEF EInv
  <2>2. ASSUME Next PROVE \E r, more, next : Way(r)' /\ Mirrored(r, more, next)'
    <3>1. CASE Entering
      <4>1. PICK type : type = Head(todo).type
        OBVIOUS
      <4>2. InterpretComplexFields /\ type.name \notin visiting
        BY <2>2, <3>1, <4>1 DEF Entering, Descending, Next, LeaveComplexType, InterpretElement, InterpretGroup,
           LeaveGroup, InterpretAttribute, InterpretAnyAttribute, InterpretAttributeGroupRef,
           LeaveAttributeGroup, InterpretContent, Doing
      <4>3. Way(Append(s, type))'
        BY <1>1, <2>1, <4>1, <4>2, EntersWay
      <4>4. \E more, next : Mirrored(Append(s, type), more, next)'
        BY <1>1, <1>5, <2>1, <4>1, <4>2, EntersMirrored
      <4> QED  BY <4>3, <4>4
    <3>2. CASE ~ Entering
      <4>1. Way(s)'
        BY <1>1, <2>1, <2>2, <3>2, StaysWay
      <4>2. CASE Head(todo).task \notin {"particle", "leaveGroup"}
        BY <1>1, <2>1, <2>2, <3>2, <4>1, <4>2, OthersMirrored
      <4>3. CASE Head(todo).task \in {"particle", "leaveGroup"}
        <5>1. InterpretElement \/ InterpretGroup \/ LeaveGroup
          BY <2>2, <4>3 DEF Next, InterpretComplexFields, LeaveComplexType, InterpretAttribute, InterpretAnyAttribute,
             InterpretAttributeGroupRef, LeaveAttributeGroup, InterpretContent, Doing
        <5>2. CASE InterpretElement
          BY <1>1, <1>5, <2>1, <4>1, <5>2, ElementMirrored
        <5>3. CASE InterpretGroup
          BY <1>1, <1>5, <2>1, <4>1, <5>3, GroupMirrored
        <5>4. CASE LeaveGroup
          BY <1>1, <2>1, <4>1, <5>4, LeaveMirrored
        <5> QED  BY <5>1, <5>2, <5>3, <5>4
      <4> QED  BY <4>2, <4>3
    <3> QED  BY <3>1, <3>2
  <2>3. ASSUME UNCHANGED vars PROVE \E r, more, next : Way(r)' /\ Mirrored(r, more, next)'
    BY <2>1, <2>3, StutterWay, StutterMirrored
  <2> QED  BY <1>1, <2>2, <2>3 DEF EInv
<1> QED  BY <1>4, <1>5

-----------------------------------------------------------------------------
(* The elements among the fields *)

Alike(a, b) == Len(a) = Len(b) /\ \A i \in DOMAIN a : Mirrors(a[i], b[i])

AllParts(l, m) == Len(m) = Len(l) /\ \A k \in DOMAIN l : Part(l[k], m[k])

LEMMA AlikeOneMore ==
  ASSUME NEW S, NEW a \in Seq(S), NEW T, NEW b \in Seq(T), Alike(a, b), NEW x \in S, NEW y \in T, Mirrors(x, y)
  PROVE  Alike(Append(a, x), Append(b, y))
<1>1. Len(a) = Len(b) /\ \A i \in DOMAIN a : Mirrors(a[i], b[i])
  BY DEF Alike
<1> PICK c, d : c = Append(a, x) /\ d = Append(b, y)
  OBVIOUS
<1>2. /\ Len(c) = Len(a) + 1 /\ DOMAIN c = 1..Len(a) + 1 /\ DOMAIN a = 1..Len(a) /\ Len(a) \in Nat
      /\ c[Len(a) + 1] = x /\ \A i \in 1..Len(a) : c[i] = a[i]
  OBVIOUS
<1>3. /\ Len(d) = Len(a) + 1 /\ d[Len(a) + 1] = y /\ \A i \in 1..Len(a) : d[i] = b[i]
  BY <1>1
<1>4. \A i \in DOMAIN c : Mirrors(c[i], d[i])
  <2> TAKE i \in DOMAIN c
  <2>1. i \in 1..Len(a) \/ i = Len(a) + 1
    BY <1>2
  <2> QED  BY <1>1, <1>2, <1>3, <2>1
<1> QED  BY <1>2, <1>3, <1>4 DEF Alike

LEMMA ElementsAlike ==
  ASSUME NEW S, NEW l \in Seq(S), NEW m \in Seq(Seq(Briefs)), AllParts(l, m)
  PROVE  Alike(Among(l, {f \in S : f.kind \in ElementKinds}), FlattenSeq(m))
<1> DEFINE Q == {f \in S : f.kind \in ElementKinds}
           X == Seq(Briefs)
           Good == {t \in Seq(S) : \A w \in Seq(X) : AllParts(t, w) => Alike(Among(t, Q), FlattenSeq(w))}
<1>1. << >> \in Good
  <2>1. Among(<< >>, Q) = << >> /\ << >> \in Seq(S)
    BY AmongNone, EmptySeq
  <2>2. ASSUME NEW w \in Seq(X), AllParts(<< >>, w) PROVE FlattenSeq(w) = << >>
    <3>1. Len(w) = 0
      BY <2>2 DEF AllParts
    <3> HIDE DEF X
    <3>2. w = << >>
      BY ONLY <3>1, w \in Seq(X)
    <3> QED  BY <3>2, FlatOfNone
  <2>3. Alike(<< >>, << >>)
    BY DEF Alike
  <2> HIDE DEF Q, X
  <2> QED  BY <2>1, <2>2, <2>3
<1>2. ASSUME NEW t \in Seq(S), NEW e \in S, t \in Good PROVE Append(t, e) \in Good
  <2> SUFFICES ASSUME NEW w \in Seq(X), AllParts(Append(t, e), w)
               PROVE  Alike(Among(Append(t, e), Q), FlattenSeq(w))
    <3>1. Append(t, e) \in Seq(S)
      OBVIOUS
    <3> HIDE DEF Q, X
    <3> QED  BY <3>1
  <2> HIDE DEF X, Q
  <2> PICK p, n : p = Append(t, e) /\ n = Len(t)
    OBVIOUS
  <2>1. /\ DOMAIN p = 1..n + 1 /\ Len(p) = n + 1 /\ n \in Nat /\ DOMAIN t = 1..n /\ p[n + 1] = e
        /\ \A k \in 1..n : p[k] = t[k]
    OBVIOUS
  <2>2. Len(w) = n + 1 /\ (\A k \in 1..n : Part(t[k], w[k])) /\ Part(e, w[n + 1])
    <3>1. AllParts(p, w)
      OBVIOUS
    <3>2. Len(w) = n + 1 /\ \A k \in 1..n + 1 : Part(p[k], w[k])
      BY <2>1, <3>1 DEF AllParts
    <3>3. n + 1 \in 1..n + 1 /\ \A k \in 1..n : k \in 1..n + 1
      BY <2>1
    <3> QED  BY <2>1, <3>2, <3>3
  <2> DEFINE v == [k \in 1..n |-> w[k]]
             x == w[n + 1]
  <2>3. v \in Seq(X) /\ Len(v) = n /\ (\A k \in 1..n : v[k] = w[k]) /\ x \in X /\ w = Append(v, x)
    <3>1. (\A k \in 1..n + 1 : w[k] \in X) /\ (\A k \in 1..n : k \in 1..n + 1) /\ n + 1 \in 1..n + 1
      BY <2>1, <2>2
    <3>2. v \in [1..n -> X] /\ x \in X
      BY <3>1
    <3>3. \A k \in 1..n : v[k] = w[k]
      OBVIOUS
    <3> HIDE DEF v, x
    <3>4. v \in Seq(X) /\ Len(v) = n
      <4>1. \A d \in Nat : \A a \in [1..d -> X] : a \in Seq(X) /\ Len(a) = d
        BY ONLY TRUE
      <4> QED  BY <2>1, <3>2, <4>1
    <3> PICK u : u = Append(v, x)
      OBVIOUS
    <3>a. PICK y, r : y = x /\ r = v
      OBVIOUS
    <3>b. r \in Seq(X) /\ y \in X /\ u = Append(r, y) /\ Len(r) = n
      BY <3>2, <3>4, <3>a
    <3>c. /\ u \in Seq(X) /\ Len(u) = n + 1 /\ u[n + 1] = y /\ \A k \in 1..n : u[k] = r[k]
      BY ONLY <3>b
    <3>5. /\ u \in Seq(X) /\ Len(u) = n + 1 /\ u[n + 1] = x /\ \A k \in 1..n : u[k] = v[k]
      BY <3>c, <3>a
    <3>6. \A k \in 1..n + 1 : u[k] = w[k]
      <4> TAKE k \in 1..n + 1
      <4>1. k \in 1..n \/ k = n + 1
        BY <2>1
      <4> QED  BY <3>3, <3>5, <4>1 DEF x
    <3>7. Len(w) = Len(u) /\ \A k \in 1..Len(w) : w[k] = u[k]
      BY <2>2, <3>5, <3>6
    <3>8. w = u
      BY ONLY <3>5, <3>7, w \in Seq(X), SameLists
    <3> QED  BY <3>2, <3>3, <3>4, <3>8
  <2> HIDE DEF v, x
  <2>4. AllParts(t, v) /\ Part(e, x)
    BY <2>1, <2>2, <2>3 DEF AllParts, x
  <2>5. Alike(Among(t, Q), FlattenSeq(v))
    BY <1>2, <2>3, <2>4
  <2>6. FlattenSeq(w) = FlattenSeq(v) \o x /\ FlattenSeq(v) \in Seq(Briefs)
    <3>1. v \in Seq(Seq(Briefs)) /\ x \in Seq(Briefs)
      BY <2>3 DEF X
    <3>2. FlattenSeq(Append(v, x)) = FlattenSeq(v) \o x /\ FlattenSeq(v) \in Seq(Briefs)
      BY ONLY <3>1, FlatOfOneMore, FlatType
    <3> QED  BY <2>3, <3>2
  <2>7. Among(Append(t, e), Q) = (IF e \in Q THEN Append(Among(t, Q), e) ELSE Among(t, Q))
    BY AmongOneMore
  <2>8. Among(t, Q) \in Seq(S)
    BY AmongType
  <2>9. CASE e \in Q
    <3>1. e.kind \in ElementKinds
      BY <2>9 DEF Q
    <3>2. PICK b \in Briefs : x = <<b>> /\ Mirrors(e, b)
      BY <2>4, <3>1 DEF Part
    <3> PICK B, a, d : B = Briefs /\ a = FlattenSeq(v) /\ d = Among(t, Q)
      OBVIOUS
    <3>3. a \in Seq(B) /\ b \in B /\ d \in Seq(S) /\ Alike(d, a) /\ e \in S
      BY <2>5, <2>6, <2>8
    <3>4. Alike(Append(d, e), Append(a, b))
      BY ONLY <3>2, <3>3, AlikeOneMore
    <3>5. Append(a, b) = a \o <<b>>
      BY ONLY <3>3, AppendIsConcat
    <3> QED  BY <2>6, <2>7, <2>9, <3>2, <3>4, <3>5
  <2>10. CASE e \notin Q
    <3>1. x = << >>
      BY <2>4, <2>10 DEF Q, Part
    <3>2. FlattenSeq(v) \o << >> = FlattenSeq(v)
      BY ONLY <2>6, ConcatEmptySeq
    <3> QED  BY <2>5, <2>6, <2>7, <2>10, <3>1, <3>2
  <2> QED  BY <2>9, <2>10
<1>3. Seq(S) \subseteq Good
  <2> HIDE DEF Good
  <2> QED  BY <1>1, <1>2, ListsByInduction
<1> QED  BY <1>3

LEMMA ElementsMade ==
  ASSUME Fields, NEW made, Mirror(made)
  PROVE  Alike(Elements, FlattenSeq(made)) /\ \E S : Elements \in Seq(S)
<1>1. PICK S : fields \in Seq(S)
  BY DEF Fields, IsSequence
<1> DEFINE Q == {f \in S : f.kind \in ElementKinds}
<1>2. Elements = Among(fields, Q)
  <2>1. {i \in DOMAIN fields : fields[i].kind \in {"element", "any"}} = {i \in DOMAIN fields : fields[i] \in Q}
    BY <1>1 DEF ElementKinds
  <2> QED  BY <2>1 DEF Elements, Among
<1>3. made \in Seq(Seq(Briefs)) /\ AllParts(fields, made)
  BY DEF Mirror, AllParts, Part
<1>4. Alike(Among(fields, Q), FlattenSeq(made)) /\ Among(fields, Q) \in Seq(S)
  BY <1>1, <1>3, ElementsAlike, AmongType
<1> QED  BY <1>2, <1>4

-----------------------------------------------------------------------------
(* The content model *)

Items == [leaf : LeafItems, ns : Namespace]
ItemOf(ns) == [x \in LeafItems |-> [leaf |-> x, ns |-> ns]]
OwnItems(type) == IF SimpleContent(type) THEN << >> ELSE Through(ItemOf(type.ns), Below(type.content))
ItemsOf == [t \in Types |-> OwnItems(t)]
BriefOfItem == [y \in Items |-> Brief(y.leaf, y.ns, FALSE, FALSE)]

(* What becomes of what becomes of the members of a list. *)
LEMMA ThroughTwice ==
  ASSUME NEW S, NEW g, NEW s \in Seq(S), NEW h, NEW f, \A x \in S : f[x] = h[g[x]]
  PROVE  Through(h, Through(g, s)) = Through(f, s)
<1>1. DOMAIN Through(g, s) = DOMAIN s /\ \A k \in DOMAIN s : Through(g, s)[k] = g[s[k]] /\ s[k] \in S
  BY ThroughValues
<1>2. Through(h, Through(g, s)) = [k \in DOMAIN Through(g, s) |-> h[Through(g, s)[k]]]
  BY DEF Through
<1>3. Through(f, s) = [k \in DOMAIN s |-> f[s[k]]]
  BY DEF Through
<1>4. \A k \in DOMAIN s : h[Through(g, s)[k]] = f[s[k]]
  BY <1>1
<1> QED  BY <1>1, <1>2, <1>3, <1>4

LEMMA ItemsAreBriefs ==
  ASSUME IsSchema(schema)
  PROVE  /\ \A y \in Items : BriefOfItem[y] = Brief(y.leaf, y.ns, FALSE, FALSE) /\ BriefOfItem[y] \in Briefs
         /\ \A ns \in Namespace : \A x \in LeafItems :
              ItemOf(ns)[x] \in Items /\ BriefOf(ns, FALSE, FALSE)[x] = BriefOfItem[ItemOf(ns)[x]]
<1>1. \A x \in LeafItems : \A ns \in Namespace : Brief(x, ns, FALSE, FALSE) \in Briefs
  BY BriefType
<1>2. \A y \in Items : y.leaf \in LeafItems /\ y.ns \in Namespace
  BY DEF Items
<1>3. \A x \in LeafItems : \A ns \in Namespace : [leaf |-> x, ns |-> ns] \in Items
  BY DEF Items
<1> HIDE DEF LeafItems, Items, Briefs
<1>4. \A y \in Items : BriefOfItem[y] = Brief(y.leaf, y.ns, FALSE, FALSE) /\ BriefOfItem[y] \in Briefs
  BY <1>1, <1>2 DEF BriefOfItem
<1>5. ASSUME NEW ns \in Namespace, NEW x \in LeafItems
      PROVE  ItemOf(ns)[x] \in Items /\ BriefOf(ns, FALSE, FALSE)[x] = BriefOfItem[ItemOf(ns)[x]]
  <2> PICK y : y = [leaf |-> x, ns |-> ns]
    OBVIOUS
  <2>1. y \in Items /\ y.leaf = x /\ y.ns = ns
    BY <1>3
  <2>2. ItemOf(ns)[x] = y
    BY DEF ItemOf
  <2>3. BriefOf(ns, FALSE, FALSE)[x] = Brief(x, ns, FALSE, FALSE)
    BY DEF BriefOf
  <2> QED  BY <1>4, <2>1, <2>2, <2>3
<1> QED  BY <1>4, <1>5

LEMMA OwnItemsType ==
  ASSUME IsSchema(schema), Fit, NEW type \in Types
  PROVE  OwnItems(type) \in Seq(Items) /\ OwnBriefs(type) = Through(BriefOfItem, OwnItems(type))
<1>1. type.content \in Seq(Node) /\ type.ns \in Namespace
  BY TypeParts DEF Node
<1>2. Below(type.content) \in Seq(LeafItems)
  BY <1>1, BelowType
<1>3. \A x \in LeafItems : /\ ItemOf(type.ns)[x] \in Items
                           /\ BriefOf(type.ns, FALSE, FALSE)[x] = BriefOfItem[ItemOf(type.ns)[x]]
  BY <1>1, ItemsAreBriefs
<1>4. CASE SimpleContent(type)
  <2>1. Through(BriefOfItem, << >>) = << >>
    BY ThroughOne
  <2>2. << >> \in Seq(Items)
    BY EmptySeq
  <2> QED  BY <1>4, <2>1, <2>2 DEF OwnItems, OwnBriefs
<1>5. CASE ~ SimpleContent(type)
  <2>a. PICK g, l, h, f : /\ g = ItemOf(type.ns) /\ l = Below(type.content) /\ h = BriefOfItem
                          /\ f = BriefOf(type.ns, FALSE, FALSE)
    OBVIOUS
  <2> HIDE DEF LeafItems, Items
  <2>1. l \in Seq(LeafItems) /\ (\A x \in LeafItems : g[x] \in Items /\ f[x] = h[g[x]])
    BY <1>2, <1>3, <2>a
  <2>2. Through(g, l) \in Seq(Items)
    BY ONLY <2>1, ThroughWithin
  <2>3. Through(h, Through(g, l)) = Through(f, l)
    BY ONLY <2>1, ThroughTwice
  <2> QED  BY <1>5, <2>a, <2>2, <2>3 DEF OwnItems, OwnBriefs
<1> QED  BY <1>4, <1>5

(* The particles of a type as the content model has them. *)
LEMMA ContentItems ==
  ASSUME IsSchema(schema), Fit, NEW type \in Types
  PROVE  LET content == type.content
             leavesOf(node) ==
               [k \in DOMAIN Leaves[node] |-> [leaf |-> Leaves[node][k], ns |-> type.ns]]
         IN  FlattenSeq([k \in DOMAIN content |-> leavesOf(content[k])])
             = Through(ItemOf(type.ns), Below(type.content))
<1> DEFINE content == type.content
           g == ItemOf(type.ns)
           ss == Through(Leaves, content)
           parts == [k \in DOMAIN content |->
                       [i \in DOMAIN Leaves[content[k]] |-> [leaf |-> Leaves[content[k]][i], ns |-> type.ns]]]
<1>1. type.content \in Seq(Node) /\ type.ns \in Namespace
  BY TypeParts DEF Node
<1>2. ss \in Seq(Seq(LeafItems))
  BY <1>1, BelowType
<1>3. \A x \in LeafItems : g[x] \in Items
  BY <1>1, ItemsAreBriefs
<1>4. \A x \in LeafItems : g[x] = [leaf |-> x, ns |-> type.ns]
  <2> HIDE DEF LeafItems
  <2> QED  BY DEF ItemOf
<1>5. \A n \in Node : Leaves[n] \in Seq(LeafItems)
  BY LeavesAre DEF Fit
<1>6. \A k \in DOMAIN content : content[k] \in Node
  <2> HIDE DEF Node
  <2> QED  BY <1>1
<1> HIDE DEF LeafItems, Items, g, Node
<1>7. \A n \in Node : \A i \in DOMAIN Leaves[n] : Leaves[n][i] \in LeafItems
  BY <1>5
<1>8. parts = Throughs(g, ss)
  <2>1. \A k \in DOMAIN content : parts[k] = Through(g, Leaves[content[k]])
    <3> TAKE k \in DOMAIN content
    <3>1. PICK s : s = Leaves[content[k]]
      OBVIOUS
    <3>2. \A i \in DOMAIN s : s[i] \in LeafItems
      BY <1>6, <1>7, <3>1
    <3>3. [i \in DOMAIN s |-> [leaf |-> s[i], ns |-> type.ns]] = [i \in DOMAIN s |-> g[s[i]]]
      BY <1>4, <3>2
    <3> QED  BY <3>1, <3>3 DEF Through
  <2>2. DOMAIN ss = DOMAIN content /\ \A k \in DOMAIN content : ss[k] = Leaves[content[k]]
    BY DEF Through
  <2>3. Throughs(g, ss) = [k \in DOMAIN ss |-> Through(g, ss[k])]
    BY DEF Throughs
  <2>4. parts = [k \in DOMAIN content |-> Through(g, Leaves[content[k]])]
    BY <2>1
  <2> HIDE DEF parts, ss, content
  <2> QED  BY <2>1, <2>2, <2>3, <2>4
<1>9. FlattenSeq(Throughs(g, ss)) = Through(g, FlattenSeq(ss))
  <2> HIDE DEF ss
  <2> QED  BY <1>2, <1>3, FlatOfThroughs
<1>10. FlattenSeq(parts) = Through(g, Below(content))
  <2> HIDE DEF parts
  <2> QED  BY <1>8, <1>9 DEF Below
<1> QED  BY <1>10 DEF g

LEMMA ContentModelIs ==
  ASSUME IsSchema(schema), Fit, NEW r \in Seq(Types), Chain = r
  PROVE  ContentModel = FlattenSeq(Through(ItemsOf, r))
<1>1. \A i \in DOMAIN r : r[i] \in Types
  <2> HIDE DEF Types
  <2> QED  OBVIOUS
<1>2. ASSUME NEW i \in DOMAIN r
      PROVE  (IF SimpleContent(r[i]) THEN << >>
              ELSE LET content == r[i].content
                       leavesOf(node) ==
                         [k \in DOMAIN Leaves[node] |-> [leaf |-> Leaves[node][k], ns |-> r[i].ns]]
                   IN  FlattenSeq([k \in DOMAIN content |-> leavesOf(content[k])]))
             = ItemsOf[r[i]]
  <2>1. PICK type \in Types : type = r[i]
    BY <1>1
  <2>2. ItemsOf[type] = OwnItems(type)
    <3> HIDE DEF Types
    <3> QED  BY DEF ItemsOf
  <2> QED  BY <2>1, <2>2, ContentItems DEF OwnItems
<1>3. ContentModel = FlattenSeq([i \in DOMAIN r |-> ItemsOf[r[i]]])
  BY <1>2 DEF ContentModel
<1> QED  BY <1>3 DEF Through

(* The elements of the types of a way are those of their content models. *)
LEMMA ModelIsContent ==
  ASSUME IsSchema(schema), Fit, NEW s \in Seq(Types), Chain = Reverse(s)
  PROVE  ContentModel \in Seq(Items) /\ Model(s) = Through(BriefOfItem, ContentModel)
<1>a. PICK r : r = Reverse(s)
  OBVIOUS
<1>1. r \in Seq(Types)
  BY <1>a, RangeOfReverse
<1>2. ContentModel = FlattenSeq(Through(ItemsOf, r))
  BY <1>1, <1>a, ContentModelIs
<1>3. ASSUME NEW t \in Types
      PROVE  /\ ItemsOf[t] \in Seq(Items) /\ OwnOf[t] \in Seq(Briefs)
             /\ OwnOf[t] = Through(BriefOfItem, ItemsOf[t])
  <2>1. OwnItems(t) \in Seq(Items) /\ OwnBriefs(t) = Through(BriefOfItem, OwnItems(t))
    BY OwnItemsType
  <2>2. OwnOf[t] = OwnBriefs(t) /\ OwnOf[t] \in Seq(Briefs)
    BY OwnOfType
  <2>3. ItemsOf[t] = OwnItems(t)
    <3> HIDE DEF Types
    <3> QED  BY DEF ItemsOf
  <2> QED  BY <2>1, <2>2, <2>3
<1>b. PICK g, h, f, T, I, B : /\ g = ItemsOf /\ h = BriefOfItem /\ f = OwnOf
                              /\ T = Types /\ I = Items /\ B = Briefs
  OBVIOUS
<1>4. \A y \in I : h[y] \in B
  BY <1>b, ItemsAreBriefs
<1>5. r \in Seq(T) /\ \A t \in T : g[t] \in Seq(I) /\ f[t] = Through(h, g[t])
  BY <1>1, <1>3, <1>b
<1>6. Through(g, r) \in Seq(Seq(I))
  <2>1. PICK X : X = Seq(I)
    OBVIOUS
  <2>2. r \in Seq(T) /\ \A t \in T : g[t] \in X
    BY <1>5, <2>1
  <2>3. Through(g, r) \in Seq(X)
    BY ONLY <2>2, ThroughWithin
  <2> QED  BY <2>1, <2>3
<1>7. Throughs(h, Through(g, r)) = Through(f, r)
  <2>1. /\ DOMAIN Through(g, r) = DOMAIN r
        /\ \A k \in DOMAIN r : Through(g, r)[k] = g[r[k]] /\ r[k] \in T
    BY ONLY <1>5, ThroughValues
  <2>2. Throughs(h, Through(g, r)) = [k \in DOMAIN Through(g, r) |-> Through(h, Through(g, r)[k])]
    BY DEF Throughs
  <2>3. Through(f, r) = [k \in DOMAIN r |-> f[r[k]]]
    BY DEF Through
  <2>4. \A k \in DOMAIN r : Through(h, Through(g, r)[k]) = f[r[k]]
    BY <1>5, <2>1
  <2> QED  BY ONLY <2>1, <2>2, <2>3, <2>4
<1>c. PICK ss : ss = Through(g, r)
  OBVIOUS
<1>8. FlattenSeq(Throughs(h, ss)) = Through(h, FlattenSeq(ss)) /\ FlattenSeq(ss) \in Seq(I)
  <2>1. ss \in Seq(Seq(I)) /\ \A y \in I : h[y] \in B
    BY <1>4, <1>6, <1>c
  <2>2. FlattenSeq(Throughs(h, ss)) = Through(h, FlattenSeq(ss))
    BY ONLY <2>1, FlatOfThroughs
  <2>3. FlattenSeq(ss) \in Seq(I)
    BY ONLY <2>1, FlatType
  <2> QED  BY <2>2, <2>3
<1> QED  BY <1>2, <1>7, <1>8, <1>a, <1>b, <1>c DEF Model

LEMMA DoneElements == EInv => (Fit => ElementsMirrorModel)
<1> SUFFICES ASSUME EInv, Fit, Done PROVE ElementsMirrorModel
  BY DEF ElementsMirrorModel
<1>1. PICK s, made, pend : Way(s) /\ Mirrored(s, made, pend)
  BY DEF EInv
<1>2. IsSchema(schema) /\ Fields
  BY DEF EInv, IInv
<1>3. IsPath(s) /\ Extend(s) = s /\ s \in Seq(Types) /\ root \in Types
  BY <1>1, WayIsTypes DEF Way, Entered, Descending, Done
<1>4. Chain = Reverse(s)
  BY <1>2, <1>3, PathIsChain
<1>5. ContentModel \in Seq(Items) /\ Model(s) = Through(BriefOfItem, ContentModel)
  <2> HIDE DEF Types, Items
  <2> QED  BY <1>2, <1>3, <1>4, ModelIsContent
<1>6. FlattenSeq(made) = Model(s)
  <2>1. pend \in Seq(Seq(Briefs)) /\ Len(pend) = 0
    BY <1>1 DEF Mirrored, Dues, Done
  <2>2. pend = << >>
    BY <2>1
  <2>3. made \in Seq(Seq(Briefs)) /\ FlattenSeq(made) \o FlattenSeq(pend) = Model(s)
    BY <1>1 DEF Mirrored, Mirror
  <2>4. FlattenSeq(made) \in Seq(Briefs)
    BY ONLY <2>3, FlatType
  <2>5. FlattenSeq(made) \o << >> = FlattenSeq(made)
    BY ONLY <2>4, ConcatEmptySeq
  <2> QED  BY <2>2, <2>3, <2>5, FlatOfNone
<1>7. Alike(Elements, FlattenSeq(made)) /\ \E S : Elements \in Seq(S)
  BY <1>1, <1>2, ElementsMade DEF Mirrored
<1>a. PICK c, e, h : c = ContentModel /\ e = Elements /\ h = BriefOfItem
  OBVIOUS
<1>8. c \in Seq(Items) /\ Alike(e, Through(h, c)) /\ \E S : e \in Seq(S)
  BY <1>5, <1>6, <1>7, <1>a
<1>9. /\ Len(Through(h, c)) = Len(c) /\ Len(c) \in Nat
      /\ \A k \in 1..Len(c) : Through(h, c)[k] = h[c[k]] /\ c[k] \in Items
  <2> HIDE DEF Items
  <2> QED  BY <1>8, ThroughValues
<1>10. Len(e) = Len(c) /\ DOMAIN e = 1..Len(c) /\ \A i \in DOMAIN e : Mirrors(e[i], h[c[i]]) /\ c[i] \in Items
  <2>1. Len(e) = Len(c) /\ \A i \in DOMAIN e : Mirrors(e[i], Through(h, c)[i])
    BY <1>8, <1>9 DEF Alike
  <2>2. DOMAIN e = 1..Len(c)
    BY <1>8, <2>1
  <2> QED  BY <1>9, <2>1, <2>2
<1>11. ASSUME NEW i \in DOMAIN e
       PROVE  /\ e[i].kind = c[i].leaf.kind
              /\ e[i].name = c[i].leaf.name
              /\ e[i].ns = ElementNamespace(schema.particles[c[i].leaf.node], c[i].ns)
              /\ e[i].choice = c[i].leaf.choice
              /\ e[i].max > 1 => c[i].leaf.max > 1
  <2>1. PICK y : y = c[i]
    OBVIOUS
  <2>2. y \in Items /\ Mirrors(e[i], h[y])
    BY <1>10, <2>1
  <2>3. h[y] = Brief(y.leaf, y.ns, FALSE, FALSE)
    BY <1>2, <1>a, <2>2, ItemsAreBriefs
  <2>4. y.leaf.choice \in BOOLEAN /\ y.leaf.max \in Nat
    BY <2>2 DEF Items, LeafItems
  <2>5. PICK x, ns : x = y.leaf /\ ns = y.ns
    OBVIOUS
  <2>6. PICK b : b = Brief(x, ns, FALSE, FALSE)
    OBVIOUS
  <2>7. /\ b.kind = x.kind /\ b.name = x.name /\ b.ns = ElementNamespace(schema.particles[x.node], ns)
        /\ b.choice = x.choice /\ (b.many => x.max > 1)
    <3>1. b.choice = (x.choice \/ FALSE) /\ b.many = (FALSE \/ x.max > 1)
      BY <2>6 DEF Brief
    <3>2. x.choice \in BOOLEAN
      BY <2>4, <2>5
    <3>3. (x.choice \/ FALSE) = x.choice
      BY <3>2
    <3> QED  BY <2>6, <3>1, <3>3 DEF Brief
  <2>8. Mirrors(e[i], b)
    BY <2>2, <2>3, <2>5, <2>6
  <2>9. /\ e[i].kind = x.kind /\ e[i].name = x.name /\ e[i].ns = ElementNamespace(schema.particles[x.node], ns)
        /\ e[i].choice = x.choice /\ (e[i].max > 1 => x.max > 1)
    BY <2>7, <2>8 DEF Mirrors
  <2> QED  BY <2>1, <2>5, <2>9
<1> QED  BY <1>10, <1>11, <1>a DEF ElementsMirrorModel

(* The elements among the fields are those of the content model, in its order, *)
(* in the name space of the type that has them, in a choice exactly where it    *)
(* has one above them, and many only where it allows many: for every schema     *)
(* whose groups do not contain themselves and whose occurrences are those of    *)
(* XML Schema's, none of them zero and a global group's own not more than one.  *)
THEOREM ElementsMirror == Spec => [](Fit => ElementsMirrorModel)
<1>1. Spec => []EInv
  BY InitEInv, NextEInv, PTL DEF Spec
<1> QED  BY <1>1, DoneElements, PTL
=============================================================================
