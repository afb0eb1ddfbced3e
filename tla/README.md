# A formal model of xsd-parser-go

`xsd-parser-go` turns XML schemas into Go packages. It is a compiler of five
stages: load the schema files, patch their declarations, interpret them as a
semantic model, optimize the model, and generate and render Go source. The
program is sequential. What is hard in it are graphs that may be cyclic (files
that include each other, types that derive from each other, unions of unions),
state that several steps change and read again (the queue and the `seen` map,
declarations that are renamed while others still refer to them, the cache of
the typedef map, a value that is decoded into twice), the order in which
declarations win over each other, and errors and kills in the middle of a load
or of writing the result.

This directory holds TLA+ modules for those parts, the configurations that
model-check them, and proofs of theorems about them.

## The system

| component | source (`src/`) | state | operations | talks to |
|---|---|---|---|---|
| schema loader | `internal/parser/parser.go` | queue, `seen`, result, pending references | parse a file, skip it, enqueue a reference, fail | catalog resolver, declaration parsers; then calls the patches |
| catalog resolver | `internal/parser/catalog.go` | exact entries, rewrite prefixes | load, resolve | loader, patches |
| patches | `internal/parser/patches.go` | the declarations of every file | remove, rename, rewrite a base | edit the loader's result in place |
| declaration parsers | `Parse` of `internal/parser/parser.go`, `internal/parser/{elements,complex_types,simple_types,attributes,annotations}.go` | XML decoder, namespace scopes, functions in progress | parse one declaration, skip an element, resolve a name | fill the raw model |
| raw model | `internal/schema/model.go` | data | - | everything before the interpreter |
| interpreter | `internal/interpreter/{model,declarations}.go` | index of declarations, `visiting` maps, functions in progress | flatten the fields of a type, resolve references | reads the raw model, makes the semantic one |
| polymorphism | `internal/interpreter/polymorphism.go` | closures of substitution groups and derivations, used heads | collect members, pick elements, mark types | semantic model |
| optimizer | `internal/optimizer/*.go` | types, typedef cache, names of enumerations | fourteen passes in a fixed order | semantic model |
| name registry | `internal/generator/naming.go` | used names, assigned names | assign, look up | generator |
| generator | `internal/generator/*.go` | packages, fields, imports | lower types, fields, interfaces | semantic model, name registry, bindings |
| renderer | `internal/renderer/*.go` | text buffer | print declarations, decoders and encoders | generator's packages |
| bindings | `internal/binding/binding.go` | name overrides | read `.xjb` files | generator |
| generated code | printed by the renderer, `internal/renderer/{struct_render,polymorphic_render,runtime_helpers}.go` | the value, presence and default shadows | decode, validate, encode | `encoding/xml` |
| pipeline | `internal/pipeline/pipeline.go` | packages of namespaces, rendered files, the output directory | run the stages, write files | all stages |
| command line | `cmd/xsd-parser-go/main.go` | options | parse flags, report errors | pipeline |

What makes each of them correct:

* loader: every reachable file, no other, once each, in the order of first
  mention; an end on cyclic references; all or nothing on an error.
* catalogs: one well defined target per location.
* declaration parsers: what a document says is stored where it says it; a prefix
  means what it is bound to where it stands; a broken document gives no file.
* patches: a patch replaces what it names and nothing else; a redefining
  declaration derives from the one it redefines; names stay unique; nothing
  derives from itself.
* interpreter: expansion of types and groups ends; a type has the fields of its
  bases and then its own, each as often as the schema allows it; the closures of
  polymorphism are the transitive ones.
* optimizer: the values that a type accepts stay the same; references lead to
  types that exist; passes and recursions end; the output does not depend on
  the iteration order of Go's maps.
* polymorphism: an element that is valid is read as what it is, what is written
  is valid and read again.
* name registry: no two declarations of a package share a Go identifier.
* generated code: fields hold what the last document says; what a decoder reads
  an encoder writes; a document is refused exactly for what is checked.
* pipeline: nothing is written before every stage has succeeded; success means
  that all is written and that what is imported is there.

`PROJECT.json` lists the places where each of these could go wrong (`hazards`)
with the properties that watch them.

## Modules

    Reachability          what the loader promises, without queue and spelling
      ^ implemented by
    SchemaLoader          the loader and its catalogs
      ^ extended by       SchemaPatches, MCSchemaLoader
    SchemaPatches         the patches, run on the loader's result
      ^ extended by       SchemaLoader_proofs (of both), MCSchemaPatches
    DeclarationParser     one document, token by token
      ^ extended by       DeclarationParser_proofs, MCDeclarationParser
    ComplexFields         a complex type as a list of fields
      ^ extended by       ComplexFields_proofs, MCComplexFields
    Optimizer             the passes
      ^ extended by       OptimizerValues (their meaning), Optimizer_proofs, MCOptimizer
    UniqueNames           the search for a free name
      ^ extended by
    NameRegistry          the registry, and what is declared under its names
      ^ extended by       Generator_proofs, MCNameRegistry
    Polymorphism          substitution groups, derived types, and what is read through them
      ^ extended by       Polymorphism_proofs, MCPolymorphism
    GeneratedCodec        the generated decoder, encoder and Validate of a type
      ^ extended by       Generator_proofs, MCGeneratedCodec
    OutputDirectory       what is promised about the directory written to
      ^ implemented by
    Pipeline              the stages, bindings, packages, files and the writing
      ^ extended by       Pipeline_proofs, MCPipeline
    Selections            what a loop keeps of a list
    IndexLemmas           numbers and lists: induction, recursion, what the
                          operators on lists do with one more item

### SchemaLoader

Models `ParseFilesWithOptions`, `catalogResolver` and `loadCatalogs`.

| code | model |
|---|---|
| file name as spelled / cleaned absolute name | `Path`, `Key`, related by `AbsKey` |
| `filepath.Join(dir, location)` | `Join` |
| `queue`, `seen`, `schemas.Files` | `queue`, `seen`, `files` |
| where the four `for ... range` loops are | `pending` |
| `loadCatalogs` succeeds or fails | `LoadCatalogs`, `FailCatalogs` |
| body of the loop: already seen / parsed / error | `SkipSeen`, `ParseFile`, `FailParse` |
| one turn of the loops over references | `Enqueue` |
| loop ends | `Drained` |

A document is its four lists of references and an opaque body, or it is
`Unreadable` (missing, not readable or not well-formed XML: the code treats
them alike). `filepath.Abs` fails only when the working directory is gone; that
error return is not modelled. The file system does not change during a load.

The constants `AbsKey`, `Join`, `HasPrefix` and `Rewrite` stand for functions
of Go's `path/filepath` and `strings`. The assumption `LexicalAssumption` says
that two spellings of one directory resolve a location to one file, which is
what `filepath.Clean` does in the absence of symbolic links: neither the code
nor the model looks at those.

`Reachability` is the abstract specification: a set of nodes that grows by a
node of its frontier, or is given up at a node that cannot be read. The
refinement maps the files parsed so far to that set. Its graph is known only
once the catalogs are loaded, hence its action `Begin`.

### SchemaPatches

Extends the loader, as `ParseFilesWithOptions` calls `applySchemaPatches` at its
end. `StartPatches` lays out the edits of the nested loops in `work` in the order
in which the code makes them; they depend on the documents alone, never on what
earlier edits did. Each edit then is a step: `PassOver`, `RemoveDeclarations`
or `ApplyRedefine`. The name `<name>RedefinedBase` is a pair of a stem and a
count. All files have one target namespace, as files that patch each other
must; a document holds its patches before its other declarations and
overrides before redefines.

### DeclarationParser

Models `Parse` and the functions it calls, one per kind of declaration. `ParseFile`
is a single step of the loader; this module is what happens inside it.

| code | model |
|---|---|
| the functions that have not returned | `stack`, a frame for each |
| their `switch` over the name of a child | `ComplexTypeChild`, `ElementChild`, ..., gathered in `ChildOf` |
| a child's function is called, or `skipElement` | `ReadStart`, with the rule of the child |
| a function returns at its end tag, its caller stores the result | `ReadEnd` |
| `nsStack`, `push` and `pop` | `nsStack`, in `Enter` and `ReadEnd` |
| `parseQName`, `lookupNamespace` | `ParseQName`, `LookupNamespace` |
| `decoder.Token` fails, or ends | `ReadError`, `ReadEOF` |

A declaration is the position of its start tag, and `fields` lists what was
stored into which field of it. One reference stands for all attributes of an
element that hold a name. `encoding/xml` is external: it gives the tokens of a
well-formed document up to a first error. Attributes that are copied as text are
left out.

### ComplexFields

Models `interpretComplexFields` and all it calls.

| code | model |
|---|---|
| calls that have not returned, and what their loops have left | `todo` |
| `visiting` of types, of attribute groups | `visiting`, `groupsVisiting` |
| enter a type, leave it (`delete(visiting, key)`) | `InterpretComplexFields`, `LeaveComplexType` |
| `interpretParticle` for an element or wildcard, for a group, and after its fields | `InterpretElement`, `InterpretGroup`, `LeaveGroup` |
| `interpretAttribute`, `interpretAnyAttributes` | `InterpretAttribute`, `InterpretAnyAttribute` |
| `interpretAttributeGroupRef` and its end | `InterpretAttributeGroupRef`, `LeaveAttributeGroup` |
| simple content, after its base's fields | `InterpretContent` |
| `buildContext` | the constant `Schemas`, `ComplexType` |

Particles are a table of nodes. A group of the schema refers to a node, so that a
group inside of itself is a circle of the table. `Unbounded` is a number greater than
one and stands for every such number. `ContentModel`, `AttributesOf` and
`Leaves`, with which the properties say what a type should hold, are defined on the
schema and not on the calls.

### Optimizer and OptimizerValues

`Optimizer` models `Run`: `pass` is the place in the sequence of passes, `at` the
type that the pass looks at. Each pass is an action that replaces the type at
`at`; `EnterPass` and `LeavePass` hold what the code does before and after its
loop. `typedefs` is the cached map, `local` the map a pass took at its start,
which is the stale one if the cache is dropped meanwhile. `removeDuplicates`
makes rounds (`AnotherRound`) and chooses among several equal types
nondeterministically, as an iteration over a Go map does. The recursion of
`flattenUnionMember` and `collectEnumUnionMember` is a stack of calls with their
depth (`walk`); `Overflow` is the end of the program when the stack has no bound
but `StackLimit`.

Two loops of the code have no such end: `unrestrictedQName` climbs for ever between two
aliases that lead to each other, and `unionMemberKey` recurses without end round a circle of
duplicates. The model does not take the step that would not return (`ClimbEnds`), and takes
`Overflow` where the recursion has no end (`KeysEndless`). `resolveKey` keeps what it has seen and
stops somewhere in a circle.

A type is what the passes look at. Custom XML, mixed content and parts in
polymorphism appear only as the flag `plain`, which is all that
`isDuplicateCandidate` asks. Documentation, wire names and occurrences of fields
are left out; `metaTypesEqual` compares them too.

`OptimizerValues` gives types a meaning, the set of the values they accept, in
order to say what optimizing must not change. The meaning follows the generated
code: a list wins over a union, and facets beside a union add values to it.

### UniqueNames and NameRegistry

`UniqueNames` is `uniqueName`: a count per name asked for, and a number after a
name that was. Its loop is the choice of the smallest free number; one is free
among one more numbers than there are names.

`NameRegistry` models `buildNameRegistry` and the part of `GenerateWithOptions`
that decides on names.

| code | model |
|---|---|
| `bases`, `byBase` | `bases`, `Group`: the group of the first base |
| one turn of the loop over a group | `AssignName` |
| the second loop, which fills `registry.types` | `PublishTypes` |
| the loop over `meta.Types` | `DeclareType` |
| `applyInterfaces` | `DeclareInterfaces` |
| `appendLegacyAliases` | `DeclareAlias`, an alias at a time |

`emitted` is what all packages declare. Constants of enumerations and the
types of a choice are `helper`s in it; they are declared with their type but
under names that the registry does not know. The token types of mixed content,
the variables of registries and the generated helper functions are left out.
Strings are opaque: `GoName` is `goName` of a local name or of what the bindings
put in its place, and concatenation, order and numbers after a name are
constants too. `GoNameOf` is what is asked where a declaration has no name.

### Polymorphism

Models `internal/interpreter/polymorphism.go` and what the generated containers
do with its result.

| code | model |
|---|---|
| the loops of `buildSubstitutionGroups`, then of `buildDerivedTypes` | `Collect`, `PickHead`, `PopSeen`, `PopNew`, `CloseHead`, for one relation after the other |
| `seen` and `result[head]`, which always hold the same keys | `found` |
| `fieldPolymorphic`, `localFieldPolymorphic` at a use of an element | `InterpretUse` |
| one turn of the loop over the used heads | `MakeInterface` |
| the loop that sets `CustomXML` | `MarkContainers` |
| `dynamicElementForType`, `typeDistance` | `ElementForType`, `Distances`, `ElementsFound` |
| generated `UnmarshalXML`, `MarshalXML` of a container | `Read`, `WrittenWith`, `WrittenAs` |

The uses of elements are a list in the order in which the interpreter comes by
them, which is that of `ComplexFields`. `Closure` is what the
stacks must compute: the least set below a key, written without recursion.
`Documents` are the elements that XSD allows at a use, with the types that it
allows for them, abstract ones left out. An `xsi:type` is given where the type is not
the declared one. Restrictions are not followed by the code; the documents
have types derived by extension only, and no extensions of simple content. `None` as the type
of an element stands for an anonymous type as well.

`typeDistance` climbs from base to base until it meets the type it looks for, or one without a base.
In a circle of extensions that the type is not in it never returns, and so `MakeInterface` is
never taken there (`ElementsFound`).

The documents of `ValidIsRead` are all that are valid, and what the code does not read among
them is part of the property. A member of a substitution group whose own element has a
built-in or an anonymous type is not registered and is skipped (`addSubstitutionMember`,
`polymorphism.go:158`), and so is one with an `xsi:type` in the place of such an element. This is
against `docs/DESIGN_DECISIONS.md:37`, "Calls `d.Skip()` only for truly unknown elements". The
other exception is the hypothesis `Unambiguous`: two slots of a container know the
name, or the type has an `XMLName` and stands for two elements. `WrittenIsRead` leaves out
containers as members: their `MarshalXML` ignores the start element that it is given and writes the
type's own name without the `xsi:type` (`WrittenAs`).

### GeneratedCodec

Models the code that is printed for one complex type: its `UnmarshalXML`,
`MarshalXML` and `Validate`, or what `encoding/xml` does for a type without them.

| code | model |
|---|---|
| the choice of a mixed, choice, tracked, alias or plain type (`generateFields`, `buildChoiceDecl`, `renderStructUnmarshal`) | `Shape` |
| pointer, slice and value fields, shadows of fields | `IsPointer`, `IsSlice`, `IsShadowed`, `local` |
| a token with a field for it, any other, one that cannot be parsed | `ReadKnown` and `ReadContent`, `Skip`, `ReadBad` |
| what is done at the end tag | `ReadEnd`, `ReadEndPlain`, `ReadEndAlias`, `ReadEndTracked` |
| a value is decoded into | `Decode`; what is written is read by `Reread` |
| `Validate`, `MarshalXML` | `Valid`, `Written` |

`encoding/xml` is external: it delivers children in document order and matches them
with the tags of a struct. A tag has the namespace of an element only, so that the tag of an
attribute, or of an element without a namespace, takes a name of any
namespace (`TagOf`, `TagMatches`), and two tags that would take one name are refused for every
document (`TagsConflict`). A wildcard's field catches what no tag matches.

A field's value is a sequence of what it holds. What the types of fields do is a parameter of
the module, an operator for each way in which the printed code uses them:

| constant | code |
|---|---|
| `DecodedAs` | `DecodeElement` or `UnmarshalXMLAttr` into a variable, which may hold something already: a struct keeps what the content is silent about |
| `EncodedAs` | what `EncodeElement` or `MarshalText` writes |
| `Sprint` | `fmt.Sprint`, with which `renderPrefixMarshal` prints attributes and text and `renderFixedValidation` what it compares with a fixed text |
| `Literal` | the Go literal of a default (`defaultValueExpr`), which is not what decoding the text gives where that is an integer with leading zeros, octal in Go |
| `HasValidate`, `ValidValues` | the type's `Validate`, called by `ValidateField` on each field |

The instance of `MCGeneratedCodec` has a string, a number, a binary type, an enumeration and a
struct. A content may be none of the type (`Bad`), which fails the decoding.

`FieldsHoldTheDocument` and `AcceptedExactly` compare this with what a document says, in terms of
names with their namespaces and of the schema's defaults (`DocumentValue`, `Acceptable`). They have
hypotheses, each of which is a case where the generated code does otherwise:

* `Compiles`, of the type: a nillable optional field with a default, in a struct whose presence is
  tracked, is assigned a value of the wrong type (`struct_render.go:353` does not ask for nillable), and
  the package does not compile. Such types are not decoded at all;
* `StartsAfresh`: a struct without a method of its own keeps what it held;
* `NamesTold`: no token of the document has a name that another field's tag takes for its own;
* `~ TagsConflict`: see above. Two attributes of one local name in two namespaces conflict, and so does
  an element that a sequence has twice (`docs/DESIGN_DECISIONS.md`, Decision 4);
* `DefaultsAgree`: the literals of defaults are what their texts mean.

What `Acceptable` asks is what the generated checks ask, and in three points that is not
XML Schema's: a fixed value must be printed by `fmt.Sprint` as its text is spelled, so that `1.0` is refused
where `1` is fixed; a nillable field that is fixed is refused whatever it holds; and `ValidateField`
panics on an optional field that is absent if its type has a `Validate` with a value receiver.

`RoundTrip` is about values each item of which survives on its own (`EachSurvives`): the name it
is written under leads back to its field and its content to its value. That leaves out
what does not: binary values, lists and `IDREFS` in attributes or text of a type that
writes itself, which `fmt.Sprint` prints as `[1 2 3]`; the element written for a required wildcard that
was never read; and, in mixed content, choices and wildcards, elements without a namespace, which are
written into the default one. What the property adds is that the items do not get into
each other's way: that a document written from such a value is accepted, in its order, with
defaults, occurrences, presence and validation.

Declarations of namespaces are left out, though `encoding/xml` hands them over as attributes
and a wildcard for attributes catches them. So is the name of the element itself.

### OutputDirectory and Pipeline

`Pipeline` composes the stages. What each computes belongs to the other modules;
here each may succeed or fail, and a set of schemas is its namespaces and types.

| code | model |
|---|---|
| `binding.LoadFiles`, `walk` | `LoadBinding`, `BindingFails`, `Walk` |
| parse, interpret, optimize, generate, render | `ParseFiles`, `Interpret`, `Optimize`, `Generate`, `RenderFile`; `StageFails` |
| `autoNamespacePackages`, `packageForNamespace` | `AutoNamespacePackages`, `PackageForNamespace` |
| `getFile`, imports of `qualifyIdentifier` and `runtimeType` | `PackageFile`, `ImportsOf` |
| `RenderPackage`'s map | `rendered`: of two files of one name the later stays |
| `MkdirAll`, the loop that writes | `MakeDirectory`, `WriteFile`, `WriteFails`, `Finish` |
| the process is killed | `Kill`, between any two steps |

A write truncates the file first, so that a failing or killed one may leave a
torn file. `OutputDirectory` is the abstract specification: a plan is made before
the first file is touched, its files are put in place in any order, and success is
reported when all are. It does not promise more, and neither does the code:
writing is not atomic over files. Two runs never overlap. Only the process can be killed: nothing is
synced, so that after a loss of power files written before may be lost as well, and neither the
model nor the code says anything of it.

A package has a file as soon as a type of it is met, also if no declaration of it remains
(`GeneratedFiles`, `Declared`). A reference into no namespace is left unqualified and imports nothing
(`naming.go:324`), so that it does not compile from another package. A file whose package has the name of
the runtime's may import itself (`model.go:412`). Imports that a type map of the bindings
asks for (`naming.go:274`) are left out.

### Seeded faults

Operators under a comment that starts with `Seeded fault` are no part of the
model. Each is a plausible mistake in the definition it stands before;
`PROJECT.json` pairs them with the properties that they violate when they take
that definition's place, which shows that the property depends on the code.

## Runs

Passing runs:

| run | question | instance | distinct states |
|---|---|---|---|
| `loader_graphs` | does the load compute the closure, in order, and end? | every graph over 3 files with up to 2 references per file, broken and missing files, empty locations, 1 or 2 roots | 196,728 |
| `loader_catalogs` | do spellings and catalogs matter? | 2 files, relative, absolute and catalog locations, up to 2 entries that compete | 186,763 |
| `patches` | do overrides and redefines do what they say? | 3 files, all six kinds of declarations, up to 2 children in a patch, cyclic includes, patches before and after their targets | 50,008 |
| `declarations` | is a document read as what it says? | below 23 paths of elements two children of 24 names, the first with a child; prefixes bound on any of them; documents cut off after each token; documents that are no schema | 63,258 |
| `fields` | does a type become its fields, and does that end? | 18 content models over a table of 17 particles, with references to elements of a namespace and of none; all derivations of 3 types from each other, circles included, plain, restricted, with simple content; 4 attribute groups, two of which hold each other; a model group in itself | 215,773 |
| `polymorphism` | are the closures complete, is what is valid read, and what is written valid? | 3 elements in 6 groups, circles included, over 3 types in 4 derivations, abstract or not; elements of built-in and anonymous types; elements called like their types; 1 or 2 uses, in containers that are members themselves; slots of abstract types, two of one type; two elements of one type | 245,807 |
| `optimizer_default` | do the default passes keep values and references? | 3 simple types over aliases, enumerations, facets, lists and unions, in two orders, used by two complex types and an element | 79,642 |
| `optimizer_unions` | are flattening and merging safe where they can be, and what holds where they are not? | 2 enumerations and 2 unions of up to 3 members, the default passes with those of `--optimizer-serde` | 167,018 |
| `name_registry` | does every declaration get a name of its own, and is it referred to by it? | up to 4 of 11 declarations in every order, 3 of whose 5 local names are one base, with and without an interface | 261,917 |
| `codec` | do fields hold the document, and does a round trip keep it? | 33 types, one for each shape and kind of field, over five types of fields, validated or not; a document of up to 3 attributes, children and texts, and one of up to 1, into one value; each written and read again | 168,407 |
| `pipeline` | what does a run leave, however it ends? | 68 commands: 2 namespaces and none, packages given, made or one for both, a runtime package, also one of a namespace's name, types of which no declaration is left, bindings that compete or break; 2 runs into one directory, each failing or killed anywhere | 379,908 |

Three files are enough for a file to be reached along two paths of different length
and for a cycle off the path from the root, which are the cases that tell orders of
search apart. Two spellings and two competing entries suffice for every rule of
precedence. A patch relates two files, and a third one either lies between them or
is patched by both. In the optimizer a chain of three types is the shortest on which
a resolution that follows one step differs from one that follows all, and two unions
and two enumerations are the least that share something and differ in something. In
the registry two declarations make a suffix, a third one has the suffixed name
already, and a fourth one changes the group that the others are in. In a document
the second child shows whether the scope of the first was closed, and the first's
child whether it was opened. Three types make a derivation of a derivation and a
circle that the root is not part of. In `codec` three items are the least that show
order and repetition, and two documents show what of the first stays. In `pipeline`
a second run is what makes old files, and torn ones, matter. Three elements make a
member of a member, and a circle that the head is not part of; three types a
derivation of a derivation and two of one base, which is what tells the nearest
element from another one.

The recursion over the unions of these inputs, where it ends, is less deep
than the number of types; `StackLimit` is 12, more than twice that number, so an
overflow of the model is a recursion that repeats itself. In `fields` the acyclic
inputs have at most 40 tasks at a time.

One run must fail. It shows a disagreement between the code and what the
repository says of it; `PROJECT.json` quotes the line under `findings`.

| run | property | what happens |
|---|---|---|
| `fields_optional` | `RequiredOnlyIfAlwaysThere` | a reference with `minOccurs="0"` to a global element becomes a required field, as 0 is taken for unset |

Further disagreements that the models show and that have no run of their own.
Where a configuration or a definition is named, running it, or giving the
definition to the constant of a configuration, shows the violation:

* `MCOptimizerShared.cfg`: with `--optimizer-serde` two unions of the same two
  enumerations recurse without end (`passes_union.go:151`);
* `MCOptimizerFacets.cfg`: an alias of a restricted type loses the restriction
  (`helpers.go:105`);
* `MCNameRegistryInterfaces.cfg`: two heads of one local name in two namespaces of one
  package give two interfaces of one name (`generator/polymorphism.go:109`);
* a redefine of what the named file itself redefines yields a type that derives
  from itself, which `NoCircularDerivation` refuses (`RedefineThroughDisks`);
* an override does not reach the files that the named file includes, against
  `NamesStayUnique` (`OverrideThroughDisks`);
* with `--optimizer-serde` a union of an enumeration and an integer becomes an
  integer, against `NoValueLost` (`EnumOrIntInputs`);
* a union of a date and a string becomes a date, against `NoValueLost`
  (`DateOrStringInputs`);
* a constant of an enumeration may have the name of a type, against
  `DeclaredOnce` (`HelperInputs`);
* an element may lose its name to the suffixed type of another element, although
  `naming.go:73` says that the element keeps it.

And these, which were found while translating the code and are part of the models:

* parsers: `mixed` on a `complexContent` is ignored; an inline `simpleType` in a
  restriction is recorded as a facet of that name; a name without prefix, where no
  default namespace is bound, is of the target namespace; `parseGroupRef` pushes its
  element's scope twice, and pops it twice;
* patches: a schema's own type called `TRedefinedBase` collides with the one a redefine
  of `T` makes (`patches.go:188`); the model's names, a stem and a count, cannot;
* interpreter: occurrences of a sequence or an `all` are dropped, those of a choice
  are replaced by an outer choice's; a repeated group gives each of its elements the
  minimum 1, so `Validate` may demand every branch; a group's declarations get the
  namespace of the file that uses it; an attribute group reached along two ways
  gives its attributes twice; `use="prohibited"` makes an optional attribute; a
  restriction of complex content drops inherited attributes; an element `foo` with an
  anonymous type that extends a type called `fooType` is taken for that type; a
  reference to an element of no namespace is taken for a declaration of the schema
  itself, and gets its namespace where elements are qualified (`model.go:770`); circles of
  extensions keep `typeDistance` going, as do those of aliases `unrestrictedQName`;
* polymorphism: members of built-in or anonymous type are skipped
  (`polymorphism.go:158`); the second of two local elements of one abstract type is
  read into the field of the first (`polymorphic_render.go:218`); of a head and a member of
  one type the member is refused, as `XMLName` is the head's
  (`generator/polymorphism.go:17`); a container that is a member itself is written under its
  type's name and without its `xsi:type` (`polymorphic_render.go:276`);
* generated code: the points listed under GeneratedCodec; two choices in a row are one; of two branches of a choice of one the
  later silently wins; a wildcard in a choice or in mixed content matches nothing;
  mixed types have no attributes; content is appended to what a value held before;
  a nillable required field is not presence-tracked; one that is also fixed never
  validates; a presence error leaves the value half assigned; texts with an unknown
  child between them come back as one; a required wildcard that is missing is
  written as an element of its own;
* pipeline: a namespace with the runtime package's name replaces the runtime file, and the
  file may import itself; references into no namespace from another package do not compile;
  types of two packages that refer to each other make an import cycle; files of
  earlier runs stay; bindings match local names in every namespace; a field name from
  the bindings may be that of another field.

The inputs of the passing runs leave out the shapes of these where the property
is the same: `patches` patches declarations only in the file that holds them, and
no passing input has a date beside a string. In `optimizer_unions` the inputs are
all there, and two properties are stated for those that are `Apart`: enumerations
reached once, no union left with a single member. In `name_registry` no constant
has the name of a type and there is at most one interface. In `polymorphism`
the type of an abstract element is its own (or its name), and one name has one type; two slots
or elements that compete are in the inputs, and `Unambiguous` is what sets them apart. In `fields`
the references that are optional are left to the failing run; `ElementsMirrorModel`
states occurrences as the code defines them for groups. In `codec`
`AcceptedExactly` states what the generated checks refuse, not what XSD does, and
where a property is about a fresh value it says so (`StartsAfresh`). `SuccessIsComplete`
asks for the runtime's file, and `ImportsResolve` for its imports, unless a namespace has the
runtime package's name.

Deadlock is not checked: every model ends when its call returns, and stands still where the code
goes round a circle without end.

## Fairness

Each model is one call in one goroutine. It is never blocked and shares nothing,
so it takes another step while there is one: weak fairness of the whole
next-state relation, and of nothing finer. With it the loader ends
(`Termination`), the optimizer returns or overflows (`RunReturns`) and the
interpretation of a type ends unless a model group is inside of itself
(`InterpretationEnds`). In `Polymorphism` fairness is asked of the closing of the
relations only (`Closing`, for `ClosingEnds`): the loops after it run over
sequences that do not grow. The patches, the parser, the decoder and the pipeline
are loops over lists that are fixed when they start; they are specified without
fairness, and a run of the pipeline may be killed anyway.

## Proofs

`SchemaLoader_proofs` proves, for every file system, every list of roots and
every catalog that satisfy the assumptions named in `SchemaLoader`:

| theorem | states |
|---|---|
| `TypeCorrect` | `Spec => []TypeOK` |
| `NeverParsedAgain` | `Spec => []ParsedOnce` |
| `LoadsTheClosure` | `Spec => []LoadedExactly` |
| `FilesInOrder` | `Spec => []FirstMentionOrder` |
| `FailuresHaveAReason` | `Spec => []FailsForAReason` |
| `LoaderImplementsReachability` | `Spec => ImplementsReachability` |

`ParsedOnce` is not inductive: it needs that every parsed key is in `seen`. The
closure needs more. `LoaderInv` says, of a load under way, that the keys seen are
the keys of the files parsed, that everything in the queue, among the pending
references and among the files is reachable, and that whatever the files parsed
refer to is parsed, queued or pending. When queue and pending are empty the
files are closed under references, so they are all of `Reachable`, the least
closed set; as they are also within it they are equal. `Reachable` is written as
the intersection of all closed sets, not by recursion, which is what makes the
two halves provable without induction. The refinement uses the same invariant:
the head of the queue that is not seen is in the frontier.

That files are listed in the order of their first mention has an invariant of its
own, `OrderInv`. The names in the queue stand for mentions in the order in which these
were made (`MatchesQueue(p)` gives each its place `p`), and the queue misses no
mention of a file not yet looked at but the pending ones. Every file parsed was
mentioned by a root or by an earlier file (`MentionedBefore`), and before anything not
yet looked at (`ParsedBeforeUnseen`). So the first name in the queue that is not seen is the
file mentioned first of those that are left, and all files parsed were mentioned before
it.

`LexicalAssumption` is needed exactly where a reference is enqueued under the
spelling of the file that holds it, while the graph is about keys.

It also proves of the patches, for every number of files, patches and declarations:

| theorem | states |
|---|---|
| `PatchesTypeCorrect` | `PatchSpec => []PatchTypeOK` |
| `PatchesLoseNothingElse` | `PatchSpec => [](DocumentsFit => NothingElseLost)` |
| `NamesAreLeftUnique` | `PatchSpec => [](DocumentsFit /\ PatchesSettle => NamesStayUnique)` |
| `RedefinesDeriveFromTheirs` | `PatchSpec => [](DocumentsFit /\ PatchesSettle /\ RedefinesFit /\ OneBase => RedefinesDerive)` |
| `DerivationsEnd` | `PatchSpec => [](DocumentsFit /\ PatchesSettle /\ RedefinesFit /\ BasesFit /\ DocumentsDescend => NoCircularDerivation)` |

The edits are known when the first one is made (`AllEdits`, of which `work` is the
rest), so an invariant can speak of the first so many of them. `PatchInv` says that
each list is an `Account` of what its file declares: whatever it holds is one of
these, once, under its new name if one of the edits made so far renamed it
(`NameNow`); and of these only those are missing that an edit removed
(`RemovedBy`). `DerivationsInv` adds what each derives from: what it did, but for
its own name, which an edit of its file that found the other declaration has
replaced (`RefsNow`).

The hypotheses speak of the documents and the catalogs only, never of what the
edits do. Each leaves out documents that are no valid schemas, or for which the
code's answer depends on the order of the edits or is wrong:

| hypothesis | it asks that |
|---|---|
| `DocumentsFit` | ids tell declarations apart; a file declares a name of a kind once, its patches' children included; nobody spells `TRedefinedBase` where some `T` is redefined (`patches.go:188`); nothing is both overridden and redefined |
| `PatchesSettle` | of two declarations of one name in two files one is patched, and not both are redefined, which leaves out redefines of a redefine |
| `RedefinesFit` | a declaration is redefined by one file; a redefining type or group that names itself finds the other one, in another file |
| `OneBase` | a redefining type that names itself refers to nothing else of its kind |
| `BasesFit` | only redefining declarations name themselves, and none names a `TRedefinedBase` |
| `DocumentsDescend` | the names of a kind can be ordered so that a declaration's bases, but for its own name, come before it |

TLC evaluated them on the loader's result for all inputs of `patches`, where they
hold; the inputs that the failing shapes above name (`RedefineThroughDisks`,
`OverrideThroughDisks`) are without them. For `DerivationsEnd` a
declaration gets a number (`Height`): twice its place in the order of the documents, and one
more unless it is redefined. What it derives from in the end has a lower one
(`BasesAreLower`), so of any declarations the lowest derives from none of them.

`Optimizer_proofs` proves, for every list of types and every choice of passes:

| theorem | states |
|---|---|
| `TypesKeepNames` | `Spec => []Shape`: no pass drops, adds or renames a type |
| `DuplicatesAreKept` | `Spec => DuplicatesStay` |
| `CanonicalIsUnique` | `UniqueTypeNames => (Spec => []OneCanonical)` |
| `OptimizerTypes` | `Spec => []OptimizerTypeOK` |
| `DuplicatesLeadToTypes` | `UniqueTypeNames /\ NoCircles /\ NotMerging => (Spec => []DuplicatesEnd)` |
| `ReferencesAreResolved` | `UniqueTypeNames /\ NoCircles /\ NoBuiltinRedeclared /\ NotMerging => (Spec => []ReferencesResolved)` |

The first two go through every action with one argument: a step replaces types
by types of the same parts, name and kind (`StepKeeps`), and `MarkDuplicate` is
reached only by types that are no duplicates. For `MergeEnum` that is so
because the walk goes through duplicates and stops at none, and because the
first type of a name is the one that `FindMetaType` looked at.

The third one says that Go's random map iteration cannot be seen. Its invariant
`RoundInv` relates all pairs of canonical types of a round: two of them differ,
unless the name of the earlier one leads to something else, namely to an
element in front of it. `UniqueTypeNames` is needed: with two types of one name
the comparison may be made with a type that was never compared when it became
canonical. `MCOptimizer` assumes it too, so every run of the optimizer evaluates
it on its inputs.

The last three need what the function that follows a chain of typedefs, `EndOfChain`, returns.
A chain leaves the map or comes back within as many steps as the map has names, by the
pigeonhole principle (`ChainStops`), so its end exists and lies on it (`EndIsOnChain`);
and whatever set of names a map stays in, the end is in it (`EndStaysIn`). That is all
the types need (`TInv`: the types and maps are in their types, a pass that resolves has its
map of typedefs, and a walk is over the members of a union that is still one).

That duplicates lead to a type that is none is not inductive, since each of eight passes could
close a circle of duplicates, aliases and members. `Ranked` says that none is closed: names
have ranks, and all that a type, a map of typedefs or a walk refers to is declared and ranks
lower than what refers to it. No pass but one breaks the ranks that were there before, as it
moves a reference further down. `removeDuplicates` makes a type `q` a duplicate of a
canonical one, `k`, which may rank above it. But `k` has the same base and members as `q`, which
rank lower than `q`, so `k` can be put directly below `q` (`RankedAgain`) and above all that it
refers to. For that `k` must not be a duplicate itself (`LiveInv`). With ranks, the last
duplicate of a chain leads to a type. `ReferencesResolved` is left behind by one pass, `resolveTypedefs`: its map
has every typedef, and the types the pass has been at refer to none (`ResolveInv`); with ranks the end of
a chain is outside of the map, so no typedef is put in place of another one.

The hypotheses are about schemas, but for one. `NoCircles`: no type is made of itself, or of
what nobody declares. XML Schema forbids both and the code checks neither. Where
two aliases name each other `resolveKey` stops somewhere in the circle, so that references to
aliases remain, `unrestrictedQName` never returns and `unionMemberKey` overflows; the first
four theorems cover these too, up to the step that would not return.
`NoBuiltinRedeclared`: no schema declares names of the built-in namespace. An alias of a
built-in type is not in the map of typedefs; if that type were a duplicate, resolving its
name would make a typedef that the pass does not know. `NotMerging`: `mergeEnumUnions` is not enabled, as in the default passes. While it merges, an
enumeration becomes a duplicate of the union that still lists it, and no ranks exist; for that
pass both properties are model-checked only. `MCOptimizer` assumes `UniqueTypeNames`,
`NoBuiltinRedeclared` and an order that implies `NoCircles` (`NamesAreUnique`,
`BasesComeFirst`), so TLC evaluates them on every input of the runs.

`Generator_proofs` proves, of the registry, for every list of declarations and
interfaces and for every way in which names are joined, prefixed and sorted, and of
the generated code, for every type and every sequence of documents that are decoded
into a value:

| theorem | states |
|---|---|
| `NamesAreUnique` | `NumbersDiffer => (Spec => []NamesUnique)` |
| `PublicNamesAreDeclared` | `NumbersDiffer /\ InputsAreDistinct => (Spec => []PublicNames)` |
| `DocumentIsHeld` | `CodecSpec => []FieldsHoldTheDocument` |
| `OrderIsKept` | `CodecSpec => []ContentInOrder` |
| `AcceptanceIsExact` | `CodecSpec => []AcceptedExactly` |

That names given out differ is not inductive: it needs that each of them, and each
name of an interface, has a count above zero in `used`. A name without a count
is then new. The hypothesis `NumbersDiffer`, two numbers after one name make two
names, is what makes the loop of `uniqueName` end: of one more numbers than there
are names one is free, by the pigeonhole principle, and the choice is the
smallest of these.

That a type is referred to by its own name or by that of an element of that very type
needs to know how far the registry is, `RegistryInv`. The names are given group by group, the
declarations of one base each. In the first group that is left, all that were looked at have
their names (`GroupInv`); and a type whose group is done is public under a name of that
group (`PublicInv`). Sorting must neither lose nor repeat a base or a declaration:
`InOrder` puts each member where as many are before it as there are smaller ones, and `RankedList` proves of every
strict total order that all of them are in that list. `StringsAreOrdered` says that Go's order of strings is such an order.
`InputsAreDistinct`, no two types and no two elements of a list have one name, is a
hypothesis as the code does not refuse such a list: the two would share a key of its maps and
the later name would replace the earlier.

`CodecInv` says of a struct under way that each field is what `Collect` makes of
the tokens read for it so far (`Filling`): the items of a slice, or one token decoded into what the
ones before it left. Of a struct at its end it says that it is that, the
text, or the default (`StructDecoded`). One more token changes the tokens of one field, the
one `FieldFor` finds (`FieldForToken`, `OneMoreToken`). `ContentInv` is the same for
mixed and choice types: the value is what it held before and then the entries of
the known tokens read, and none of these failed. For `AcceptanceIsExact`, what is found at the end of a
decoding is what `Acceptable` asks (`AcceptsIfConforms`, `ValidIfConforms`), and at each place where it fails
the document has what `Acceptable` refuses: a content that is not of its type, a text, a missing
field, or a value that `Validate` refuses. The values are arbitrary: nothing is assumed of
`DecodedAs`, `EncodedAs`, `Sprint`, `Literal` and the `Validate` methods but their types. The hypotheses
that the properties state (see GeneratedCodec) are the only ones.

The round trip is not proved. It is model-checked for the types of the run.

`Polymorphism_proofs` proves, for every schema:

| theorem | states |
|---|---|
| `ClosuresAreComplete` | `Spec => []ClosuresComplete` |
| `PolymorphismTypeCorrect` | `Spec => []PolyTypeOK` |

`ClosingInv` says, of the search from a head, that what was found or waits on the
stack (`Reached`) is within the closure, holds what is directly below the head, and
holds what is below everything found. When the stack is empty, what was found is
closed, so it holds the least closed set, and it is within it. That it is closed
needs that `direct` maps a key to all that is below it, whatever the order of
the declarations (`CollectedAll`), which is built link by link
(`CollectedSoFar`). Nothing is assumed of the relations, circles are covered.

`DeclarationParser_proofs` proves, for every document that `WellFormed` describes:

| theorem | states |
|---|---|
| `ParserTypeCorrect` | `Spec => []ParserTypeOK` |
| `FramesStayOpen` | `Spec => []FramesAreOpenElements` |
| `ReferencesStayMeant` | `Spec => []ReferencesMeanWhatTheySay` |
| `BrokenGiveNoFile` | `Spec => []BrokenDocumentsFail` |
| `DeclarationsStayRead` | `Spec => []DeclarationsAreRead` |

The invariant of the first four, `PInv`, says that the frames are, from the bottom to the top, the elements
open before the current token, and that the scopes are the bindings on them. A
function that skips the rest of its own element, and so pushes its scope a second
time, is one frame with one scope in the model: both hold the same bindings and
end at the same tag. `WellFormed` is what `encoding/xml` guarantees: each start tag has the
list of elements open at it, and an end tag closes the last of them.

`DeclarationsStayRead` relates what one pass over the tokens has stored to the
document as a tree. The parent of an element starts before it, so there is one
`Reading` of each element, by the table of its parent (`ReadingIs`). The invariant
`RInv` adds to `PInv` that each frame reads its element in that way and hands
nothing on inside of what is skipped (`FramesRead`), that `text` is about the
element being read for its text (`TextRead`), and that a field holds
exactly the closed elements that go there, or the last of them where the table
stores one (`FieldsRead`). A returning frame is behind all that its caller holds
already (`GoesInside`), so that appending keeps the order of the document, and so
does joining the fields of a patch to those of the file. It needs two facts about the
tables: all that goes into one field is stored in the same way (`GoesMode`), and a
patch holds no patch, so that joining never meets the field the patch itself is
stored in (`IntoPatch`, `PatchChildren`). Nothing is assumed of documents beyond
`WellFormed`.

`ComplexFields_proofs` proves, for every schema that satisfies `SchemaAssumption`,
whatever circles its types and attribute groups make:

| theorem | states |
|---|---|
| `GuardsAlwaysMatch` | `Spec => []GuardsMatchCalls` |
| `AttributesBecomeFields` | `Spec => []AttributesAreFields` |
| `TextStaysLast` | `Spec => []TextIsLast` |
| `ElementsMirror` | `Spec => [](Fit => ElementsMirrorModel)` |

For the first one the invariant `IInv` says that the keys of the two maps are the
types and groups whose end is still to come on the stack `todo`, each there once
(`Marked`), together with what is on it (`Stack`) and which names a schema declares
(`Known`). It is why a `delete` when a call returns cannot remove
the mark of an outer call. That the recursion ends is left to TLC.

The other three relate the fields to what the schema says, and for that need to know
which types have been entered. `Way(s)`: the types entered so far are `s`, each the base of
the one before it. While the code descends, no field is made yet; after it, `s`
cannot be extended, so that it is the `Chain` of the property, reversed (`PathIsChain`, by
induction over the recursive definition of `Chain`). On it rest

* `AInv`, for the attributes: each attribute and each attribute group of the types entered is a field
  or expanded, or is on the stack still to come; the same of each group expanded
  (`Covered`); and nothing else is there (`Attributed`). A group that is skipped because
  it is being visited has been expanded, or the visit is going on. At the end
  the groups expanded are closed under reference, so they hold `GroupsOf`, which is defined
  as the intersection of all closed sets.
* `TInv`, for the text: of a way of types of simple content the texts still to come are
  on the stack in order, behind everything else that makes fields (`TextsOn`,
  `TextsBehind`), and the text so far is the one field that the last `j` types give (`OneText`).
* `EInv`, for the elements: there are lists `made` and `pend`, what each field was to be
  (`Mirror`) and what each task on the stack is still to give (`Dues`), and one after the
  other they are what the types of the way give (`Model`). A group is replaced by its
  particles without changing that (`DueOfGroup`). A choice that ends may put its
  own `maxOccurs` on fields made long before; that is right because whatever was made or
  is to come inside of a group that repeats was expected to be many (`Repeats`).

`Leaves` goes down the particles and has a value only if that ends. So `Fit` asks for
`~ CyclicGroups` (with a group inside of itself the code never returns), and induction over the
depth of the particles (`NodesByDepth`) gives each node its leaves (`TreeExists`, `LeavesAre`). It also asks for `OccursFit`:
a global group has no occurrences of its own, which XML Schema forbids, and no particle
has `maxOccurs="0"`. The latter is legal, and without it the property is false: an element of
`maxOccurs="0"` in a choice of `maxOccurs="unbounded"` becomes a field that holds many, though the
schema allows none of it. All schemas of the runs of `fields` satisfy it.

`Pipeline_proofs` proves, for every set of commands:

| theorem | states |
|---|---|
| `PipelineTypeCorrect` | `Spec => []PipelineTypeOK` |
| `FilesStayOldOrNew` | `Spec => []FilesAreOldOrNew` |
| `OutputImplemented` | `Spec => ImplementsOutput` |
| `ImportsAlwaysResolve` | `Spec => []ImportsResolve` |
| `SuccessCompletes` | `Spec => []SuccessIsComplete` |

`ImportsAlwaysResolve` needs `RenderInv`: the map holds the files rendered so far,
each under its own path, and success leaves exactly them on disk. An imported
package then has a file, since `CommandOK` says that what a type uses is a type of the schemas too;
and that file lies in a directory of its own, since where all is one package nothing
is imported but the runtime.

`SuccessCompletes` needs to know what each stage left to the next ones, `StagesInv`.
The names so far are those of the last binding in the files loaded so far
(`BindingsKnown`): `Walk` goes through one file, and the last binding in two
lists together is that of the second, or of the first where the second has none
(`LastOfConcat`). The packages are those asked for (`PackagesKnown`). Of the files
with one path the last is the one kept (`FilesKnown`), so that a package's file is
on disk unless a later one has its path. The runtime's comes first, and it is the one on disk where no
package of a type has its name (`RuntimeOnDisk`). `CommandOK` says what an interpreted type is: its
namespace is that of one of the schemas, and what it uses is interpreted too.

Some invariants are proved and not model-checked, as they say little on a small
instance: the type invariants `TypeOK`, `PolyTypeOK`, `ParserTypeOK` and
`PipelineTypeOK`, and `FailsForAReason` and `FilesAreOldOrNew`, which the refinements
that are checked imply for the most part.

Model-checked only: what the optimizer does to values, references and duplicates
where `mergeEnumUnions` is enabled, that packages declare each
name once (`DeclaredOnce`), and what is read and written through
polymorphic fields, and that decoded values survive a round trip. `DeclaredOnce`, `ValidIsRead` and `WrittenIsRead` hold for the inputs of the runs and not
for every input: a constant may have the name of a type, two packages may make the same
interface, and a group may have a member whose type does not derive from its head's
(`Substitutable`), or an abstract element whose type another one has (`AbstractApart`). No hypothesis that would exclude these is as weak as the
code justifies without repeating what the property says.

Liveness is out of the prover's reach. The library's induction theorems cannot be
used either, as they take an operator; `IndexLemmas` derives induction over numbers
and over lists for properties that are given as sets (`NumbersByInduction`,
`ListsByInduction`), and with it what a function that is defined by recursion is
(`RecursionExists`). Selections, concatenations of lists and what is written for a
value are treated in that way, and so are chains of typedefs. What is left out is data
without a bound on its depth that is not a list: the values that a union of unions of
restrictions means, by which `NoValueLost` is defined.

## Not modelled, and why

* The command line: it parses flags and prints errors.
* In the parsers, the text of attributes: numbers of occurrences, values of facets.
* In the interpreter, documentation, the declarations made of anonymous types,
  `declarations.go`, which gathers what bindings refer to, and
  `canonicalGlobalElementWire`, which renames local elements after a habit of some
  schemas.
* In the generator, names of fields, the table of built-in types and the values
  of constants; property bindings, which only name fields.
* In the renderer, the layout of declarations and the helpers for scalars, facets,
  lists, unions and enumerations: each is a function of one string, without state.
* The passes that are empty in Go, and `replaceXSAnyType`, which no caller
  enables.
* In `Polymorphism` attributes and regular fields of containers, and in
  `GeneratedCodec` polymorphic fields: each module has the other's part.
* Concurrency: the program has one goroutine, and generated code is called by one.
  Two runs into one directory at a time are not coordinated by the code.

## Plan

Done: a model of every component but the command line, and theorems for all of
them. Next:

1. that values survive a round trip, along an invariant of the second decoding: what was
   read and what is left of it is what was written, and each token comes back to the field that
   wrote it;
2. that passes of the optimizer lose no value, for types that are `Apart`; the ranks of
   `Ranked` are what an induction over the meaning of types would go along;
3. references and duplicates where `mergeEnumUnions` is enabled;
4. a model of the names of fields, with the bindings that replace them.
