\* A field that is required belongs to an element that may be missing.
SPECIFICATION Spec
CONSTANTS
  Schemas <- OptionalReferences
  Namespace <- MCNamespace
  NoNamespace = ""
  NoName = ""
  Unbounded <- Many
  StackLimit = 40
INVARIANT RequiredOnlyIfAlwaysThere
CHECK_DEADLOCK FALSE
