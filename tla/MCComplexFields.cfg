\* Every content model of a table, and every way three types derive from each other.
SPECIFICATION Spec
CONSTANTS
  Schemas <- MCSchemas
  Namespace <- MCNamespace
  NoNamespace = ""
  NoName = ""
  Unbounded <- Many
  StackLimit = 40
INVARIANTS GuardsMatchCalls ElementsMirrorModel AttributesAreFields TextIsLast
PROPERTY InterpretationEnds
CHECK_DEADLOCK FALSE
