\* Substitution groups and slots of abstract types.
SPECIFICATION Spec
CONSTANTS
  Key <- MCKey
  None = None
  BuiltIn <- MCBuiltIn
  Before <- MCBefore
  Schemas <- MCSchemas
INVARIANTS ClosuresComplete ValidIsRead WrittenIsRead
PROPERTY ClosingEnds
CHECK_DEADLOCK FALSE
