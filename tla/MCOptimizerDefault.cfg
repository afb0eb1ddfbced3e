\* The default passes.
SPECIFICATION Spec
CONSTANTS
  QName <- MCQName
  XSDNames <- MCXSD
  StringName = "string"
  NamespaceOf <- MCNamespaceOf
  ScalarBucket <- MCBucket
  FacetValue <- MCValues
  EmptyValue = Empty
  Empty = Empty
  X = X
  Y = Y
  One = One
  True = True
  Date = Date
  FieldName <- MCFieldNames
  None = None
  StackLimit = 12
  Space <- MCSpace
  Allowed <- MCAllowed
  Flags <- DefaultFlags
  Inputs <- DefaultInputs
  MemberLists <- MCMembers
INVARIANTS NoValueLost OneCanonical ReferencesResolved
PROPERTY RunReturns
CHECK_DEADLOCK FALSE
