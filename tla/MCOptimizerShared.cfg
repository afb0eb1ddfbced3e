\* Two unions of the same enumerations.
SPECIFICATION Spec
CONSTANTS
  QName <- MCQName
  XSDNames <- MCXSD
  StringName = "string"
  NamespaceOf <- MCNamespaceOf
  ScalarBucket <- MCBucket
  FacetValue <- MCValues
  EmptyValue = Empty
  Empty = Empty
  X = X
  Y = Y
  One = One
  True = True
  Date = Date
  FieldName <- MCFieldNames
  None = None
  StackLimit = 12
  Space <- MCSpace
  Allowed <- MCAllowed
  Flags <- AllFlags
  Inputs <- SharedInputs
  MemberLists <- MCMembers
INVARIANT NeverOverflows
CHECK_DEADLOCK FALSE
