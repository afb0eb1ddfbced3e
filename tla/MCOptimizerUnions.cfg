\* Unions with the passes of --optimizer-serde.
SPECIFICATION Spec
CONSTANTS
  QName <- MCQName
  XSDNames <- MCXSD
  StringName = "string"
  NamespaceOf <- MCNamespaceOf
  ScalarBucket <- MCBucket
  FacetValue <- MCValues
  EmptyValue = Empty
  Empty = Empty
  X = X
  Y = Y
  One = One
  True = True
  Date = Date
  FieldName <- MCFieldNames
  None = None
  StackLimit = 12
  Space <- MCSpace
  Allowed <- MCAllowed
  Flags <- AllFlags
  Inputs <- UnionInputs
  MemberLists <- MCMembers
INVARIANTS ApartLosesNoValue ApartNeverOverflows DuplicatesEnd
PROPERTY DuplicatesStay
CHECK_DEADLOCK FALSE
