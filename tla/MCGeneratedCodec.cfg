\* Every shape of generated code, and two documents into one value.
SPECIFICATION CodecSpec
CONSTANTS
  Types <- MCTypes
  Namespaces = {"", "urn:t", "urn:y"}
  Locals = {"A", "B", "L", "Y", "AnyElement"}
  AnyElementName <- MCAnyElement
  TargetNamespace = "urn:t"
  InScope = "urn:t"
  DeclaredNames <- MCDeclared
  GoTypes = {"string", "number", "bytes", "enum", "struct"}
  Values <- MCValues
  Pieces <- MCPieces
  Bad = Bad
  Nil = Nil
  Unbounded = Unbounded
  Tokens <- MCTokens
  ZeroOf <- MCZeroOf
  DecodedAs <- MCDecodedAs
  EncodedAs <- MCEncodedAs
  Sprint <- MCSprint
  Literal <- MCLiteral
  HasValidate <- MCHasValidate
  ValidValues <- MCValidValues
  MaxTokens = 3
  MaxDocuments = 2
INVARIANTS FieldsHoldTheDocument ContentInOrder AcceptedExactly RoundTrip
CHECK_DEADLOCK FALSE
