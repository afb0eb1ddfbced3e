CONSTANTS
  None = ""
  Numbered <- MCNumbered
  Text <- MCText
  Joined <- MCJoined
  Before <- MCBefore
  Namespace <- MCNamespaces
  Local <- MCLocals
  Ident <- MCIdents
  Package <- MCNamespaces
  Value <- MCValue
  GoName <- MCGoName
  GoNameOf <- MCGoNameOf
  LegacyGoName <- MCLegacyGoName
  NamespacePrefix <- MCPrefix
  PackageOf <- MCPackage
  GoPart <- MCGoPart
  LegacyConstPart <- MCLegacyConstPart
  Inputs <- CollidingInputs
  InterfaceLists <- MCInterfaceLists
SPECIFICATION Spec
INVARIANTS NamesUnique PublicNames DeclaredOnce
CHECK_DEADLOCK FALSE
