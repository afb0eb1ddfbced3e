CONSTANTS
  None = ""
  Numbered <- MCNumbered
  Text <- MCText
  Joined <- MCJoined
  Before <- MCBefore
  Namespace <- MCNamespaces
  Local <- MCLocals
  Ident <- MCIdents
  Package <- MCNamespaces
  Value <- MCValue
  GoName <- MCGoName
  GoNameOf <- MCGoNameOf
  LegacyGoName <- MCLegacyGoName
  NamespacePrefix <- MCPrefix
  PackageOf <- MCPackage
  GoPart <- MCGoPart
  LegacyConstPart <- MCLegacyConstPart
  Inputs <- NoInputs
  InterfaceLists <- SameInterfaces
SPECIFICATION Spec
INVARIANTS DeclaredOnce
CHECK_DEADLOCK FALSE
