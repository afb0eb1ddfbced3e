\* Every reference graph over three files.
SPECIFICATION Spec
CONSTANTS
  Files = {1, 2, 3}
  Key <- MCKey
  Path <- MCPath
  Location <- MCLocation
  EmptyLocation <- MCEmpty
  Body <- MCBody
  Unreadable = Unreadable
  AbsKey <- MCAbsKey
  Join <- MCJoin
  HasPrefix <- MCHasPrefix
  Rewrite <- MCRewrite
  Disks <- GraphDisks
  RootLists <- GraphRoots
  CatalogLists <- NoCatalog
INVARIANT FirstMentionOrder
PROPERTIES ImplementsReachability Termination
CHECK_DEADLOCK FALSE
