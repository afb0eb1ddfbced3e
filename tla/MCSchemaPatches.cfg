\* Overrides and redefines of declarations in the file they name.
SPECIFICATION PatchSpec
CONSTANTS
  Files = {1, 2, 3}
  Key <- MCKey
  Path <- MCPath
  Location <- MCLocation
  EmptyLocation <- MCEmpty
  Body <- MCBodies
  Unreadable = Unreadable
  AbsKey <- MCAbsKey
  Join <- MCJoin
  HasPrefix <- MCHasPrefix
  Rewrite <- MCRewrite
  Disks <- DirectDisks
  RootLists <- PatchRoots
  CatalogLists <- NoCatalog
  Stem <- MCStem
  Id <- MCId
INVARIANTS NamesStayUnique NoCircularDerivation RedefinesDerive NothingElseLost
CHECK_DEADLOCK FALSE
