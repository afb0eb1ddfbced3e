\* Two files under every spelling, and catalogs whose entries compete.
SPECIFICATION Spec
CONSTANTS
  Files = {1, 2}
  Key <- MCKey
  Path <- MCPath
  Location <- MCLocation
  EmptyLocation <- MCEmpty
  Body <- MCBody
  Unreadable = Unreadable
  AbsKey <- MCAbsKey
  Join <- MCJoin
  HasPrefix <- MCHasPrefix
  Rewrite <- MCRewrite
  Disks <- SpelledDisks
  RootLists <- SpelledRoots
  CatalogLists <- SpelledCatalogs
INVARIANTS LoadedExactly ParsedOnce

CHECK_DEADLOCK FALSE
