\* Two children of any name below each kind of declaration.
SPECIFICATION Spec
CONSTANTS
  Docs <- MCDocs
  Prefix <- MCPrefix
  NoPrefix = ""
  Namespace <- MCNamespace
  NoNamespace = ""
  Unresolved = Unresolved
INVARIANTS FramesAreOpenElements ReferencesMeanWhatTheySay DeclarationsAreRead BrokenDocumentsFail
CHECK_DEADLOCK FALSE
