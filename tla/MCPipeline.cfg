\* Two runs into one directory, each of which may fail or be killed anywhere.
SPECIFICATION Spec
CONSTANTS
  Namespaces = {"urn:a", "urn:b", ""}
  NoNamespace = ""
  Packages = {"model", "a", "b", "runtime"}
  Names = {"T", "U", "V", "W"}
  NoPackage = NoPackage
  PackageNameOf <- MCPackageNameOf
  TopDirectory = "."
  Absent = Absent
  Torn = Torn
  Broken = Broken
  MaxRuns = 2
  Commands <- MCCommands
INVARIANTS SuccessIsComplete ImportsResolve
PROPERTY ImplementsOutput
CHECK_DEADLOCK FALSE
