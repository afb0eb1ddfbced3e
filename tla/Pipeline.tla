------------------------------ MODULE Pipeline ------------------------------
(***************************************************************************)
(* The generate and convert commands (pipeline/pipeline.go): load the      *)
(* bindings, parse, interpret, optimize, generate, render, write.  What the*)
(* stages compute is the other modules' business; here a schema set is a   *)
(* sequence of files and types, and each stage may fail.  What is modelled *)
(* in full is what connects them: the bindings (binding/binding.go), the   *)
(* namespaces' packages, the generator's plan of files and imports, the    *)
(* renderer's map of file names, and the writing of it, with runs that fail*)
(* or are killed at any point and further runs into the same directory.    *)
(*                                                                         *)
(* A path is the package directory, or TopDirectory for a file that lies   *)
(* in the output directory itself.                                         *)
(***************************************************************************)
EXTENDS Naturals, Sequences, FiniteSets, SequencesExt

CONSTANTS
  Commands,       \* the commands that may be run, see CommandOK
  Namespaces, Packages,
  Names,          \* of types and classes
  NoNamespace,    \* the empty target namespace
  NoPackage,      \* no --runtime-package
  PackageNameOf,  \* packageNameFromNamespace, for each namespace
  TopDirectory, Absent, Torn,
  Broken,         \* a binding file that cannot be read or parsed
  MaxRuns         \* bound: runs into the directory

(* The class bindings of a file, in document order.                         *)
BindingFile == Seq([local : Names, class : Names])

(* A command is what its options and the files it names amount to.  Types   *)
(* and schemas are sequences.  A type has the namespace of its schema, and  *)
(* what it refers to is declared: the namespaces that it uses have types.   *)
(* It may name a helper of the runtime, and its file may be given one for   *)
(* registries, prefixes, validation or XML methods of its own.  An element  *)
(* whose alias would be its type again is met but not declared.             *)
CommandOK(c) ==
  /\ DOMAIN c.explicit \subseteq Namespaces \ {NoNamespace}
  /\ \A ns \in DOMAIN c.explicit : c.explicit[ns] \in Packages
  /\ c.auto \in BOOLEAN /\ c.package \in Packages /\ c.runtime \in Packages \cup {NoPackage}
  /\ \A i \in DOMAIN c.schemas : c.schemas[i] \in Namespaces
  /\ \A i \in DOMAIN c.types :
       /\ c.types[i].namespace \in ToSet(c.schemas) /\ c.types[i].local \in Names
       /\ c.types[i].uses \subseteq {c.types[j].namespace : j \in DOMAIN c.types}
       /\ c.types[i].named \in BOOLEAN /\ c.types[i].served \in BOOLEAN
       /\ c.types[i].declared \in BOOLEAN
  /\ c.bindings \in Seq({Broken} \cup BindingFile)

Paths == Packages \cup {TopDirectory}

(* A generated file: the types it declares and the packages it imports.     *)
File == [path : Paths, package : Packages, isRuntime : BOOLEAN,
         types : SUBSET [namespace : Namespaces, local : Names, name : Names],
         imports : SUBSET Packages]

ASSUME PipelineAssumption ==
  /\ \A c \in Commands : CommandOK(c)
  /\ IsFiniteSet(Packages) /\ NoNamespace \in Namespaces /\ NoPackage \notin Packages
  /\ \A ns \in Namespaces : PackageNameOf[ns] \in Packages
  /\ TopDirectory \notin Packages /\ MaxRuns \in Nat
  /\ Broken \notin BindingFile
  /\ Absent # Torn /\ Absent \notin File /\ Torn \notin File

VARIABLES
  command,     \* the options of the current run
  phase,       \* what it does next
  at,          \* the next binding file, type or file
  overrides,   \* bindings.TypeNameOverrides
  packages,    \* options.NamespacePackages
  files,       \* the generated package's files, in order
  rendered,    \* RenderPackage's map, file name to source
  pending,     \* the files still to be written
  disk,        \* the output directory
  start,       \* the output directory when the run began
  result,      \* of the last run
  runs

vars == <<command, phase, at, overrides, packages, files, rendered, pending, disk,
          start, result, runs>>

NoFiles == [path \in {} |-> Absent]
NoCommand == [explicit |-> << >>, auto |-> FALSE, package |-> "model", runtime |-> NoPackage,
              bindings |-> << >>, schemas |-> << >>, types |-> << >>]

-----------------------------------------------------------------------------
(* walk: a class binding renames the type of its node.  A file is the       *)
(* sequence of its bindings in document order, a parent before its children.*)
Walk(old, file) ==
  [local \in DOMAIN old \cup {file[i].local : i \in DOMAIN file} |->
     IF \E i \in DOMAIN file : file[i].local = local
     THEN file[CHOOSE i \in DOMAIN file : /\ file[i].local = local
                                          /\ \A j \in DOMAIN file :
                                               file[j].local = local => j <= i].class
     ELSE old[local]]

(* autoNamespacePackages; the seeded fault prefers the derived names.       *)
AutoNamespacePackagesOver(c) ==
  [ns \in DOMAIN c.explicit \cup (ToSet(c.schemas) \ {NoNamespace}) |->
     IF ns \in ToSet(c.schemas) THEN PackageNameOf[ns] ELSE c.explicit[ns]]

AutoNamespacePackages(c) ==
  [ns \in DOMAIN c.explicit \cup (ToSet(c.schemas) \ {NoNamespace}) |->
     IF ns \in DOMAIN c.explicit THEN c.explicit[ns] ELSE PackageNameOf[ns]]

(* packageForNamespace, and the file names of getFile; the seeded fault puts*)
(* the default package's file at the top even beside others.                *)
PackageForNamespace(ns) == IF ns \in DOMAIN packages THEN packages[ns] ELSE command.package
PathOfTop(package) == IF package # command.package THEN package ELSE TopDirectory

PathOf(package) == IF package # command.package \/ DOMAIN packages # {} THEN package
                   ELSE TopDirectory

(* typeNameOverride                                                         *)
TypeNameOverride(local) == IF local \in DOMAIN overrides THEN overrides[local] ELSE local

TypesOf(package) == {i \in DOMAIN command.types :
                       PackageForNamespace(command.types[i].namespace) = package}
Declared(package) == {i \in TypesOf(package) : command.types[i].declared}

(* qualifyIdentifier, runtimeType, and the end of generate: a type imports  *)
(* the packages of what it refers to, but nothing for what has no namespace,*)
(* which is taken for built-in; and the runtime for the helpers it names.   *)
(* What its file is given imports the runtime whatever the file's package.  *)
ImportsOf(package) ==
  LET types == {command.types[i] : i \in Declared(package)}
      used == {PackageForNamespace(ns) : ns \in (UNION {type.uses : type \in types}) \ {NoNamespace}}
      runtime == {command.runtime} \ {NoPackage}
  IN ((used \cup (IF \E type \in types : type.named THEN runtime ELSE {})) \ {package})
       \cup (IF \E type \in types : type.served THEN runtime ELSE {})

PackageFile(package) ==
  [path |-> PathOf(package), package |-> package, isRuntime |-> FALSE,
   types |-> {[namespace |-> command.types[i].namespace, local |-> command.types[i].local,
               name |-> TypeNameOverride(command.types[i].local)] : i \in Declared(package)},
   imports |-> ImportsOf(package)]

RuntimeFile == [path |-> command.runtime, package |-> command.runtime, isRuntime |-> TRUE,
                types |-> {}, imports |-> {}]

(* GenerateWithOptions: the shared runtime first, then the packages of the  *)
(* types it met, declared or not.  The renderer's map makes the order of    *)
(* the latter irrelevant.                                                   *)
GeneratedFiles ==
  (IF command.runtime = NoPackage THEN << >> ELSE <<RuntimeFile>>)
  \o LET used == SetToSeq({p \in Packages : TypesOf(p) # {}})
     IN [i \in DOMAIN used |-> PackageFile(used[i])]

-----------------------------------------------------------------------------
Init ==
  /\ command = NoCommand /\ phase = "idle" /\ at = 1
  /\ overrides = << >> /\ packages = << >> /\ files = << >>
  /\ rendered = NoFiles /\ pending = {}
  /\ disk = [path \in Paths |-> Absent] /\ start = disk
  /\ result = "none" /\ runs = 0

Invoke == \E c \in Commands :
  /\ phase = "idle" /\ runs < MaxRuns
  /\ command' = c /\ phase' = "bindings" /\ at' = 1 /\ runs' = runs + 1
  /\ overrides' = << >> /\ packages' = << >> /\ files' = << >> /\ rendered' = NoFiles
  /\ start' = disk /\ result' = "none"
  /\ UNCHANGED <<pending, disk>>

(* An error of any stage is returned at once.                               *)
Return(error) ==
  /\ phase' = "idle" /\ result' = error /\ pending' = {}
  /\ UNCHANGED <<command, at, overrides, packages, files, rendered, start, runs>>

StageFails ==
  /\ phase \in {"parse", "interpret", "optimize", "generate", "render", "directory"}
  /\ Return("error") /\ UNCHANGED disk

LoadBinding ==
  /\ phase = "bindings" /\ at <= Len(command.bindings)
  /\ command.bindings[at] # Broken
  /\ overrides' = Walk(overrides, command.bindings[at]) /\ at' = at + 1
  /\ UNCHANGED <<command, phase, packages, files, rendered, pending, disk, start, result, runs>>

BindingFails ==
  /\ phase = "bindings" /\ at <= Len(command.bindings)
  /\ command.bindings[at] = Broken
  /\ Return("error") /\ UNCHANGED disk

BindingsLoaded ==
  /\ phase = "bindings" /\ at > Len(command.bindings)
  /\ phase' = "parse"
  /\ UNCHANGED <<command, at, overrides, packages, files, rendered, pending, disk, start, result, runs>>

(* ParseFilesWithOptions, and the packages of the namespaces it found.      *)
ParseFiles ==
  /\ phase = "parse" /\ phase' = "interpret"
  /\ packages' = IF command.auto THEN AutoNamespacePackages(command) ELSE command.explicit
  /\ UNCHANGED <<command, at, overrides, files, rendered, pending, disk, start, result, runs>>

Interpret ==
  /\ phase = "interpret" /\ phase' = "optimize"
  /\ UNCHANGED <<command, at, overrides, packages, files, rendered, pending, disk, start, result, runs>>

Optimize ==
  /\ phase = "optimize" /\ phase' = "generate"
  /\ UNCHANGED <<command, at, overrides, packages, files, rendered, pending, disk, start, result, runs>>

Generate ==
  /\ phase = "generate" /\ phase' = "render"
  /\ files' = GeneratedFiles /\ at' = 1
  /\ UNCHANGED <<command, overrides, packages, rendered, pending, disk, start, result, runs>>

(* RenderPackage: a map from file names, so of two files of one name the    *)
(* later is kept.                                                           *)
RenderFile ==
  /\ phase = "render" /\ at <= Len(files)
  /\ rendered' = [path \in DOMAIN rendered \cup {files[at].path} |->
                    IF path = files[at].path THEN files[at] ELSE rendered[path]]
  /\ at' = at + 1
  /\ UNCHANGED <<command, phase, overrides, packages, files, pending, disk, start, result, runs>>

PackageRendered ==
  /\ phase = "render" /\ at > Len(files) /\ phase' = "directory"
  /\ UNCHANGED <<command, at, overrides, packages, files, rendered, pending, disk, start, result, runs>>

MakeDirectory ==
  /\ phase = "directory" /\ phase' = "write" /\ pending' = DOMAIN rendered
  /\ UNCHANGED <<command, at, overrides, packages, files, rendered, disk, start, result, runs>>

(* The loop of GenerateWithOptions over a Go map: in any order.             *)
WriteFile == \E path \in pending :
  /\ phase = "write"
  /\ disk' = [disk EXCEPT ![path] = rendered[path]]
  /\ pending' = pending \ {path}
  /\ UNCHANGED <<command, phase, at, overrides, packages, files, rendered, start, result, runs>>

(* The directory of a file cannot be made, or os.WriteFile, which truncates *)
(* before it writes, fails.  The seeded fault drops the error.              *)
WriteFailsIgnored ==
  /\ phase = "write" /\ pending # {}
  /\ \/ UNCHANGED disk
     \/ \E path \in pending : disk' = [disk EXCEPT ![path] = Torn]
  /\ Return("success")

WriteFails ==
  /\ phase = "write" /\ pending # {}
  /\ \/ UNCHANGED disk
     \/ \E path \in pending : disk' = [disk EXCEPT ![path] = Torn]
  /\ Return("error")

Finish ==
  /\ phase = "write" /\ pending = {}
  /\ Return("success") /\ UNCHANGED disk

(* The process is killed, wherever it is; what it wrote stays written.      *)
Kill ==
  /\ phase # "idle"
  /\ \/ UNCHANGED disk
     \/ phase = "write" /\ \E path \in pending : disk' = [disk EXCEPT ![path] = Torn]
  /\ Return("killed")

Step == \/ LoadBinding \/ BindingFails \/ BindingsLoaded
        \/ ParseFiles \/ Interpret \/ Optimize \/ Generate \/ StageFails
        \/ RenderFile \/ PackageRendered
        \/ MakeDirectory \/ WriteFile \/ WriteFails \/ Finish

Next == Invoke \/ Step \/ Kill

Spec == Init /\ [][Next]_vars

-----------------------------------------------------------------------------
PipelineTypeOK ==
  /\ command \in Commands \cup {NoCommand}
  /\ phase \in {"idle", "bindings", "parse", "interpret", "optimize", "generate",
                "render", "directory", "write"}
  /\ at \in Nat \ {0}
  /\ DOMAIN overrides \subseteq Names /\ \A n \in DOMAIN overrides : overrides[n] \in Names
  /\ DOMAIN packages \subseteq Namespaces /\ \A ns \in DOMAIN packages : packages[ns] \in Packages
  /\ files \in Seq(File)
  /\ DOMAIN rendered \subseteq Paths /\ \A path \in DOMAIN rendered : rendered[path] \in File
  /\ pending \subseteq DOMAIN rendered
  /\ DOMAIN disk = Paths /\ DOMAIN start = Paths
  /\ result \in {"none", "success", "error", "killed"} /\ runs \in 0 .. MaxRuns

(* Whatever fails and wherever a run is killed, a file is what it was when  *)
(* the run began or what the run rendered; before everything is rendered it *)
(* is the former; and at most one, that the run had not finished, is torn.  *)
FilesAreOldOrNew ==
  /\ phase \notin {"idle", "write"} => disk = start
  /\ \A path \in Paths \ DOMAIN rendered : disk[path] = start[path]
  /\ \A path \in DOMAIN rendered \ pending :
       disk[path] \in {start[path], rendered[path], Torn}
  /\ phase = "write" => \A path \in DOMAIN rendered :
       disk[path] = IF path \in pending THEN start[path] ELSE rendered[path]
  /\ \A p, q \in Paths : disk[p] = Torn /\ start[p] # Torn
                           /\ disk[q] = Torn /\ start[q] # Torn => p = q

(* The Go name of a type: its own, or the one that the last binding of its  *)
(* name gives it, over all binding files in the order of the command line.  *)
Bindings(c) == FlattenSeq(c.bindings)
LastClass(bindings, local) ==
  LET places == {i \in DOMAIN bindings : bindings[i].local = local}
  IN IF places = {} THEN local ELSE bindings[Max(places)].class
Renamed(c, local) == LastClass(Bindings(c), local)

(* The package that was asked for a namespace: given, or made from it.      *)
PackageMeant(ns) ==
  IF ns \in DOMAIN command.explicit THEN command.explicit[ns]
  ELSE IF command.auto /\ ns # NoNamespace THEN PackageNameOf[ns]
  ELSE command.package

(* A run that reports success has every type that it declares on disk, under*)
(* the name the bindings give it, in the one package that was asked for its *)
(* namespace; and the shared runtime, unless that package's name was asked  *)
(* for a namespace too.  Whatever earlier runs, complete or not, left there.*)
SuccessIsComplete ==
  (phase = "idle" /\ result = "success") =>
    /\ \A i \in DOMAIN command.types : command.types[i].declared =>
         LET type == command.types[i]
             package == PackageMeant(type.namespace)
             declares(path) ==
               /\ path \in DOMAIN rendered /\ disk[path] \notin {Absent, Torn}
               /\ \E t \in disk[path].types :
                    t.namespace = type.namespace /\ t.local = type.local
         IN /\ {path \in Paths : declares(path)} = {PathOf(package)}
            /\ \A t \in disk[PathOf(package)].types :
                 t.namespace = type.namespace /\ t.local = type.local
                   => t.name = Renamed(command, type.local)
            /\ disk[PathOf(package)].package = package
    /\ (/\ command.runtime # NoPackage
        /\ \A i \in DOMAIN command.types : PackageMeant(command.types[i].namespace) # command.runtime)
         => disk[command.runtime] = RuntimeFile

(* After a run that succeeded every package that one of its files imports   *)
(* is there, the shared runtime package too, unless a namespace was given   *)
(* that package's name.                                                     *)
ImportsResolve ==
  (phase = "idle" /\ result = "success"
     /\ \A i \in DOMAIN command.types :
          PackageForNamespace(command.types[i].namespace) # command.runtime) =>
    \A path \in DOMAIN rendered : \A package \in disk[path].imports :
      /\ disk[package] \notin {Absent, Torn} /\ disk[package].package = package
      /\ package = command.runtime => disk[package].isRuntime

(* The directory as an OutputDirectory: a plan is fixed when everything is  *)
(* rendered, and kept to.                                                   *)
Output == INSTANCE OutputDirectory
  WITH writing <- phase = "write",
       plan <- IF phase = "write" THEN rendered ELSE NoFiles,
       success <- result = "success"
ImplementsOutput == Output!OutputSpec
=============================================================================
