--------------------------- MODULE Pipeline_proofs ---------------------------
(***************************************************************************)
(* For every set of commands, and any number of runs that fail or are      *)
(* killed anywhere: the pipeline keeps its type, a file of the output      *)
(* directory is what it was or what the run rendered, at most one is torn, *)
(* the directory is used as OutputDirectory says, what the files of a run  *)
(* that succeeded import is there, and the directory then holds all that   *)
(* the command asked for.                                                  *)
(***************************************************************************)
EXTENDS Pipeline, IndexLemmas, SequenceTheorems, FiniteSetTheorems, TLAPS

(* What else holds between the steps: a run has a command and no result     *)
(* yet, and only a run that writes has files still to write.                *)
PhaseInv ==
  /\ phase # "idle" => command \in Commands /\ result = "none"
  /\ phase # "write" => pending = {}

TypeInv == PipelineTypeOK /\ PhaseInv

-----------------------------------------------------------------------------
(* A set of packages, as a sequence.                                        *)
LEMMA SetToSeqType ==
  ASSUME NEW S \in SUBSET Packages
  PROVE  SetToSeq(S) \in Seq(S)
<1>1. IsFiniteSet(S)
  BY PipelineAssumption, FS_Subset
<1>2. Cardinality(S) \in Nat /\ ExistsBijection(1 .. Cardinality(S), S)
  BY <1>1, FS_CardinalityType
<1>3. PICK f \in Bijection(1 .. Cardinality(S), S) : TRUE
  BY <1>2 DEF ExistsBijection
<1>4. f \in [1 .. Cardinality(S) -> S] /\ IsInjective(f)
  BY <1>3 DEF Bijection, Injection, IsInjective
<1>5. SetToSeq(S) \in [1 .. Cardinality(S) -> S]
  BY <1>4 DEF SetToSeq
<1> QED  BY <1>2, <1>5

(* One binding file gives names to names.                                   *)
LEMMA WalkType ==
  ASSUME NEW old, DOMAIN old \subseteq Names, \A n \in DOMAIN old : old[n] \in Names,
         NEW file \in Seq([local : Names, class : Names])
  PROVE  LET new == Walk(old, file) IN
         DOMAIN new \subseteq Names /\ \A n \in DOMAIN new : new[n] \in Names
<1>1. /\ Len(file) \in Nat /\ DOMAIN file = 1 .. Len(file)
      /\ \A i \in DOMAIN file : file[i].local \in Names /\ file[i].class \in Names
  <2>1. Len(file) \in Nat /\ DOMAIN file = 1 .. Len(file)
    BY LenProperties
  <2>2. \A i \in 1 .. Len(file) : file[i] \in [local : Names, class : Names]
    BY ElementOfSeq
  <2> QED  BY <2>1, <2>2
<1> DEFINE named(local) == {i \in DOMAIN file : file[i].local = local}
           last(local) == CHOOSE i \in DOMAIN file :
                            /\ file[i].local = local
                            /\ \A j \in DOMAIN file : file[j].local = local => j <= i
<1>2. ASSUME NEW local, \E i \in DOMAIN file : file[i].local = local
      PROVE  file[last(local)].class \in Names
  <2>1. named(local) # {} /\ named(local) \subseteq 1 .. Len(file)
    BY <1>1, <1>2
  <2>2. PICK i \in named(local) : \A j \in named(local) : j <= i
    <3> HIDE DEF named
    <3> QED  BY <1>1, <2>1, LargestIndex
  <2>3. last(local) \in DOMAIN file
    BY <2>2
  <2> QED  BY <2>3, <1>1
<1> DEFINE D == DOMAIN old \cup {file[i].local : i \in DOMAIN file}
<1>3. Walk(old, file) = [local \in D |->
        IF \E i \in DOMAIN file : file[i].local = local
        THEN file[last(local)].class ELSE old[local]]
  BY DEF Walk
<1>4. D \subseteq Names
  BY <1>1
<1>5. ASSUME NEW n \in D
      PROVE  (IF \E i \in DOMAIN file : file[i].local = n
              THEN file[last(n)].class ELSE old[n]) \in Names
  <2>1. CASE \E i \in DOMAIN file : file[i].local = n
    <3> HIDE DEF last
    <3> QED  BY <2>1, <1>2
  <2>2. CASE ~ \E i \in DOMAIN file : file[i].local = n
    <3>1. n \in DOMAIN old
      BY <2>2
    <3> HIDE DEF last, D
    <3> QED  BY <2>2, <3>1
  <2> QED  BY <2>1, <2>2
<1> HIDE DEF last, D
<1> QED  BY <1>3, <1>4, <1>5

(* Types are of the namespaces of schemas.                                  *)
LEMMA TypeNamespaces ==
  ASSUME NEW c, CommandOK(c)
  PROVE  \A i \in DOMAIN c.types : c.types[i].namespace \in Namespaces
<1>1. ToSet(c.schemas) \subseteq Namespaces
  BY DEF CommandOK, ToSet
<1> QED  BY <1>1 DEF CommandOK

(* The packages of the namespaces.                                          *)
LEMMA PackagesType ==
  ASSUME NEW c \in Commands
  PROVE  LET p == IF c.auto THEN AutoNamespacePackages(c) ELSE c.explicit IN
         DOMAIN p \subseteq Namespaces /\ \A ns \in DOMAIN p : p[ns] \in Packages
<1>1. CommandOK(c)
  BY PipelineAssumption
<1>2. ToSet(c.schemas) \subseteq Namespaces
  BY <1>1 DEF CommandOK, ToSet
<1> QED  BY <1>1, <1>2, PipelineAssumption DEF CommandOK, AutoNamespacePackages

(* A package imports the runtime or another package that it refers to.      *)
LEMMA ImportsAre ==
  ASSUME NEW p, NEW q \in ImportsOf(p)
  PROVE  \/ q = command.runtime /\ command.runtime # NoPackage
         \/ /\ q # p
            /\ \E i \in Declared(p) : \E ns \in command.types[i].uses : q = PackageForNamespace(ns)
<1> DEFINE types == {command.types[i] : i \in Declared(p)}
           used == {PackageForNamespace(ns) : ns \in (UNION {type.uses : type \in types}) \ {NoNamespace}}
           runtime == {command.runtime} \ {NoPackage}
           named == IF \E type \in types : type.named THEN runtime ELSE {}
           served == IF \E type \in types : type.served THEN runtime ELSE {}
<1>1. q \in runtime \/ (q \in used /\ q # p)
  <2>1. ImportsOf(p) = ((used \cup named) \ {p}) \cup served
    BY DEF ImportsOf
  <2>2. named \subseteq runtime /\ served \subseteq runtime
    OBVIOUS
  <2> HIDE DEF used, named, served, runtime
  <2> QED  BY <2>1, <2>2
<1>2. CASE q \in used /\ q # p
  <2>1. PICK ns \in UNION {type.uses : type \in types} : q = PackageForNamespace(ns)
    BY <1>2
  <2>2. PICK i \in Declared(p) : ns \in command.types[i].uses
    BY <2>1
  <2> QED  BY <1>2, <2>1, <2>2
<1>3. q \in runtime => q = command.runtime /\ command.runtime # NoPackage
  OBVIOUS
<1> QED  BY <1>1, <1>2, <1>3

LEMMA GeneratedFilesType ==
  ASSUME PipelineTypeOK, command \in Commands
  PROVE  GeneratedFiles \in Seq(File)
<1>1. CommandOK(command)
  BY PipelineAssumption
<1>2. \A ns \in Namespaces : PackageForNamespace(ns) \in Packages
  BY <1>1 DEF CommandOK, PackageForNamespace, PipelineTypeOK
<1>3. \A local \in Names : TypeNameOverride(local) \in Names
  BY DEF TypeNameOverride, PipelineTypeOK
<1>4. ASSUME NEW p \in Packages PROVE PackageFile(p) \in File
  <2>1. PathOf(p) \in Paths
    BY DEF PathOf, Paths
  <2>2. ImportsOf(p) \subseteq Packages
    <3>1. \A i \in Declared(p) : command.types[i].uses \subseteq Namespaces
      BY <1>1, TypeNamespaces DEF Declared, TypesOf, CommandOK
    <3>2. command.runtime # NoPackage => command.runtime \in Packages
      BY <1>1 DEF CommandOK
    <3> QED  BY <1>2, <3>1, <3>2, ImportsAre
  <2>3. \A i \in Declared(p) : /\ command.types[i].namespace \in Namespaces
                               /\ command.types[i].local \in Names
    BY <1>1, TypeNamespaces DEF Declared, TypesOf, CommandOK
  <2> DEFINE types == {[namespace |-> command.types[i].namespace, local |-> command.types[i].local,
                        name |-> TypeNameOverride(command.types[i].local)] : i \in Declared(p)}
  <2>4. types \subseteq [namespace : Namespaces, local : Names, name : Names]
    BY <2>3, <1>3
  <2>5. PackageFile(p) = [path |-> PathOf(p), package |-> p, isRuntime |-> FALSE,
                          types |-> types, imports |-> ImportsOf(p)]
    BY DEF PackageFile
  <2> HIDE DEF types
  <2> QED  BY <2>1, <2>2, <2>4, <2>5 DEF File
<1>5. command.runtime # NoPackage => RuntimeFile \in File
  BY <1>1 DEF RuntimeFile, File, CommandOK, Paths
<1> DEFINE packageFiles == {p \in Packages : TypesOf(p) # {}}
           used == SetToSeq(packageFiles)
           first == IF command.runtime = NoPackage THEN << >> ELSE <<RuntimeFile>>
           rest == [i \in DOMAIN used |-> PackageFile(used[i])]
<1>6. used \in Seq(packageFiles)
  BY SetToSeqType
<1>7. rest \in Seq(File)
  <2>1. Len(used) \in Nat /\ DOMAIN used = 1 .. Len(used)
    <3> HIDE DEF used
    <3> QED  BY <1>6, LenProperties
  <2>2. \A i \in 1 .. Len(used) : used[i] \in packageFiles
    <3> HIDE DEF used, packageFiles
    <3> QED  BY <1>6, ElementOfSeq
  <2>3. \A i \in 1 .. Len(used) : PackageFile(used[i]) \in File
    <3> HIDE DEF used
    <3> QED  BY <2>2, <1>4
  <2> HIDE DEF used
  <2> QED  BY <2>1, <2>3
<1>8. first \in Seq(File)
  <2>1. CASE command.runtime = NoPackage
    BY <2>1, EmptySeq
  <2>2. CASE command.runtime # NoPackage
    BY <2>2, <1>5
  <2> QED  BY <2>1, <2>2
<1>9. GeneratedFiles = first \o rest
  BY DEF GeneratedFiles
<1> HIDE DEF first, rest
<1> QED  BY <1>7, <1>8, <1>9, ConcatProperties

-----------------------------------------------------------------------------
LEMMA InitTypeInv == Init => TypeInv
<1> SUFFICES ASSUME Init PROVE TypeInv
  OBVIOUS
<1>1. << >> \in Seq(File) /\ DOMAIN << >> = {}
  BY EmptySeq
<1>2. DOMAIN NoFiles = {}
  BY DEF NoFiles
<1> QED  BY <1>1, <1>2, PipelineAssumption DEF Init, TypeInv, PipelineTypeOK, PhaseInv

LEMMA ReturnTypeInv ==
  ASSUME TypeInv, NEW error \in {"success", "error", "killed"}, Return(error), DOMAIN disk' = Paths
  PROVE  TypeInv'
BY DEF TypeInv, PipelineTypeOK, PhaseInv, Return

LEMMA NextTypeInv ==
  ASSUME TypeInv, [Next]_vars
  PROVE  TypeInv'
<1> USE DEF TypeInv, PipelineTypeOK, PhaseInv
<1>1. CASE Invoke
  <2>1. << >> \in Seq(File) /\ DOMAIN << >> = {} /\ DOMAIN NoFiles = {}
    BY EmptySeq DEF NoFiles
  <2>2. runs + 1 \in 0 .. MaxRuns
    BY <1>1, PipelineAssumption DEF Invoke
  <2> QED  BY <1>1, <2>1, <2>2 DEF Invoke
<1>2. CASE LoadBinding
  <2> DEFINE file == command.bindings[at]
  <2>1. command \in Commands
    BY <1>2 DEF LoadBinding
  <2>2. CommandOK(command)
    BY <2>1, PipelineAssumption
  <2>3. command.bindings \in Seq({Broken} \cup BindingFile)
    BY <2>2 DEF CommandOK
  <2>4. file \in Seq([local : Names, class : Names])
    <3>1. at \in 1 .. Len(command.bindings)
      BY <1>2, <2>3, LenProperties DEF LoadBinding
    <3>2. file \in {Broken} \cup BindingFile
      BY <2>3, <3>1, ElementOfSeq
    <3> QED  BY <1>2, <3>2 DEF LoadBinding, BindingFile
  <2>5. /\ DOMAIN Walk(overrides, file) \subseteq Names
        /\ \A n \in DOMAIN Walk(overrides, file) : Walk(overrides, file)[n] \in Names
    <3> HIDE DEF file
    <3> QED  BY <2>4, WalkType
  <2> QED  BY <1>2, <2>5 DEF LoadBinding
<1>3. CASE BindingFails
  BY <1>3, ReturnTypeInv DEF BindingFails
<1>4. CASE BindingsLoaded
  BY <1>4 DEF BindingsLoaded
<1>5. CASE ParseFiles
  BY <1>5, PackagesType DEF ParseFiles
<1>6. CASE Interpret
  BY <1>6 DEF Interpret
<1>7. CASE Optimize
  BY <1>7 DEF Optimize
<1>8. CASE Generate
  <2>1. GeneratedFiles \in Seq(File)
    BY <1>8, GeneratedFilesType DEF Generate
  <2> QED  BY <1>8, <2>1 DEF Generate
<1>9. CASE StageFails
  BY <1>9, ReturnTypeInv DEF StageFails
<1>10. CASE RenderFile
  <2>1. files[at] \in File
    BY <1>10, LenProperties, ElementOfSeq DEF RenderFile
  <2>2. files[at].path \in Paths
    BY <2>1 DEF File
  <2>3. DOMAIN rendered' \subseteq Paths /\ \A path \in DOMAIN rendered' : rendered'[path] \in File
    BY <1>10, <2>1, <2>2 DEF RenderFile
  <2>4. pending = {}
    BY <1>10 DEF RenderFile
  <2> QED  BY <1>10, <2>3, <2>4 DEF RenderFile
<1>11. CASE PackageRendered
  BY <1>11 DEF PackageRendered
<1>12. CASE MakeDirectory
  BY <1>12 DEF MakeDirectory
<1>13. CASE WriteFile
  BY <1>13 DEF WriteFile
<1>14. CASE WriteFails
  <2>1. DOMAIN disk' = Paths
    BY <1>14 DEF WriteFails
  <2> QED  BY <1>14, <2>1, ReturnTypeInv DEF WriteFails
<1>15. CASE Finish
  BY <1>15, ReturnTypeInv DEF Finish
<1>16. CASE Kill
  <2>1. DOMAIN disk' = Paths
    BY <1>16 DEF Kill
  <2> QED  BY <1>16, <2>1, ReturnTypeInv DEF Kill
<1>17. CASE UNCHANGED vars
  BY <1>17 DEF vars
<1> QED
  BY <1>1, <1>2, <1>3, <1>4, <1>5, <1>6, <1>7, <1>8, <1>9, <1>10, <1>11, <1>12, <1>13,
     <1>14, <1>15, <1>16, <1>17 DEF Next, Step

(* Every variable keeps its type, whatever fails and wherever a run is      *)
(* killed: what is rendered and written is a generated file at a path of    *)
(* the output directory.                                                    *)
THEOREM PipelineTypeCorrect == Spec => []PipelineTypeOK
<1>1. TypeInv => PipelineTypeOK
  BY DEF TypeInv
<1> QED  BY InitTypeInv, NextTypeInv, <1>1, PTL DEF Spec

-----------------------------------------------------------------------------
LEMMA InitFiles == Init => FilesAreOldOrNew
BY DEF Init, FilesAreOldOrNew, NoFiles

(* The steps of the stages before the writing.                              *)
LEMMA StageFiles ==
  ASSUME TypeInv, FilesAreOldOrNew, phase \notin {"idle", "write"}, phase' # "write",
         UNCHANGED <<disk, start>>
  PROVE  FilesAreOldOrNew'
<1>1. disk = start
  BY DEF FilesAreOldOrNew
<1> QED  BY <1>1 DEF FilesAreOldOrNew, TypeInv, PipelineTypeOK

(* A run that ends while it writes, with what it was writing torn or not.   *)
LEMMA EndFiles ==
  ASSUME TypeInv, FilesAreOldOrNew, phase = "write", NEW error, Return(error),
         \/ UNCHANGED disk
         \/ \E path \in pending : disk' = [disk EXCEPT ![path] = Torn]
  PROVE  FilesAreOldOrNew'
<1>1. /\ DOMAIN disk = Paths /\ pending \subseteq DOMAIN rendered /\ DOMAIN rendered \subseteq Paths
      /\ \A path \in DOMAIN rendered : rendered[path] # Torn
  BY PipelineAssumption DEF TypeInv, PipelineTypeOK
<1>2. /\ phase' = "idle" /\ pending' = {} /\ start' = start /\ rendered' = rendered
  BY DEF Return
<1>3. /\ \A path \in Paths \ DOMAIN rendered : disk[path] = start[path]
      /\ \A path \in DOMAIN rendered :
           disk[path] = IF path \in pending THEN start[path] ELSE rendered[path]
  BY DEF FilesAreOldOrNew
<1>4. \A path \in Paths : disk[path] = Torn => start[path] = Torn
  BY <1>1, <1>3
<1>5. CASE UNCHANGED disk
  <2>1. \A path \in DOMAIN rendered : disk[path] \in {start[path], rendered[path], Torn}
    BY <1>3
  <2> QED  BY <1>2, <1>3, <1>4, <1>5, <2>1 DEF FilesAreOldOrNew
<1>6. ASSUME NEW path \in pending, disk' = [disk EXCEPT ![path] = Torn]
      PROVE  FilesAreOldOrNew'
  <2>1. path \in DOMAIN rendered /\ path \in Paths
    BY <1>1
  <2>2. \A p \in Paths : disk'[p] = IF p = path THEN Torn ELSE disk[p]
    BY <1>1, <1>6
  <2>3. \A p \in Paths \ DOMAIN rendered : disk'[p] = start[p]
    BY <1>3, <2>1, <2>2
  <2>4. \A p \in DOMAIN rendered : disk'[p] \in {start[p], rendered[p], Torn}
    BY <1>1, <1>3, <2>2
  <2>5. \A p \in Paths : disk'[p] = Torn /\ start[p] # Torn => p = path
    BY <1>4, <2>2
  <2> QED  BY <1>2, <2>3, <2>4, <2>5 DEF FilesAreOldOrNew
<1> QED  BY <1>5, <1>6

LEMMA NextFiles ==
  ASSUME TypeInv, FilesAreOldOrNew, [Next]_vars
  PROVE  FilesAreOldOrNew'
<1>1. CASE Invoke
  BY <1>1 DEF Invoke, FilesAreOldOrNew, NoFiles
<1>2. CASE \/ LoadBinding \/ BindingsLoaded \/ ParseFiles \/ Interpret \/ Optimize
           \/ Generate \/ RenderFile \/ PackageRendered \/ BindingFails \/ StageFails
  <2>1. phase \notin {"idle", "write"} /\ phase' # "write" /\ UNCHANGED <<disk, start>>
    BY <1>2 DEF LoadBinding, BindingsLoaded, ParseFiles, Interpret, Optimize, Generate,
                RenderFile, PackageRendered, BindingFails, StageFails, Return
  <2> QED  BY <2>1, StageFiles
<1>3. CASE MakeDirectory
  <2>1. disk = start
    BY <1>3 DEF MakeDirectory, FilesAreOldOrNew
  <2> QED  BY <1>3, <2>1 DEF MakeDirectory, FilesAreOldOrNew, TypeInv, PipelineTypeOK
<1>4. CASE WriteFile
  <2>1. PICK path \in pending : /\ disk' = [disk EXCEPT ![path] = rendered[path]]
                                /\ pending' = pending \ {path}
    BY <1>4 DEF WriteFile
  <2>2. UNCHANGED <<phase, rendered, start>> /\ phase = "write"
    BY <1>4 DEF WriteFile
  <2>3. /\ DOMAIN disk = Paths /\ pending \subseteq DOMAIN rendered /\ DOMAIN rendered \subseteq Paths
        /\ \A p \in DOMAIN rendered : rendered[p] # Torn
    BY PipelineAssumption DEF TypeInv, PipelineTypeOK
  <2>4. \A p \in Paths : disk'[p] = IF p = path THEN rendered[p] ELSE disk[p]
    BY <2>1, <2>3
  <2>5. /\ \A p \in Paths \ DOMAIN rendered : disk'[p] = start[p]
        /\ \A p \in DOMAIN rendered :
             disk'[p] = IF p \in pending' THEN start[p] ELSE rendered[p]
    BY <2>1, <2>2, <2>3, <2>4 DEF FilesAreOldOrNew
  <2>6. \A p \in Paths : disk'[p] = Torn => start[p] = Torn
    BY <2>3, <2>5
  <2> QED  BY <2>2, <2>5, <2>6 DEF FilesAreOldOrNew
<1>5. CASE WriteFails
  BY <1>5, EndFiles DEF WriteFails
<1>6. CASE Finish
  BY <1>6, EndFiles DEF Finish
<1>7. CASE Kill
  <2>1. CASE phase = "write"
    BY <1>7, <2>1, EndFiles DEF Kill
  <2>2. CASE phase # "write"
    BY <1>7, <2>2, StageFiles DEF Kill, Return
  <2> QED  BY <2>1, <2>2
<1>8. CASE UNCHANGED vars
  BY <1>8 DEF vars, FilesAreOldOrNew
<1> QED
  BY <1>1, <1>2, <1>3, <1>4, <1>5, <1>6, <1>7, <1>8 DEF Next, Step

(* Whatever fails and wherever a run is killed, a file is what it was when  *)
(* the run began or what the run rendered, nothing is touched before all is *)
(* rendered, and a run tears at most one file.                              *)
THEOREM FilesStayOldOrNew == Spec => []FilesAreOldOrNew
BY InitTypeInv, NextTypeInv, InitFiles, NextFiles, PTL DEF Spec

-----------------------------------------------------------------------------
LEMMA OutputInitialised == Init => Output!OutputInit
BY DEF Init, Output!OutputInit

LEMMA OutputStep ==
  ASSUME TypeInv, [Next]_vars
  PROVE  [Output!Begin \/ Output!Put \/ Output!Succeed \/ Output!GiveUp]_(Output!outputVars)
<1> USE DEF Output!outputVars
<1>1. CASE Invoke
  BY <1>1 DEF Invoke, Output!GiveUp, TypeInv, PhaseInv
<1>2. CASE \/ LoadBinding \/ BindingsLoaded \/ ParseFiles \/ Interpret \/ Optimize
           \/ Generate \/ RenderFile \/ PackageRendered
  <2>1. /\ phase # "write" /\ phase' # "write" /\ UNCHANGED <<disk, pending, result>>
    BY <1>2 DEF LoadBinding, BindingsLoaded, ParseFiles, Interpret, Optimize, Generate,
                RenderFile, PackageRendered
  <2> QED  BY <2>1
<1>3. CASE BindingFails \/ StageFails \/ WriteFails \/ Kill
  BY <1>3 DEF BindingFails, StageFails, WriteFails, Kill, Return, Output!GiveUp
<1>4. CASE MakeDirectory
  BY <1>4 DEF MakeDirectory, Output!Begin, TypeInv, PhaseInv, PipelineTypeOK
<1>5. CASE WriteFile
  BY <1>5 DEF WriteFile, Output!Put
<1>6. CASE Finish
  BY <1>6 DEF Finish, Return, Output!Succeed
<1>7. CASE UNCHANGED vars
  BY <1>7 DEF vars
<1> QED
  BY <1>1, <1>2, <1>3, <1>4, <1>5, <1>6, <1>7 DEF Next, Step

(* The pipeline uses the directory as OutputDirectory says: every file is   *)
(* decided before the first is touched, and success is reported only when   *)
(* all are in place.                                                        *)
THEOREM OutputImplemented == Spec => ImplementsOutput
<1>1. Init /\ [][Next]_vars => []TypeInv
  BY InitTypeInv, NextTypeInv, PTL
<1> QED
  BY <1>1, OutputInitialised, OutputStep, PTL DEF Spec, ImplementsOutput, Output!OutputSpec
-----------------------------------------------------------------------------
(* The generated files: the runtime, if there is one, and one for each      *)
(* package of which a type was met.                                         *)
IsGenerated(f) ==
  \/ command.runtime # NoPackage /\ f = RuntimeFile
  \/ \E p \in Packages : TypesOf(p) # {} /\ f = PackageFile(p)

LEMMA SetToSeqOnto ==
  ASSUME NEW S \in SUBSET Packages
  PROVE  \A p \in S : \E i \in DOMAIN SetToSeq(S) : SetToSeq(S)[i] = p
<1>1. IsFiniteSet(S)
  BY PipelineAssumption, FS_Subset
<1>2. Cardinality(S) \in Nat /\ ExistsBijection(1 .. Cardinality(S), S)
  BY <1>1, FS_CardinalityType
<1>3. PICK f \in Bijection(1 .. Cardinality(S), S) : TRUE
  BY <1>2 DEF ExistsBijection
<1>4. f \in [1 .. Cardinality(S) -> S] /\ IsInjective(f)
  BY <1>3 DEF Bijection, Injection, IsInjective
<1>5. SetToSeq(S) \in [1 .. Cardinality(S) -> S] /\ IsInjective(SetToSeq(S))
  BY <1>4 DEF SetToSeq
<1>6. SetToSeq(S) \in Injection(1 .. Cardinality(S), S)
  BY <1>5 DEF Injection, IsInjective
<1>7. IsFiniteSet(1 .. Cardinality(S)) /\ Cardinality(1 .. Cardinality(S)) = Cardinality(S)
  BY <1>2, FS_Interval
<1>8. SetToSeq(S) \in Surjection(1 .. Cardinality(S), S)
  BY <1>1, <1>6, <1>7, FS_Injection
<1> QED  BY <1>5, <1>8 DEF Surjection

LEMMA GeneratedAre ==
  /\ \A i \in DOMAIN GeneratedFiles : IsGenerated(GeneratedFiles[i])
  /\ \A f : IsGenerated(f) => \E i \in DOMAIN GeneratedFiles : GeneratedFiles[i] = f
  /\ \A i \in DOMAIN GeneratedFiles : i # 1 => ~ GeneratedFiles[i].isRuntime
<1> DEFINE packageFiles == {p \in Packages : TypesOf(p) # {}}
           used == SetToSeq(packageFiles)
           first == IF command.runtime = NoPackage THEN << >> ELSE <<RuntimeFile>>
           rest == [i \in DOMAIN used |-> PackageFile(used[i])]
<1>1. used \in Seq(packageFiles)
  BY SetToSeqType
<1>2. /\ Len(used) \in Nat /\ DOMAIN used = 1 .. Len(used)
      /\ \A i \in 1 .. Len(used) : used[i] \in packageFiles
  <2> HIDE DEF used, packageFiles
  <2> QED  BY <1>1, LenProperties, ElementOfSeq
<1>3. \A p \in packageFiles : \E i \in DOMAIN used : used[i] = p
  BY SetToSeqOnto
<1>4. Len(rest) = Len(used) /\ DOMAIN rest = 1 .. Len(used)
  <2> HIDE DEF used
  <2> QED  BY <1>2
<1>5. GeneratedFiles = first \o rest
  BY DEF GeneratedFiles
<1>6. /\ Len(first) = IF command.runtime = NoPackage THEN 0 ELSE 1
      /\ command.runtime # NoPackage => first[1] = RuntimeFile
  OBVIOUS
<1>7. DOMAIN GeneratedFiles = 1 .. Len(first) + Len(used)
  <2> HIDE DEF first, rest, used
  <2> QED  BY <1>2, <1>4, <1>5, <1>6
<1>8. \A i \in DOMAIN GeneratedFiles :
        GeneratedFiles[i] = IF i <= Len(first) THEN first[i] ELSE PackageFile(used[i - Len(first)])
  <2> HIDE DEF first, used
  <2> QED  BY <1>2, <1>4, <1>5, <1>6, <1>7
<1> HIDE DEF first, rest, used
<1>9. ASSUME NEW i \in DOMAIN GeneratedFiles PROVE IsGenerated(GeneratedFiles[i])
  <2>1. CASE i <= Len(first)
    <3>1. i = 1 /\ command.runtime # NoPackage
      BY <1>2, <1>6, <1>7, <2>1
    <3> QED  BY <1>6, <1>8, <2>1, <3>1 DEF IsGenerated
  <2>2. CASE ~(i <= Len(first))
    <3>1. i - Len(first) \in 1 .. Len(used)
      BY <1>2, <1>6, <1>7, <2>2
    <3>2. used[i - Len(first)] \in packageFiles
      BY <1>2, <3>1
    <3> QED  BY <1>8, <2>2, <3>2 DEF IsGenerated
  <2> QED  BY <2>1, <2>2
<1>10. ASSUME NEW f, IsGenerated(f)
       PROVE  \E i \in DOMAIN GeneratedFiles : GeneratedFiles[i] = f
  <2>1. CASE command.runtime # NoPackage /\ f = RuntimeFile
    <3>1. 1 \in DOMAIN GeneratedFiles /\ 1 <= Len(first)
      BY <1>2, <1>6, <1>7, <2>1
    <3> QED  BY <1>6, <1>8, <2>1, <3>1
  <2>2. ASSUME NEW p \in Packages, TypesOf(p) # {}, f = PackageFile(p)
        PROVE  \E i \in DOMAIN GeneratedFiles : GeneratedFiles[i] = f
    <3>1. PICK j \in 1 .. Len(used) : used[j] = p
      BY <1>2, <1>3, <2>2
    <3>2. Len(first) + j \in DOMAIN GeneratedFiles /\ ~(Len(first) + j <= Len(first))
            /\ (Len(first) + j) - Len(first) = j
      BY <1>2, <1>6, <1>7, <3>1
    <3> QED  BY <1>8, <2>2, <3>1, <3>2
  <2> QED  BY <1>10, <2>1, <2>2 DEF IsGenerated
<1>11. ASSUME NEW i \in DOMAIN GeneratedFiles, i # 1 PROVE ~ GeneratedFiles[i].isRuntime
  <2>1. ~(i <= Len(first))
    BY <1>2, <1>6, <1>7, <1>11
  <2>2. GeneratedFiles[i] = PackageFile(used[i - Len(first)])
    BY <1>8, <2>1
  <2> QED  BY <2>2 DEF PackageFile
<1> QED  BY <1>9, <1>10, <1>11

-----------------------------------------------------------------------------
(* From the first file rendered to the success: the map holds the files      *)
(* rendered so far, each under its path, and success leaves them on disk.    *)
RenderedTo(k) ==
  /\ DOMAIN rendered = {files[i].path : i \in 1 .. k}
  /\ \A path \in DOMAIN rendered :
       \E i \in 1 .. k : rendered[path] = files[i] /\ files[i].path = path

Succeeded == phase = "idle" /\ result = "success"

RenderInv ==
  /\ phase \in {"bindings", "parse", "interpret", "optimize", "generate"} => DOMAIN rendered = {}
  /\ phase \in {"render", "directory", "write"} \/ Succeeded =>
       files = GeneratedFiles /\ at <= Len(files) + 1 /\ RenderedTo(at - 1)
  /\ phase \in {"directory", "write"} \/ Succeeded => at = Len(files) + 1
  /\ Succeeded => \A path \in DOMAIN rendered : disk[path] = rendered[path]
  /\ Succeeded => command \in Commands

ImportsInv == TypeInv /\ FilesAreOldOrNew /\ RenderInv

LEMMA GeneratedUnchanged ==
  ASSUME UNCHANGED <<command, overrides, packages>>
  PROVE  GeneratedFiles' = GeneratedFiles
<1>1. \A p : TypesOf(p)' = TypesOf(p) /\ PackageFile(p)' = PackageFile(p)
  BY DEF TypesOf, Declared, PackageForNamespace, PackageFile, PathOf, TypeNameOverride, ImportsOf
<1> QED  BY <1>1 DEF GeneratedFiles, RuntimeFile

LEMMA NextRender ==
  ASSUME ImportsInv, [Next]_vars
  PROVE  RenderInv'
<1> USE DEF ImportsInv, TypeInv, PhaseInv
<1>1. at \in Nat \ {0} /\ files \in Seq(File) /\ Len(files) \in Nat
  BY LenProperties DEF PipelineTypeOK
<1>2. CASE Invoke
  BY <1>2 DEF Invoke, NoFiles, RenderInv, Succeeded
<1>3. CASE \/ LoadBinding \/ BindingsLoaded \/ ParseFiles \/ Interpret \/ Optimize
  <2>1. /\ phase \in {"bindings", "parse", "interpret", "optimize"} /\ rendered' = rendered
        /\ phase' \in {"bindings", "parse", "interpret", "optimize", "generate"}
    BY <1>3 DEF LoadBinding, BindingsLoaded, ParseFiles, Interpret, Optimize
  <2> QED  BY <2>1 DEF RenderInv, Succeeded
<1>4. CASE Generate
  <2>1. GeneratedFiles' = GeneratedFiles
    BY <1>4, GeneratedUnchanged DEF Generate
  <2>2. files' = GeneratedFiles /\ at' = 1 /\ phase' = "render" /\ rendered' = rendered
        /\ DOMAIN rendered = {}
    BY <1>4 DEF Generate, RenderInv
  <2>3. GeneratedFiles \in Seq(File)
    BY <1>4, GeneratedFilesType DEF Generate
  <2>4. Len(files') \in Nat /\ 1 .. (at' - 1) = {}
    BY <2>2, <2>3, LenProperties
  <2> QED  BY <2>1, <2>2, <2>4 DEF RenderInv, RenderedTo, Succeeded
<1>5. CASE RenderFile
  <2>1. GeneratedFiles' = GeneratedFiles
    BY <1>5, GeneratedUnchanged DEF RenderFile
  <2>2. /\ phase = "render" /\ phase' = "render" /\ at <= Len(files) /\ files' = files
        /\ at' = at + 1 /\ files = GeneratedFiles /\ RenderedTo(at - 1)
        /\ rendered' = [path \in DOMAIN rendered \cup {files[at].path} |->
                          IF path = files[at].path THEN files[at] ELSE rendered[path]]
    BY <1>5 DEF RenderFile, RenderInv
  <2>3. 1 .. at = (1 .. (at - 1)) \cup {at} /\ at' - 1 = at
    BY <1>1, <2>2
  <2>4. DOMAIN rendered' = {files[i].path : i \in 1 .. at}
    BY <2>2, <2>3 DEF RenderedTo
  <2>5. \A path \in DOMAIN rendered' :
          \E i \in 1 .. at : rendered'[path] = files[i] /\ files[i].path = path
    BY <2>2, <2>3 DEF RenderedTo
  <2>6. RenderedTo(at - 1)'
    <3>1. (at - 1)' = at /\ files' = files
      BY <2>2, <2>3
    <3> QED  BY <3>1, <2>4, <2>5 DEF RenderedTo
  <2>7. files' = GeneratedFiles' /\ at' <= Len(files') + 1
    BY <1>1, <2>1, <2>2
  <2> QED  BY <2>2, <2>6, <2>7 DEF RenderInv, Succeeded
<1>6. CASE PackageRendered \/ MakeDirectory \/ WriteFile
  <2>1. /\ phase \in {"render", "directory", "write"} /\ phase' \in {"directory", "write"}
        /\ UNCHANGED <<command, overrides, packages, files, at, rendered>>
        /\ phase = "render" => at > Len(files)
    BY <1>6 DEF PackageRendered, MakeDirectory, WriteFile
  <2>2. GeneratedFiles' = GeneratedFiles
    BY <2>1, GeneratedUnchanged
  <2>3. /\ files = GeneratedFiles /\ at <= Len(files) + 1 /\ RenderedTo(at - 1)
        /\ at = Len(files) + 1
    BY <1>1, <2>1 DEF RenderInv
  <2>4. RenderedTo(at - 1)'
    BY <2>1, <2>3 DEF RenderedTo
  <2> QED  BY <2>1, <2>2, <2>3, <2>4 DEF RenderInv, Succeeded
<1>7. CASE BindingFails \/ StageFails \/ WriteFails \/ Kill
  BY <1>7 DEF BindingFails, StageFails, WriteFails, Kill, Return, RenderInv, Succeeded
<1>8. CASE Finish
  <2>1. /\ phase = "write" /\ pending = {} /\ phase' = "idle" /\ result' = "success"
        /\ UNCHANGED <<command, overrides, packages, files, at, rendered, disk>>
    BY <1>8 DEF Finish, Return
  <2>2. GeneratedFiles' = GeneratedFiles
    BY <2>1, GeneratedUnchanged
  <2>3. \A path \in DOMAIN rendered : disk[path] = rendered[path]
    BY <2>1 DEF FilesAreOldOrNew
  <2> QED  BY <2>1, <2>2, <2>3 DEF RenderInv, RenderedTo, Succeeded
<1>9. CASE UNCHANGED vars
  <2>1. GeneratedFiles' = GeneratedFiles
    BY <1>9, GeneratedUnchanged DEF vars
  <2> QED  BY <1>9, <2>1 DEF vars, RenderInv, RenderedTo, Succeeded
<1> QED
  BY <1>2, <1>3, <1>4, <1>5, <1>6, <1>7, <1>8, <1>9 DEF Next, Step

(* The file of an imported package has a directory of its own: with one       *)
(* package for all namespaces there is nothing to import but the runtime.     *)
LEMMA ImportedHasDirectory ==
  ASSUME NEW p \in Packages, TypesOf(p) # {}, NEW q \in ImportsOf(p), q # command.runtime,
         PipelineTypeOK, CommandOK(command)
  PROVE  TypesOf(q) # {} /\ PathOf(q) = q /\ q \in Packages
<1>1. /\ q # p
      /\ \E i \in Declared(p) : \E ns \in command.types[i].uses : q = PackageForNamespace(ns)
  BY ImportsAre
<1> PICK i \in Declared(p) : \E ns \in command.types[i].uses : q = PackageForNamespace(ns)
  BY <1>1
<1>2. PICK ns \in command.types[i].uses : q = PackageForNamespace(ns)
  OBVIOUS
<1>3. PICK j \in DOMAIN command.types : ns = command.types[j].namespace
  BY <1>2 DEF CommandOK, Declared, TypesOf
<1>4. TypesOf(q) # {}
  BY <1>2, <1>3 DEF TypesOf
<1>5. q \in Packages
  BY <1>2, <1>3 DEF PackageForNamespace, PipelineTypeOK, CommandOK
<1>6. CASE DOMAIN packages = {}
  <2>1. \A ns2 : PackageForNamespace(ns2) = command.package
    BY <1>6 DEF PackageForNamespace
  <2>2. p = command.package
    BY <2>1 DEF TypesOf
  <2> QED  BY <1>1, <1>2, <2>1, <2>2
<1>7. CASE DOMAIN packages # {}
  BY <1>4, <1>5, <1>7 DEF PathOf
<1> QED  BY <1>6, <1>7

LEMMA InvResolves == ImportsInv => ImportsResolve
<1> SUFFICES ASSUME ImportsInv, Succeeded,
                    \A i \in DOMAIN command.types :
                      PackageForNamespace(command.types[i].namespace) # command.runtime,
                    NEW path \in DOMAIN rendered, NEW q \in disk[path].imports
             PROVE  /\ disk[q] \notin {Absent, Torn} /\ disk[q].package = q
                    /\ q = command.runtime => disk[q].isRuntime
  BY DEF ImportsResolve, Succeeded
<1>1. PipelineTypeOK /\ CommandOK(command)
  BY PipelineAssumption DEF ImportsInv, TypeInv, RenderInv
<1>2. /\ files = GeneratedFiles /\ RenderedTo(Len(files))
      /\ \A d \in DOMAIN rendered : disk[d] = rendered[d]
  <2>1. Len(files) \in Nat
    BY <1>1, LenProperties DEF PipelineTypeOK
  <2> QED  BY <2>1 DEF ImportsInv, RenderInv
<1>3. Len(files) \in Nat /\ DOMAIN files = 1 .. Len(files)
  BY <1>1, LenProperties DEF PipelineTypeOK
<1>4. /\ \A d \in DOMAIN rendered : IsGenerated(rendered[d]) /\ rendered[d].path = d
      /\ \A f : IsGenerated(f) => f.path \in DOMAIN rendered
  <2>1. /\ \A i \in 1 .. Len(files) : IsGenerated(files[i])
        /\ \A f : IsGenerated(f) => \E i \in 1 .. Len(files) : files[i] = f
    BY <1>2, <1>3, GeneratedAre
  <2>2. /\ DOMAIN rendered = {files[i].path : i \in 1 .. Len(files)}
        /\ \A d \in DOMAIN rendered :
             \E i \in 1 .. Len(files) : rendered[d] = files[i] /\ files[i].path = d
    BY <1>2 DEF RenderedTo
  <2>3. ASSUME NEW d \in DOMAIN rendered PROVE IsGenerated(rendered[d]) /\ rendered[d].path = d
    <3>1. PICK i \in 1 .. Len(files) : rendered[d] = files[i] /\ files[i].path = d
      BY <2>2
    <3>2. IsGenerated(files[i])
      BY <2>1
    <3> QED  BY ONLY <3>1, <3>2
  <2>4. ASSUME NEW f, IsGenerated(f) PROVE f.path \in DOMAIN rendered
    <3>1. PICK i \in 1 .. Len(files) : files[i] = f
      BY <2>1, <2>4
    <3> QED  BY ONLY <2>2, <3>1
  <2> QED  BY <2>3, <2>4
<1>5. PICK p \in Packages : TypesOf(p) # {} /\ q \in ImportsOf(p)
  <2>1. IsGenerated(rendered[path]) /\ q \in rendered[path].imports
    BY <1>2, <1>4
  <2> QED  BY <2>1 DEF IsGenerated, RuntimeFile, PackageFile
<1>6. TypesOf(command.runtime) = {}
  BY DEF TypesOf
<1>7. \A d \in DOMAIN rendered \cap Packages :
        \/ command.runtime # NoPackage /\ rendered[d] = RuntimeFile /\ d = command.runtime
        \/ TypesOf(d) # {} /\ rendered[d] = PackageFile(d)
  <2> SUFFICES ASSUME NEW d \in DOMAIN rendered, d \in Packages
               PROVE  \/ command.runtime # NoPackage /\ rendered[d] = RuntimeFile /\ d = command.runtime
                      \/ TypesOf(d) # {} /\ rendered[d] = PackageFile(d)
    OBVIOUS
  <2>1. IsGenerated(rendered[d]) /\ rendered[d].path = d
    BY <1>4
  <2>2. CASE command.runtime # NoPackage /\ rendered[d] = RuntimeFile
    BY <2>1, <2>2 DEF RuntimeFile
  <2>3. ASSUME NEW r \in Packages, TypesOf(r) # {}, rendered[d] = PackageFile(r)
        PROVE  TypesOf(d) # {} /\ rendered[d] = PackageFile(d)
    <3>1. PathOf(r) = d
      BY <2>1, <2>3 DEF PackageFile
    <3>2. r = d
      BY <3>1, PipelineAssumption DEF PathOf
    <3> QED  BY <2>3, <3>2
  <2> QED  BY <2>1, <2>2, <2>3 DEF IsGenerated
<1>8. \A d \in DOMAIN rendered : rendered[d] \notin {Absent, Torn}
  BY <1>1, PipelineAssumption DEF PipelineTypeOK
<1>9. CASE q = command.runtime
  <2>1. command.runtime # NoPackage
    <3>1. command.runtime \in Packages \cup {NoPackage}
      BY <1>1 DEF CommandOK
    <3>2. ASSUME NEW i \in Declared(p), NEW ns \in command.types[i].uses
          PROVE  PackageForNamespace(ns) \in Packages
      BY <1>1, <3>2 DEF PackageForNamespace, PipelineTypeOK, CommandOK, Declared, TypesOf
    <3> QED  BY <1>5, <1>9, <3>2, ImportsAre, PipelineAssumption
  <2>2. q \in Packages
    BY <1>1, <1>9, <2>1 DEF CommandOK
  <2>3. q \in DOMAIN rendered
    <3>1. IsGenerated(RuntimeFile)
      BY <2>1 DEF IsGenerated
    <3> QED  BY <1>4, <1>9, <3>1 DEF RuntimeFile
  <2>4. rendered[q] = RuntimeFile
    BY <1>6, <1>7, <1>9, <2>2, <2>3
  <2> QED  BY <1>2, <1>8, <1>9, <2>3, <2>4 DEF RuntimeFile
<1>10. CASE q # command.runtime
  <2>1. TypesOf(q) # {} /\ PathOf(q) = q /\ q \in Packages
    BY <1>1, <1>5, <1>10, ImportedHasDirectory
  <2>2. q \in DOMAIN rendered
    <3>1. IsGenerated(PackageFile(q))
      BY <2>1 DEF IsGenerated
    <3> QED  BY <1>4, <2>1, <3>1 DEF PackageFile
  <2>3. rendered[q] = PackageFile(q)
    BY <1>7, <1>10, <2>1, <2>2
  <2> QED  BY <1>2, <1>8, <1>10, <2>2, <2>3 DEF PackageFile
<1> QED  BY <1>9, <1>10

(* After a run that succeeded every package that a generated file imports is *)
(* in the directory, the runtime as the runtime, for every set of commands.  *)
THEOREM ImportsAlwaysResolve == Spec => []ImportsResolve
<1>1. Init => ImportsInv
  BY InitTypeInv, InitFiles DEF Init, ImportsInv, RenderInv, Succeeded, NoFiles
<1>2. ImportsInv /\ [Next]_vars => ImportsInv'
  BY NextTypeInv, NextFiles, NextRender DEF ImportsInv
<1> QED  BY <1>1, <1>2, InvResolves, PTL DEF Spec
-----------------------------------------------------------------------------
(* The last binding of a name.                                              *)
LEMMA LastPlace ==
  ASSUME NEW n \in Nat, NEW S, S \subseteq 1 .. n, S # {}
  PROVE  Max(S) \in S /\ \A j \in S : j <= Max(S)
<1>1. PICK i \in S : \A j \in S : j <= i
  BY LargestIndex
<1>2. i \in S /\ \A j \in S : i >= j
  BY <1>1
<1>3. Max(S) \in S /\ \A j \in S : Max(S) >= j
  BY <1>2 DEF Max
<1> QED  BY <1>3

LEMMA MaxIs ==
  ASSUME NEW n \in Nat, NEW S, S \subseteq 1 .. n, NEW i \in S, \A j \in S : j <= i
  PROVE  Max(S) = i
<1> PICK m : m = Max(S)
  OBVIOUS
<1>1. m \in S /\ \A j \in S : j <= m
  BY LastPlace
<1>2. m <= i /\ i <= m /\ m \in Nat /\ i \in Nat
  BY <1>1
<1> QED  BY <1>2

(* Of the bindings of several files the later files' count.                 *)
LEMMA LastOfConcat ==
  ASSUME NEW S, NEW s \in Seq(S), NEW t \in Seq(S), NEW local
  PROVE  LastClass(s \o t, local) =
           IF \E i \in DOMAIN t : t[i].local = local THEN LastClass(t, local)
           ELSE LastClass(s, local)
<1> PICK u : u = s \o t
  OBVIOUS
<1> PICK m : m = Len(s)
  OBVIOUS
<1> PICK n : n = Len(t)
  OBVIOUS
<1>1. /\ m \in Nat /\ n \in Nat /\ DOMAIN s = 1 .. m /\ DOMAIN t = 1 .. n /\ DOMAIN u = 1 .. m + n
      /\ \A i \in 1 .. m : u[i] = s[i]
      /\ \A i \in 1 .. n : u[m + i] = t[i]
  BY ConcatProperties, LenProperties
<1> DEFINE P(b) == {i \in DOMAIN b : b[i].local = local}
<1> HIDE DEF P
<1>2. \A b : LastClass(b, local) = IF P(b) = {} THEN local ELSE b[Max(P(b))].class
  BY DEF LastClass, P
<1>3. CASE \E i \in DOMAIN t : t[i].local = local
  <2>1. P(t) \subseteq 1 .. n /\ P(t) # {} /\ P(u) \subseteq 1 .. m + n
    BY <1>1, <1>3 DEF P
  <2> PICK k : k = Max(P(t))
    OBVIOUS
  <2>2. k \in P(t) /\ \A j \in P(t) : j <= k
    BY <1>1, <2>1, LastPlace
  <2>3. k \in 1 .. n /\ t[k].local = local
    BY <1>1, <2>2 DEF P
  <2>4. m + k \in P(u)
    <3>1. m + k \in 1 .. m + n
      BY <1>1, <2>3
    <3> QED  BY <1>1, <2>3, <3>1 DEF P
  <2>5. ASSUME NEW j \in P(u) PROVE j <= m + k
    <3>1. j \in 1 .. m + n /\ u[j].local = local
      BY <1>1 DEF P
    <3>2. CASE j > m
      <4>1. j - m \in 1 .. n /\ m + (j - m) = j
        BY <1>1, <3>1, <3>2
      <4>2. t[j - m].local = local
        BY <1>1, <3>1, <4>1
      <4>3. j - m \in P(t)
        BY <1>1, <4>1, <4>2 DEF P
      <4> QED  BY <1>1, <2>2, <2>3, <3>1, <4>1, <4>3
    <3> QED  BY <1>1, <2>3, <3>1, <3>2
  <2>6. Max(P(u)) = m + k
    BY <1>1, <2>1, <2>4, <2>5, MaxIs
  <2>7. u[m + k] = t[k]
    BY <1>1, <2>3
  <2>8. LastClass(u, local) = u[m + k].class /\ LastClass(t, local) = t[k].class
    BY <1>2, <2>1, <2>4, <2>6
  <2> QED  BY <1>3, <2>7, <2>8
<1>4. CASE ~ \E i \in DOMAIN t : t[i].local = local
  <2>1. \A j \in 1 .. m + n : u[j].local = local <=> j \in 1 .. m /\ s[j].local = local
    <3> SUFFICES ASSUME NEW j \in 1 .. m + n
                 PROVE  u[j].local = local <=> j \in 1 .. m /\ s[j].local = local
      OBVIOUS
    <3>1. CASE j \in 1 .. m
      BY <1>1, <3>1
    <3>2. CASE j \notin 1 .. m
      <4>1. j - m \in 1 .. n /\ m + (j - m) = j
        BY <1>1, <3>2
      <4>2. u[j] = t[j - m] /\ t[j - m].local # local
        BY <1>1, <1>4, <4>1
      <4> QED  BY <3>2, <4>2
    <3> QED  BY <3>1, <3>2
  <2>2. P(u) = P(s)
    BY <1>1, <2>1 DEF P
  <2>3. P(s) # {} => Max(P(s)) \in 1 .. m
    <3>1. P(s) \subseteq 1 .. m
      BY <1>1 DEF P
    <3> QED  BY <1>1, <3>1, LastPlace
  <2>4. P(s) # {} => u[Max(P(s))] = s[Max(P(s))]
    BY <1>1, <2>3
  <2>5. LastClass(u, local) = LastClass(s, local)
    BY <1>2, <2>2, <2>4
  <2> QED  BY <1>4, <2>5
<1> QED  BY <1>3, <1>4

(* Walking a file gives each name its last binding there, or leaves it.     *)
NameIn(map, local) == IF local \in DOMAIN map THEN map[local] ELSE local

LEMMA WalkNames ==
  ASSUME NEW old, NEW file \in BindingFile, NEW local
  PROVE  NameIn(Walk(old, file), local) =
           IF \E i \in DOMAIN file : file[i].local = local THEN LastClass(file, local)
           ELSE NameIn(old, local)
<1> DEFINE S == {i \in DOMAIN file : file[i].local = local}
           last == CHOOSE i \in DOMAIN file :
                     /\ file[i].local = local
                     /\ \A j \in DOMAIN file : file[j].local = local => j <= i
<1>1. Len(file) \in Nat /\ DOMAIN file = 1 .. Len(file)
  BY LenProperties DEF BindingFile
<1>2. /\ DOMAIN Walk(old, file) = DOMAIN old \cup {file[i].local : i \in DOMAIN file}
      /\ local \in DOMAIN Walk(old, file) =>
           Walk(old, file)[local] = IF \E i \in DOMAIN file : file[i].local = local
                                    THEN file[last].class ELSE old[local]
  BY DEF Walk
<1>3. CASE \E i \in DOMAIN file : file[i].local = local
  <2>1. S \subseteq 1 .. Len(file) /\ S # {}
    BY <1>1, <1>3
  <2>2. Max(S) \in S /\ \A j \in S : j <= Max(S)
    <3> HIDE DEF S
    <3> QED  BY <1>1, <2>1, LastPlace
  <2> PICK k : k = Max(S)
    OBVIOUS
  <2>3. /\ k \in DOMAIN file /\ file[k].local = local
        /\ \A j \in DOMAIN file : file[j].local = local => j <= k
    BY <2>2
  <2>4. /\ last \in DOMAIN file /\ file[last].local = local
        /\ \A j \in DOMAIN file : file[j].local = local => j <= last
    BY <2>3
  <2>5. last = k
    <3> HIDE DEF last, S
    <3>1. last <= k /\ k <= last /\ last \in Nat /\ k \in Nat
      BY <1>1, <2>3, <2>4
    <3> QED  BY <3>1
  <2>6. LastClass(file, local) = file[k].class
    BY <2>1 DEF LastClass
  <2>7. local \in DOMAIN Walk(old, file)
    BY <1>2, <1>3
  <2> HIDE DEF last, S
  <2> QED  BY <1>2, <1>3, <2>5, <2>6, <2>7 DEF NameIn
<1>4. CASE ~ \E i \in DOMAIN file : file[i].local = local
  <2>1. local \in DOMAIN Walk(old, file) <=> local \in DOMAIN old
    BY <1>2, <1>4
  <2> HIDE DEF last
  <2> QED  BY <1>2, <1>4, <2>1 DEF NameIn
<1> QED  BY <1>3, <1>4

-----------------------------------------------------------------------------
(* What the stages leave to the next: names of all bindings loaded so far,   *)
(* the packages that the options ask for, and of the files of one path the   *)
(* last one rendered.                                                       *)
Loaded(k) ==
  /\ \A i \in 1 .. k : command.bindings[i] \in BindingFile
  /\ \A local : TypeNameOverride(local)
                  = LastClass(FlattenSeq(SubSeq(command.bindings, 1, k)), local)

Asked == IF command.auto THEN AutoNamespacePackages(command) ELSE command.explicit

LatestKept(k) ==
  \A i \in 1 .. k : \E j \in i .. k :
    rendered[files[i].path] = files[j] /\ files[j].path = files[i].path

BindingsKnown ==
  /\ phase = "bindings" => at <= Len(command.bindings) + 1 /\ Loaded(at - 1)
  /\ phase \notin {"idle", "bindings"} \/ Succeeded => Loaded(Len(command.bindings))
PackagesKnown ==
  phase \notin {"idle", "bindings", "parse"} \/ Succeeded => packages = Asked
FilesKnown ==
  phase \in {"render", "directory", "write"} \/ Succeeded => LatestKept(at - 1)

StagesInv == BindingsKnown /\ PackagesKnown /\ FilesKnown

LEMMA NothingLoaded ==
  ASSUME NEW bindings \in Seq({Broken} \cup BindingFile), NEW local
  PROVE  LastClass(FlattenSeq(SubSeq(bindings, 1, 0)), local) = local
<1>1. SubSeq(bindings, 1, 0) = << >>
  <2>1. 1 \in Int /\ 0 \in Int /\ 0 < 1
    OBVIOUS
  <2> QED  BY ONLY <2>1, SubSeqEmpty, Zenon
<1> PICK none : none = FlattenSeq(SubSeq(bindings, 1, 0))
  OBVIOUS
<1>2. none = << >>
  BY <1>1, FlatOfNone
<1>3. DOMAIN none = {}
  BY <1>2
<1>4. LastClass(none, local) = local
  BY ONLY <1>3 DEF LastClass
<1> QED  BY <1>4

(* One more binding file.                                                   *)
LEMMA LoadedOneMore ==
  ASSUME NEW bindings \in Seq({Broken} \cup BindingFile), NEW k \in Nat, k + 1 <= Len(bindings),
         \A i \in 1 .. k + 1 : bindings[i] \in BindingFile, NEW local
  PROVE  LastClass(FlattenSeq(SubSeq(bindings, 1, k + 1)), local) =
           IF \E i \in DOMAIN bindings[k + 1] : bindings[k + 1][i].local = local
           THEN LastClass(bindings[k + 1], local)
           ELSE LastClass(FlattenSeq(SubSeq(bindings, 1, k)), local)
<1> PICK B : B = [local : Names, class : Names]
  OBVIOUS
<1> PICK F : F = BindingFile
  OBVIOUS
<1> PICK s : s = SubSeq(bindings, 1, k)
  OBVIOUS
<1> PICK t : t = SubSeq(bindings, 1, k + 1)
  OBVIOUS
<1>0. F = Seq(B)
  BY DEF BindingFile
<1>1. /\ s \in Seq(F) /\ Len(s) = k
      /\ \A i \in 1 .. k : s[i] = bindings[i]
  BY SubSeqProperties
<1>2. /\ t \in Seq(F) /\ Len(t) = k + 1
      /\ \A i \in 1 .. k + 1 : t[i] = bindings[i]
  BY SubSeqProperties
<1> PICK f : f = bindings[k + 1]
  OBVIOUS
<1>3. f \in F
  OBVIOUS
<1>4. t = Append(s, f)
  <2> PICK u : u = Append(s, f)
    OBVIOUS
  <2>1. /\ u \in Seq(F) /\ Len(u) = k + 1
        /\ \A i \in 1 .. k : u[i] = s[i]
        /\ u[k + 1] = f
    BY <1>1, <1>3, AppendProperties
  <2>2. \A i \in 1 .. k + 1 : u[i] = t[i]
    BY <1>1, <1>2, <2>1
  <2> QED  BY <1>2, <2>1, <2>2, SeqEqual
<1>5. FlattenSeq(t) = FlattenSeq(s) \o f /\ FlattenSeq(s) \in Seq(B) /\ f \in Seq(B)
  BY <1>0, <1>1, <1>3, <1>4, FlatOfOneMore, FlatType
<1>6. LastClass(FlattenSeq(s) \o f, local) =
        IF \E i \in DOMAIN f : f[i].local = local THEN LastClass(f, local)
        ELSE LastClass(FlattenSeq(s), local)
  BY <1>5, LastOfConcat
<1> QED  BY <1>5, <1>6

LEMMA LatestUnchanged ==
  ASSUME UNCHANGED <<rendered, files, at>>, LatestKept(at - 1)
  PROVE  LatestKept(at - 1)'
BY DEF LatestKept

LEMMA AskedUnchanged ==
  ASSUME UNCHANGED command
  PROVE  Asked' = Asked
BY DEF Asked, AutoNamespacePackages

LEMMA CommandsHaveBindings ==
  ASSUME NEW c \in Commands
  PROVE  /\ CommandOK(c) /\ c.bindings \in Seq({Broken} \cup BindingFile)
         /\ Len(c.bindings) \in Nat
<1>1. CommandOK(c)
  BY PipelineAssumption
<1>2. c.bindings \in Seq({Broken} \cup BindingFile)
  BY <1>1 DEF CommandOK
<1> QED  BY <1>1, <1>2, LenProperties

LEMMA BindingLoaded ==
  ASSUME ImportsInv, StagesInv, LoadBinding
  PROVE  BindingsKnown'
<1> PICK bindings : bindings = command.bindings
  OBVIOUS
<1>1. /\ phase = "bindings" /\ phase' = "bindings" /\ at' = at + 1 /\ command' = command
      /\ at <= Len(bindings) /\ bindings[at] # Broken
      /\ overrides' = Walk(overrides, bindings[at])
      /\ at \in Nat \ {0} /\ command \in Commands
  BY DEF LoadBinding, ImportsInv, TypeInv, PhaseInv, PipelineTypeOK
<1>2. bindings \in Seq({Broken} \cup BindingFile) /\ Len(bindings) \in Nat
  BY <1>1, CommandsHaveBindings
<1> PICK k \in Nat : k = at - 1
  BY <1>1
<1>3. /\ \A i \in 1 .. k : bindings[i] \in BindingFile
      /\ \A local : NameIn(overrides, local) = LastClass(FlattenSeq(SubSeq(bindings, 1, k)), local)
  BY <1>1 DEF StagesInv, BindingsKnown, Loaded, TypeNameOverride, NameIn
<1>4. \A i \in 1 .. k + 1 : bindings[i] \in BindingFile
  <2>1. bindings[at] \in BindingFile
    BY <1>1, <1>2
  <2> QED  BY <1>1, <1>3, <2>1
<1>5. ASSUME NEW local
      PROVE  NameIn(overrides', local) = LastClass(FlattenSeq(SubSeq(bindings, 1, k + 1)), local)
  <2> PICK f \in BindingFile : f = bindings[at]
    BY <1>1, <1>4
  <2>1. NameIn(Walk(overrides, f), local) =
           IF \E i \in DOMAIN f : f[i].local = local THEN LastClass(f, local)
           ELSE NameIn(overrides, local)
    BY WalkNames
  <2>2. LastClass(FlattenSeq(SubSeq(bindings, 1, k + 1)), local) =
           IF \E i \in DOMAIN f : f[i].local = local THEN LastClass(f, local)
           ELSE LastClass(FlattenSeq(SubSeq(bindings, 1, k)), local)
    <3>1. k + 1 <= Len(bindings) /\ k + 1 = at
      BY <1>1, <1>2
    <3>2. LastClass(FlattenSeq(SubSeq(bindings, 1, k + 1)), local) =
             IF \E i \in DOMAIN bindings[k + 1] : bindings[k + 1][i].local = local
             THEN LastClass(bindings[k + 1], local)
             ELSE LastClass(FlattenSeq(SubSeq(bindings, 1, k)), local)
      BY ONLY k \in Nat, <1>2, <1>4, <3>1, LoadedOneMore
    <3>3. f = bindings[k + 1]
      BY <3>1
    <3> QED  BY <3>2, <3>3
  <2> QED  BY <1>1, <1>3, <2>1, <2>2
<1>6. Loaded(k + 1)'
  <2>1. bindings = command.bindings' /\ \A local : TypeNameOverride(local)' = NameIn(overrides', local)
    BY <1>1 DEF TypeNameOverride, NameIn
  <2> QED  BY <1>4, <1>5, <2>1 DEF Loaded
<1>7. (at - 1)' = k + 1 /\ at' <= Len(command.bindings') + 1
  BY <1>1, <1>2
<1>8. Loaded(at - 1)'
  BY <1>6, <1>7 DEF Loaded
<1> QED  BY <1>1, <1>7, <1>8 DEF BindingsKnown, Succeeded

LEMMA NextBindings ==
  ASSUME ImportsInv, StagesInv, [Next]_vars
  PROVE  BindingsKnown'
<1>0. \A k : UNCHANGED <<command, overrides>> /\ Loaded(k) => Loaded(k)'
  BY DEF Loaded, TypeNameOverride
<1>1. CASE Invoke
  <2>1. /\ command' \in Commands /\ overrides' = << >> /\ at' = 1 /\ phase' = "bindings"
    BY <1>1 DEF Invoke
  <2>2. command'.bindings \in Seq({Broken} \cup BindingFile) /\ Len(command'.bindings) \in Nat
    BY <2>1, CommandsHaveBindings
  <2>3. Loaded(0)'
    <3>1. \A local : TypeNameOverride(local)' = local
      BY <2>1 DEF TypeNameOverride
    <3>2. \A local : LastClass(FlattenSeq(SubSeq(command'.bindings, 1, 0)), local) = local
      BY <2>2, NothingLoaded
    <3> QED  BY <3>1, <3>2 DEF Loaded
  <2> QED  BY <2>1, <2>2, <2>3 DEF BindingsKnown, Succeeded
<1>2. CASE LoadBinding
  BY <1>2, BindingLoaded
<1>3. CASE BindingsLoaded
  <2>1. /\ command \in Commands /\ at \in Nat \ {0} /\ at <= Len(command.bindings) + 1
        /\ at > Len(command.bindings) /\ Loaded(at - 1) /\ UNCHANGED <<command, overrides, at>>
        /\ phase' = "parse"
    BY <1>3 DEF BindingsLoaded, ImportsInv, TypeInv, PhaseInv, PipelineTypeOK, StagesInv, BindingsKnown
  <2>2. at - 1 = Len(command.bindings)
    BY <2>1, CommandsHaveBindings
  <2>3. Loaded(Len(command.bindings))
    BY <2>1, <2>2
  <2>4. Loaded(Len(command.bindings))'
    BY <2>1, <2>3 DEF Loaded, TypeNameOverride
  <2> QED  BY <2>1, <2>4 DEF BindingsKnown, Succeeded
<1>4. CASE \/ ParseFiles \/ Interpret \/ Optimize \/ Generate \/ RenderFile \/ PackageRendered
           \/ MakeDirectory \/ WriteFile \/ Finish
  <2>1. /\ phase \notin {"idle", "bindings"} /\ UNCHANGED <<command, overrides>> /\ phase' # "bindings"
    BY <1>4 DEF ParseFiles, Interpret, Optimize, Generate, RenderFile, PackageRendered,
                MakeDirectory, WriteFile, Finish, Return
  <2>2. Loaded(Len(command.bindings))
    BY <2>1 DEF StagesInv, BindingsKnown
  <2>3. Loaded(Len(command.bindings))'
    BY <2>1, <2>2 DEF Loaded, TypeNameOverride
  <2> QED  BY <2>1, <2>3 DEF BindingsKnown
<1>5. CASE BindingFails \/ StageFails \/ WriteFails \/ Kill
  BY <1>5 DEF BindingFails, StageFails, WriteFails, Kill, Return, BindingsKnown, Succeeded
<1>6. CASE UNCHANGED vars
  <2>1. UNCHANGED <<command, overrides, at, phase, result>>
    BY <1>6 DEF vars
  <2>2. \A k : Loaded(k) => Loaded(k)'
    BY <2>1 DEF Loaded, TypeNameOverride
  <2>3. /\ phase = "bindings" => Loaded(at - 1)'
        /\ phase \notin {"idle", "bindings"} \/ Succeeded => Loaded(Len(command.bindings))'
    BY <2>1, <2>2 DEF StagesInv, BindingsKnown, Loaded, TypeNameOverride
  <2> QED  BY <2>1, <2>3 DEF StagesInv, BindingsKnown, Succeeded
<1> QED
  BY <1>1, <1>2, <1>3, <1>4, <1>5, <1>6 DEF Next, Step

LEMMA NextPackages ==
  ASSUME ImportsInv, StagesInv, [Next]_vars
  PROVE  PackagesKnown'
<1>1. CASE Invoke \/ LoadBinding \/ BindingsLoaded
  BY <1>1 DEF Invoke, LoadBinding, BindingsLoaded, PackagesKnown, Succeeded,
              ImportsInv, TypeInv, PhaseInv
<1>2. CASE ParseFiles
  <2>1. Asked' = Asked
    BY <1>2, AskedUnchanged DEF ParseFiles
  <2> QED  BY <1>2, <2>1 DEF ParseFiles, PackagesKnown, Asked
<1>3. CASE \/ Interpret \/ Optimize \/ Generate \/ RenderFile \/ PackageRendered
           \/ MakeDirectory \/ WriteFile \/ Finish \/ UNCHANGED vars
  <2>1. /\ UNCHANGED <<command, packages>>
        /\ \/ phase \notin {"idle", "bindings", "parse"}
           \/ UNCHANGED <<phase, result>>
    BY <1>3 DEF Interpret, Optimize, Generate, RenderFile, PackageRendered,
                MakeDirectory, WriteFile, Finish, Return, vars
  <2>2. Asked' = Asked
    BY <2>1, AskedUnchanged
  <2> QED  BY <2>1, <2>2 DEF StagesInv, PackagesKnown, Succeeded
<1>4. CASE BindingFails \/ StageFails \/ WriteFails \/ Kill
  BY <1>4 DEF BindingFails, StageFails, WriteFails, Kill, Return, PackagesKnown, Succeeded
<1> QED
  BY <1>1, <1>2, <1>3, <1>4 DEF Next, Step

LEMMA NextFilesKept ==
  ASSUME ImportsInv, StagesInv, [Next]_vars
  PROVE  FilesKnown'
<1>0. at \in Nat \ {0} /\ files \in Seq(File) /\ Len(files) \in Nat
  BY LenProperties DEF PipelineTypeOK, ImportsInv, TypeInv
<1>1. CASE \/ Invoke \/ LoadBinding \/ BindingsLoaded \/ ParseFiles \/ Interpret \/ Optimize
  BY <1>1 DEF Invoke, LoadBinding, BindingsLoaded, ParseFiles, Interpret, Optimize, FilesKnown,
              Succeeded, ImportsInv, TypeInv, PhaseInv
<1>2. CASE Generate
  <2>1. at' = 1 /\ (at - 1)' = 0
    BY <1>2 DEF Generate
  <2>2. LatestKept(0)'
    BY DEF LatestKept
  <2> QED  BY <2>1, <2>2 DEF FilesKnown, LatestKept
<1>3. CASE RenderFile
  <2>1. /\ phase = "render" /\ phase' = "render" /\ at <= Len(files) /\ files' = files
        /\ at' = at + 1 /\ LatestKept(at - 1) /\ RenderedTo(at - 1)
        /\ rendered' = [path \in DOMAIN rendered \cup {files[at].path} |->
                          IF path = files[at].path THEN files[at] ELSE rendered[path]]
    BY <1>3 DEF RenderFile, StagesInv, FilesKnown, ImportsInv, RenderInv
  <2>2. ASSUME NEW i \in 1 .. at
        PROVE  \E j \in i .. at : rendered'[files[i].path] = files[j] /\ files[j].path = files[i].path
    <3>1. CASE files[i].path = files[at].path
      <4>1. rendered'[files[i].path] = files[at] /\ at \in i .. at
        BY <1>0, <2>1, <3>1
      <4> QED  BY <3>1, <4>1
    <3>2. CASE files[i].path # files[at].path
      <4>1. i \in 1 .. at - 1
        BY <1>0, <3>2
      <4>2. PICK j \in i .. at - 1 : rendered[files[i].path] = files[j] /\ files[j].path = files[i].path
        BY <2>1, <4>1 DEF LatestKept
      <4>3. files[i].path \in DOMAIN rendered
        BY <2>1, <4>1 DEF RenderedTo
      <4>4. rendered'[files[i].path] = rendered[files[i].path]
        BY <2>1, <3>2, <4>3
      <4>5. j \in i .. at
        BY <1>0
      <4> QED  BY <4>2, <4>4, <4>5
    <3> QED  BY <3>1, <3>2
  <2>3. LatestKept(at - 1)'
    <3>1. (at - 1)' = at /\ files' = files
      BY <1>0, <2>1
    <3> QED  BY <2>2, <3>1 DEF LatestKept
  <2> QED  BY <2>3 DEF FilesKnown
<1>4. CASE PackageRendered \/ MakeDirectory \/ WriteFile \/ Finish \/ UNCHANGED vars
  <2>1. /\ UNCHANGED <<files, at, rendered>>
        /\ phase \in {"render", "directory", "write"} \/ UNCHANGED <<phase, result>>
    BY <1>4 DEF PackageRendered, MakeDirectory, WriteFile, Finish, Return, vars
  <2>2. LatestKept(at - 1) => LatestKept(at - 1)'
    BY <2>1, LatestUnchanged
  <2> QED  BY <2>1, <2>2 DEF StagesInv, FilesKnown, Succeeded
<1>5. CASE BindingFails \/ StageFails \/ WriteFails \/ Kill
  BY <1>5 DEF BindingFails, StageFails, WriteFails, Kill, Return, FilesKnown, Succeeded
<1> QED
  BY <1>1, <1>2, <1>3, <1>4, <1>5 DEF Next, Step

(* The packages of the options are those that the property names.           *)
LEMMA AskedIsMeant ==
  ASSUME NEW c \in Commands, command = c, packages = Asked, NEW i \in DOMAIN c.types
  PROVE  LET ns == c.types[i].namespace IN
         PackageForNamespace(ns) = PackageMeant(ns)
<1> PICK ns : ns = c.types[i].namespace
  OBVIOUS
<1>1. CommandOK(c)
  BY PipelineAssumption
<1>2. ns \in ToSet(c.schemas) /\ DOMAIN c.explicit \subseteq Namespaces \ {NoNamespace} /\ c.auto \in BOOLEAN
  BY <1>1 DEF CommandOK
<1>3. CASE c.auto
  <2>1. /\ DOMAIN packages = DOMAIN c.explicit \cup (ToSet(c.schemas) \ {NoNamespace})
        /\ \A n \in DOMAIN packages :
             packages[n] = IF n \in DOMAIN c.explicit THEN c.explicit[n] ELSE PackageNameOf[n]
    BY <1>3 DEF Asked, AutoNamespacePackages
  <2>2. ns \in DOMAIN packages <=> ns \in DOMAIN c.explicit \/ ns # NoNamespace
    BY <1>2, <2>1
  <2> QED  BY <1>2, <1>3, <2>1, <2>2 DEF PackageForNamespace, PackageMeant
<1>4. CASE ~ c.auto
  BY <1>4 DEF Asked, PackageForNamespace, PackageMeant
<1> QED  BY <1>2, <1>3, <1>4

LEMMA PathsApart ==
  ASSUME NEW p \in Packages, NEW q \in Packages, PathOf(p) = PathOf(q)
  PROVE  p = q
BY PipelineAssumption DEF PathOf

(* A package's file is the last of its path: the runtime comes first.       *)
LEMMA PackageOnDisk ==
  ASSUME ImportsInv, StagesInv, Succeeded, NEW p \in Packages, TypesOf(p) # {}
  PROVE  PathOf(p) \in DOMAIN rendered /\ disk[PathOf(p)] = PackageFile(p)
<1>1. /\ files = GeneratedFiles /\ RenderedTo(at - 1) /\ at - 1 = Len(files)
      /\ LatestKept(Len(files))
      /\ \A d \in DOMAIN rendered : disk[d] = rendered[d]
  <2>1. files \in Seq(File) /\ Len(files) \in Nat
    BY LenProperties DEF ImportsInv, TypeInv, PipelineTypeOK
  <2>2. at = Len(files) + 1
    BY DEF ImportsInv, RenderInv
  <2>3. at - 1 = Len(files)
    BY <2>1, <2>2
  <2> QED  BY <2>3 DEF ImportsInv, RenderInv, StagesInv, FilesKnown
<1>2. Len(files) \in Nat /\ DOMAIN files = 1 .. Len(files)
  BY LenProperties DEF ImportsInv, TypeInv, PipelineTypeOK
<1>3. IsGenerated(PackageFile(p))
  BY DEF IsGenerated
<1>4. PICK i \in 1 .. Len(files) : files[i] = PackageFile(p)
  BY <1>1, <1>2, <1>3, GeneratedAre
<1>5. PICK j \in i .. Len(files) : rendered[files[i].path] = files[j] /\ files[j].path = files[i].path
  BY <1>1, <1>4 DEF LatestKept
<1>6. j \in 1 .. Len(files) /\ i \in Nat /\ j \in Nat /\ (j = 1 => i = 1)
  BY <1>2
<1>7. ~ files[j].isRuntime
  <2>1. CASE j = 1
    BY <1>4, <1>6, <2>1 DEF PackageFile
  <2>2. CASE j # 1
    BY <1>1, <1>2, <1>6, <2>2, GeneratedAre
  <2> QED  BY <2>1, <2>2
<1>8. PICK q \in Packages : files[j] = PackageFile(q)
  <2>1. IsGenerated(files[j])
    BY <1>1, <1>2, <1>6, GeneratedAre
  <2> QED  BY <1>7, <2>1 DEF IsGenerated, RuntimeFile
<1>9. q = p
  BY <1>4, <1>5, <1>8, PathsApart DEF PackageFile
<1>10. files[i].path = PathOf(p)
  BY <1>4 DEF PackageFile
<1>11. PathOf(p) \in DOMAIN rendered
  BY <1>1, <1>4, <1>10 DEF RenderedTo
<1> QED  BY <1>1, <1>5, <1>8, <1>9, <1>10, <1>11

(* The runtime's file is the only one of its path, if no package has its    *)
(* name.                                                                    *)
LEMMA RuntimeOnDisk ==
  ASSUME ImportsInv, Succeeded, command.runtime # NoPackage, TypesOf(command.runtime) = {},
         \A d \in DOMAIN rendered : /\ disk[d] = rendered[d] /\ IsGenerated(rendered[d])
                                   /\ rendered[d].path = d
  PROVE  disk[command.runtime] = RuntimeFile
<1> PICK r : r = command.runtime
  OBVIOUS
<1>1. PipelineTypeOK /\ CommandOK(command)
  BY PipelineAssumption DEF ImportsInv, TypeInv, RenderInv
<1>2. r \in Packages
  BY <1>1 DEF CommandOK
<1>3. /\ files = GeneratedFiles /\ RenderedTo(Len(files))
      /\ DOMAIN files = 1 .. Len(files)
  <2>1. files \in Seq(File) /\ Len(files) \in Nat /\ DOMAIN files = 1 .. Len(files)
    BY <1>1, LenProperties DEF PipelineTypeOK
  <2>2. at = Len(files) + 1
    BY DEF ImportsInv, RenderInv
  <2>3. at - 1 = Len(files)
    BY <2>1, <2>2
  <2> QED  BY <2>1, <2>3 DEF ImportsInv, RenderInv
<1>4. r \in DOMAIN rendered
  <2>1. IsGenerated(RuntimeFile)
    BY DEF IsGenerated
  <2>2. PICK i \in DOMAIN files : files[i] = RuntimeFile
    BY <1>3, <2>1, GeneratedAre
  <2> QED  BY <1>3, <2>2 DEF RenderedTo, RuntimeFile
<1>5. ASSUME NEW p \in Packages, TypesOf(p) # {}, rendered[r] = PackageFile(p) PROVE FALSE
  <2>1. PathOf(p) = r
    BY <1>4, <1>5 DEF PackageFile
  <2>2. p = r
    BY <1>2, <2>1, PipelineAssumption DEF PathOf
  <2> QED  BY <1>5, <2>2
<1> QED  BY <1>4, <1>5 DEF IsGenerated

LEMMA InvCompletes == ImportsInv /\ StagesInv => SuccessIsComplete
<1> SUFFICES ASSUME ImportsInv, StagesInv, Succeeded PROVE SuccessIsComplete
  BY DEF SuccessIsComplete, Succeeded
<1>1. command \in Commands /\ PipelineTypeOK
  BY DEF ImportsInv, RenderInv, TypeInv
<1>2. CommandOK(command) /\ packages = Asked
  BY <1>1, PipelineAssumption DEF StagesInv, PackagesKnown
<1>3. \A d \in DOMAIN rendered : /\ disk[d] = rendered[d] /\ IsGenerated(rendered[d])
                                 /\ rendered[d].path = d
  <2>1. /\ files = GeneratedFiles /\ RenderedTo(Len(files)) /\ DOMAIN files = 1 .. Len(files)
        /\ \A d \in DOMAIN rendered : disk[d] = rendered[d]
    <3>1. files \in Seq(File) /\ Len(files) \in Nat /\ DOMAIN files = 1 .. Len(files)
      BY <1>1, LenProperties DEF PipelineTypeOK
    <3>2. at = Len(files) + 1
      BY DEF ImportsInv, RenderInv
    <3>3. at - 1 = Len(files)
      BY <3>1, <3>2
    <3> QED  BY <3>1, <3>3 DEF ImportsInv, RenderInv
  <2> QED  BY <2>1, GeneratedAre DEF RenderedTo
<1>4. \A local : TypeNameOverride(local) = Renamed(command, local)
  <2>1. Loaded(Len(command.bindings))
    BY DEF StagesInv, BindingsKnown
  <2>2. SubSeq(command.bindings, 1, Len(command.bindings)) = command.bindings
    BY <1>1, CommandsHaveBindings, SubSeqFull
  <2> QED  BY <2>1, <2>2 DEF Loaded, Renamed, Bindings
<1>5. \A d \in DOMAIN rendered : disk[d] \notin {Absent, Torn}
  BY <1>1, <1>3, PipelineAssumption DEF PipelineTypeOK
<1>14. ASSUME command.runtime # NoPackage,
              \A i \in DOMAIN command.types :
                PackageMeant(command.types[i].namespace) # command.runtime
       PROVE  disk[command.runtime] = RuntimeFile
  <2>1. TypesOf(command.runtime) = {}
    BY <1>1, <1>2, <1>14, AskedIsMeant DEF TypesOf
  <2> QED  BY <1>3, <1>14, <2>1, RuntimeOnDisk
<1> SUFFICES ASSUME NEW i \in DOMAIN command.types, command.types[i].declared
             PROVE  LET type == command.types[i]
                        ns == type.namespace
                        package == PackageForNamespace(ns)
                        declares(path) == /\ path \in DOMAIN rendered /\ disk[path] \notin {Absent, Torn}
                                          /\ \E t \in disk[path].types :
                                               t.namespace = ns /\ t.local = type.local
                    IN /\ {path \in Paths : declares(path)} = {PathOf(package)}
                       /\ \A t \in disk[PathOf(package)].types :
                            t.namespace = ns /\ t.local = type.local => t.name = Renamed(command, type.local)
                       /\ disk[PathOf(package)].package = package
  BY <1>1, <1>2, <1>14, AskedIsMeant DEF SuccessIsComplete
<1> PICK type : type = command.types[i]
  OBVIOUS
<1> PICK ns : ns = type.namespace
  OBVIOUS
<1> PICK p : p = PackageForNamespace(ns)
  OBVIOUS
<1>6. p \in Packages /\ i \in Declared(p) /\ TypesOf(p) # {}
  <2>1. ns \in Namespaces
    BY <1>2, TypeNamespaces
  <2>2. p \in Packages
    BY <1>1, <1>2, <2>1 DEF PackageForNamespace, PipelineTypeOK, CommandOK
  <2> QED  BY <2>2 DEF Declared, TypesOf
<1>7. PathOf(p) \in DOMAIN rendered /\ disk[PathOf(p)] = PackageFile(p)
  BY <1>6, PackageOnDisk
<1>8. \E t \in disk[PathOf(p)].types : t.namespace = ns /\ t.local = type.local
  <2> DEFINE t == [namespace |-> command.types[i].namespace, local |-> command.types[i].local,
                   name |-> TypeNameOverride(command.types[i].local)]
  <2>1. t \in PackageFile(p).types
    BY <1>6 DEF PackageFile
  <2>2. t.namespace = ns /\ t.local = type.local
    OBVIOUS
  <2> HIDE DEF t
  <2> QED  BY <1>7, <2>1, <2>2
<1>9. ASSUME NEW path \in DOMAIN rendered, NEW t \in disk[path].types, t.namespace = ns
      PROVE  path = PathOf(p)
  <2>1. IsGenerated(disk[path]) /\ disk[path].path = path
    BY <1>3
  <2>2. PICK q \in Packages : disk[path] = PackageFile(q)
    BY <1>9, <2>1 DEF IsGenerated, RuntimeFile
  <2>3. PICK k \in Declared(q) : t.namespace = command.types[k].namespace
    BY <1>9, <2>2 DEF PackageFile
  <2>4. q = p
    BY <1>9, <2>3 DEF Declared, TypesOf
  <2> QED  BY <2>1, <2>2, <2>4 DEF PackageFile
<1>10. \A t \in disk[PathOf(p)].types : t.local = type.local => t.name = Renamed(command, type.local)
  <2>1. \A t \in PackageFile(p).types : t.name = TypeNameOverride(t.local)
    BY DEF PackageFile
  <2> QED  BY <1>4, <1>7, <2>1
<1>11. disk[PathOf(p)].package = p
  BY <1>7 DEF PackageFile
<1>12. PathOf(p) \in Paths
  BY <1>1, <1>7 DEF PipelineTypeOK
<1>13. {path \in Paths : /\ path \in DOMAIN rendered /\ disk[path] \notin {Absent, Torn}
                         /\ \E t \in disk[path].types : t.namespace = ns /\ t.local = type.local}
         = {PathOf(p)}
  BY <1>5, <1>7, <1>8, <1>9, <1>12
<1> QED  BY <1>10, <1>11, <1>13

(* A run that reports success has every type that it declares on disk, once,*)
(* in the package of its namespace and under the name that the last binding *)
(* gives it, and the shared runtime where no namespace's package has its    *)
(* name; whatever earlier runs left and wherever they ended.                *)
THEOREM SuccessCompletes == Spec => []SuccessIsComplete
<1>1. Init => ImportsInv /\ StagesInv
  BY InitTypeInv, InitFiles
  DEF Init, ImportsInv, RenderInv, Succeeded, NoFiles, StagesInv, BindingsKnown, PackagesKnown, FilesKnown
<1>2. ImportsInv /\ StagesInv /\ [Next]_vars => (ImportsInv /\ StagesInv)'
  <2>1. ImportsInv /\ [Next]_vars => ImportsInv'
    BY NextTypeInv, NextFiles, NextRender DEF ImportsInv
  <2>2. ImportsInv /\ StagesInv /\ [Next]_vars => StagesInv'
    BY NextBindings, NextPackages, NextFilesKept DEF StagesInv
  <2> QED  BY <2>1, <2>2
<1> QED  BY <1>1, <1>2, InvCompletes, PTL DEF Spec
=============================================================================
