---------------------------- MODULE SchemaLoader ----------------------------
(***************************************************************************)
(* ParseFilesWithOptions of internal/parser/parser.go: the catalogs are    *)
(* read, then a FIFO queue of file names is drained.  A file name is       *)
(* parsed unless its cleaned absolute form was seen before; a parsed file  *)
(* puts the files it includes, imports, overrides and redefines at the     *)
(* end of the queue.  The first error ends the whole load and returns no   *)
(* schema at all.                                                          *)
(*                                                                         *)
(* A file name as it is spelled (relative or absolute) is a Path, the      *)
(* cleaned absolute form the `seen' map is indexed by is a Key, and the    *)
(* value of a schemaLocation attribute is a Location.                      *)
(***************************************************************************)
EXTENDS Naturals, Sequences

CONSTANTS
  Key,              \* cleaned absolute file names
  Path,             \* file names as spelled
  Location,         \* values of schemaLocation
  EmptyLocation,    \* the empty or missing schemaLocation
  Body,             \* what a document holds besides its references
  Unreadable,       \* content of a file that is missing or not well-formed
  AbsKey(_),        \* filepath.Clean(filepath.Abs(path))
  Join(_, _),       \* resolveSchemaLocation(filepath.Dir(path), location)
  HasPrefix(_, _),  \* strings.HasPrefix(location, prefix)
  Rewrite(_, _, _), \* filepath.Join(replacement, TrimPrefix(location, prefix))
  Disks,            \* the contents of the file system to consider
  RootLists,        \* the lists of files to consider on the command line
  CatalogLists      \* the catalog entries to consider, Unreadable for a bad one

(* A reference to another file; a body only where declarations are nested in *)
(* it (xs:override and xs:redefine).                                          *)
Reference == [location : Location, body : Body]

Doc == [includes : Seq(Reference), imports : Seq(Reference),
        overrides : Seq(Reference), redefines : Seq(Reference), body : Body]

CatalogEntry ==
  [type : {"exact", "rewrite", "other"}, name : Location, target : Path]

ASSUME PathAssumption ==
  /\ \A p \in Path : AbsKey(p) \in Key
  /\ \A p \in Path, l \in Location : Join(p, l) \in Path
  /\ \A t \in Path, l \in Location, m \in Location : Rewrite(t, l, m) \in Path
  /\ \A l \in Location, m \in Location : HasPrefix(l, m) \in BOOLEAN

(* Resolution is lexical: two spellings of one file give a location one key. *)
ASSUME LexicalAssumption ==
  \A p \in Path, q \in Path, l \in Location :
     AbsKey(p) = AbsKey(q) => AbsKey(Join(p, l)) = AbsKey(Join(q, l))

ASSUME InputAssumption ==
  /\ EmptyLocation \in Location
  /\ Unreadable \notin Doc
  /\ Disks \subseteq [Key -> Doc \cup {Unreadable}]
  /\ RootLists \subseteq Seq(Path)
  /\ CatalogLists \subseteq Seq(CatalogEntry) \cup {Unreadable}

-----------------------------------------------------------------------------

VARIABLES
  disk,      \* the file system; never changes during a load
  roots,     \* the files named by the caller
  catalogs,  \* the entries of the catalogs, in the order they are listed
  pc,        \* "catalogs", "files", "parsed" or "failed"
  resolver,  \* catalogResolver
  queue,     \* file names still to look at
  seen,      \* keys already taken from the queue
  files,     \* schemas.Files
  pending    \* references of the last file that are not enqueued yet

vars == <<disk, roots, catalogs, pc, resolver, queue, seen, files, pending>>

-----------------------------------------------------------------------------

(* The last uri or system entry that names the location, else the first     *)
(* (not the longest) rewrite prefix that fits, else the directory of the    *)
(* file that holds the reference.                                            *)
ResolveSchemaLocation(entries, path, location) ==
  LET exact == {i \in DOMAIN entries : /\ entries[i].type = "exact"
                                       /\ entries[i].name = location}
      rewrites == {i \in DOMAIN entries : /\ entries[i].type = "rewrite"
                                          /\ HasPrefix(location, entries[i].name)}
      last  == CHOOSE i \in exact : \A j \in exact : j <= i
      first == CHOOSE i \in rewrites : \A j \in rewrites : i <= j
  IN  IF exact # {} THEN entries[last].target
      ELSE IF rewrites # {}
           THEN Rewrite(entries[first].target, location, entries[first].name)
      ELSE Join(path, location)

(* References of a document in the order they are enqueued. *)
References(doc) ==
  doc.includes \o doc.imports \o doc.overrides \o doc.redefines

Init ==
  /\ disk \in Disks
  /\ roots \in RootLists
  /\ catalogs \in CatalogLists
  /\ pc = "catalogs"
  /\ resolver = << >>
  /\ queue = << >>
  /\ seen = {}
  /\ files = << >>
  /\ pending = << >>

LoadCatalogs ==
  /\ pc = "catalogs"
  /\ catalogs # Unreadable
  /\ resolver' = catalogs
  /\ queue' = roots
  /\ pc' = "files"
  /\ UNCHANGED <<disk, roots, catalogs, seen, files, pending>>

FailCatalogs ==
  /\ pc = "catalogs"
  /\ catalogs = Unreadable
  /\ pc' = "failed"
  /\ UNCHANGED <<disk, roots, catalogs, resolver, queue, seen, files, pending>>

(* The loop takes the next name once the last file's references are queued. *)
TakesFromQueue == pc = "files" /\ pending = << >> /\ queue # << >>

(* Seeded fault: a file seen before goes back to the end of the queue. *)
SkipSeenRequeued ==
  /\ TakesFromQueue
  /\ AbsKey(Head(queue)) \in seen
  /\ queue' = Append(Tail(queue), Head(queue))
  /\ UNCHANGED <<disk, roots, catalogs, pc, resolver, seen, files, pending>>

(* The head of the queue was parsed under this or another spelling. *)
SkipSeen ==
  /\ TakesFromQueue
  /\ AbsKey(Head(queue)) \in seen
  /\ queue' = Tail(queue)
  /\ UNCHANGED <<disk, roots, catalogs, pc, resolver, seen, files, pending>>

(* Seeded fault: files are told apart by the name as it is spelled. *)
ParseFileBySpelling ==
  /\ TakesFromQueue
  /\ LET path == Head(queue)
         doc  == disk[AbsKey(path)]
     IN  /\ \A i \in DOMAIN files : files[i].path # path
         /\ doc # Unreadable
         /\ seen' = seen \cup {AbsKey(path)}
         /\ files' = Append(files, [path |-> path, doc |-> doc])
         /\ pending' = References(doc)
  /\ queue' = Tail(queue)
  /\ UNCHANGED <<disk, roots, catalogs, pc, resolver>>

ParseFile ==
  /\ TakesFromQueue
  /\ LET path == Head(queue)
         key  == AbsKey(path)
     IN  /\ key \notin seen
         /\ disk[key] # Unreadable
         /\ seen' = seen \cup {key}
         /\ files' = Append(files, [path |-> path, doc |-> disk[key]])
         /\ pending' = References(disk[key])
  /\ queue' = Tail(queue)
  /\ UNCHANGED <<disk, roots, catalogs, pc, resolver>>

(* Seeded fault: the files parsed before the error are returned. *)
FailParsePartial ==
  /\ TakesFromQueue
  /\ AbsKey(Head(queue)) \notin seen
  /\ disk[AbsKey(Head(queue))] = Unreadable
  /\ seen' = seen \cup {AbsKey(Head(queue))}
  /\ queue' = Tail(queue)
  /\ pc' = "failed"
  /\ UNCHANGED <<disk, roots, catalogs, resolver, files, pending>>

(* The file is marked seen before it is opened; the error discards every  *)
(* file parsed so far.                                                     *)
FailParse ==
  /\ TakesFromQueue
  /\ AbsKey(Head(queue)) \notin seen
  /\ disk[AbsKey(Head(queue))] = Unreadable
  /\ seen' = seen \cup {AbsKey(Head(queue))}
  /\ queue' = Tail(queue)
  /\ files' = << >>
  /\ pc' = "failed"
  /\ UNCHANGED <<disk, roots, catalogs, resolver, pending>>

(* Seeded fault: references jump the queue. *)
EnqueueFirst ==
  /\ pc = "files"
  /\ pending # << >>
  /\ LET location == Head(pending).location
         base == files[Len(files)].path
     IN  queue' = IF location = EmptyLocation THEN queue
                  ELSE <<ResolveSchemaLocation(resolver, base, location)>> \o queue
  /\ pending' = Tail(pending)
  /\ UNCHANGED <<disk, roots, catalogs, pc, resolver, seen, files>>

(* Seeded fault: only the first entry of the catalogs is kept. *)
EnqueueOneEntry ==
  /\ pc = "files"
  /\ pending # << >>
  /\ LET location == Head(pending).location
         base == files[Len(files)].path
         kept == SelectSeq(resolver, LAMBDA e : e = resolver[1])
     IN  queue' = IF location = EmptyLocation THEN queue
                  ELSE Append(queue, ResolveSchemaLocation(kept, base, location))
  /\ pending' = Tail(pending)
  /\ UNCHANGED <<disk, roots, catalogs, pc, resolver, seen, files>>

(* One turn of the four loops over the references of the last file. *)
Enqueue ==
  /\ pc = "files"
  /\ pending # << >>
  /\ LET location == Head(pending).location
         base == files[Len(files)].path
     IN  queue' = IF location = EmptyLocation THEN queue
                  ELSE Append(queue,
                              ResolveSchemaLocation(resolver, base, location))
  /\ pending' = Tail(pending)
  /\ UNCHANGED <<disk, roots, catalogs, pc, resolver, seen, files>>

Drained ==
  /\ pc = "files"
  /\ pending = << >>
  /\ queue = << >>
  /\ pc' = "parsed"
  /\ UNCHANGED <<disk, roots, catalogs, resolver, queue, seen, files, pending>>

Next ==
  \/ LoadCatalogs
  \/ FailCatalogs
  \/ SkipSeen
  \/ ParseFile
  \/ FailParse
  \/ Enqueue
  \/ Drained

(* One goroutine runs the loop and nothing else touches its state, so it   *)
(* takes another step as long as it can.                                   *)
Spec == Init /\ [][Next]_vars /\ WF_vars(Next)
-----------------------------------------------------------------------------
(* What the load should be. *)

TypeOK ==
  /\ disk \in [Key -> Doc \cup {Unreadable}]
  /\ roots \in Seq(Path)
  /\ catalogs \in Seq(CatalogEntry) \cup {Unreadable}
  /\ pc \in {"catalogs", "files", "parsed", "failed"}
  /\ resolver \in Seq(CatalogEntry)
  /\ queue \in Seq(Path)
  /\ seen \subseteq Key
  /\ files \in Seq([path : Path, doc : Doc])
  /\ pending \in Seq(Reference)
  /\ pending # << >> => files # << >>

FileKeys == {AbsKey(files[i].path) : i \in DOMAIN files}

UnreadableKeys == {k \in Key : disk[k] = Unreadable}

(* The key that a reference in the file p stands for; none without a       *)
(* location.                                                                *)
TargetKeys(p, ref) ==
  IF ref.location = EmptyLocation THEN {}
  ELSE {AbsKey(ResolveSchemaLocation(resolver, p, ref.location))}

ReferencesAt(k) ==
  IF k \in UnreadableKeys THEN {}
  ELSE {References(disk[k])[n] : n \in DOMAIN References(disk[k])}

(* The keys that the document k refers to, under any of its names. *)
ReferredKeys(k) ==
  UNION {TargetKeys(p, ref) :
           p \in {q \in Path : AbsKey(q) = k}, ref \in ReferencesAt(k)}

Closure == INSTANCE Reachability WITH
  Node   <- Key,
  start  <- {AbsKey(roots[i]) : i \in DOMAIN roots},
  graph  <- [k \in Key |-> ReferredKeys(k)],
  broken <- UnreadableKeys,
  found  <- FileKeys,
  status <- CASE pc = "catalogs" -> "idle"
              [] pc = "files"    -> "searching"
              [] pc = "parsed"   -> "complete"
              [] OTHER           -> "aborted"

(* A file is parsed once, however many files refer to it and however they  *)
(* spell its name (the comment on ParseFiles, parser.go:17-19).             *)
ParsedOnce ==
  \A i \in DOMAIN files, j \in DOMAIN files :
     AbsKey(files[i].path) = AbsKey(files[j].path) => i = j

(* A load that succeeds returns the files reachable from the command line   *)
(* through all four kinds of references, all of them and no other.          *)
LoadedExactly == pc = "parsed" => FileKeys = Closure!Reachable

(* A load fails only for a bad catalog or for a reachable file that cannot  *)
(* be parsed: which file was asked for first makes no difference.           *)
FailsForAReason ==
  pc = "failed" => \/ catalogs = Unreadable
                   \/ Closure!Reachable \cap UnreadableKeys # {}

(* The places where the key k is mentioned: <<0, i>> on the command line,   *)
(* <<f, i>> as the i-th reference of the f-th file.                         *)
Mentions(k) ==
  {<<0, i>> : i \in {n \in DOMAIN roots : AbsKey(roots[n]) = k}} \cup
  UNION {{<<f, i>> : i \in {n \in DOMAIN References(files[f].doc) :
             k \in TargetKeys(files[f].path, References(files[f].doc)[n])}} :
           f \in DOMAIN files}

Earlier(m, n) == m[1] < n[1] \/ (m[1] = n[1] /\ m[2] < n[2])

(* Files come in the order in which they are first mentioned.  The later   *)
(* stages let the last of two declarations of one name win, so this order  *)
(* decides what the generated code means.                                   *)
FirstMentionOrder ==
  \A i \in DOMAIN files, j \in DOMAIN files :
     i < j => \A n \in Mentions(AbsKey(files[j].path)) :
                \E m \in Mentions(AbsKey(files[i].path)) : Earlier(m, n)

(* The load computes the closure of the references: every step of the loop *)
(* is a step of Reachability or changes nothing it can see.                 *)
ImplementsReachability == Closure!Search

(* Cyclic includes and imports do not keep the loop going. *)
Termination == <>(pc \in {"parsed", "failed"})
=============================================================================
