------------------------ MODULE SchemaLoader_proofs ------------------------
(***************************************************************************)
(* The schema loader: its types, that it parses every file once, that a    *)
(* successful load returns exactly the reachable files, in the order of    *)
(* their first mention, and that every step of the loop implements a step  *)
(* of Reachability.                                                        *)
(*                                                                         *)
(* The patches: their types, and, for documents that leave no doubt about  *)
(* what is patched, that nothing else is lost, that names stay unique,     *)
(* that a redefining declaration derives from the one it redefines, and    *)
(* that derivations end.                                                   *)
(***************************************************************************)
EXTENDS SchemaPatches, IndexLemmas

(* A location stands for a path, whatever the catalogs say. *)
LEMMA ResolveType ==
  ASSUME NEW entries \in Seq(CatalogEntry), NEW p \in Path, NEW l \in Location
  PROVE  ResolveSchemaLocation(entries, p, l) \in Path
<1> DEFINE exact == {i \in DOMAIN entries : /\ entries[i].type = "exact"
                                            /\ entries[i].name = l}
           rewrites == {i \in DOMAIN entries :
                          /\ entries[i].type = "rewrite"
                          /\ HasPrefix(l, entries[i].name)}
           last  == CHOOSE i \in exact : \A j \in exact : j <= i
           first == CHOOSE i \in rewrites : \A j \in rewrites : i <= j
<1>1. /\ DOMAIN entries = 1 .. Len(entries)
      /\ Len(entries) \in Nat
      /\ \A i \in DOMAIN entries : entries[i] \in CatalogEntry
  BY LenProperties, ElementOfSeq
<1>2. ASSUME exact # {} PROVE entries[last].target \in Path
  <2>1. \E i \in exact : \A j \in exact : j <= i
    BY <1>1, <1>2, LargestIndex
  <2>2. last \in exact
    BY <2>1
  <2> QED  BY <2>2, <1>1 DEF CatalogEntry
<1>3. ASSUME rewrites # {}
      PROVE  Rewrite(entries[first].target, l, entries[first].name) \in Path
  <2> rewrites \subseteq Nat
    BY <1>1
  <2>1. \E i \in rewrites : \A j \in rewrites : i <= j
    <3> HIDE DEF rewrites
    <3> QED  BY <1>3, SmallestIndex
  <2>2. first \in rewrites
    BY <2>1
  <2>3. entries[first].target \in Path /\ entries[first].name \in Location
    BY <2>2, <1>1 DEF CatalogEntry
  <2> QED  BY <2>3, PathAssumption
<1>4. Join(p, l) \in Path
  BY PathAssumption
<1>5. ResolveSchemaLocation(entries, p, l) =
        IF exact # {} THEN entries[last].target
        ELSE IF rewrites # {}
             THEN Rewrite(entries[first].target, l, entries[first].name)
        ELSE Join(p, l)
  BY DEF ResolveSchemaLocation
<1> HIDE DEF exact, rewrites, last, first
<1> QED  BY <1>2, <1>3, <1>4, <1>5

(* The spelling of the referring file does not change the file that is     *)
(* referred to.                                                             *)
LEMMA ResolveLexical ==
  ASSUME NEW entries \in Seq(CatalogEntry), NEW l \in Location,
         NEW p \in Path, NEW q \in Path, AbsKey(p) = AbsKey(q)
  PROVE  AbsKey(ResolveSchemaLocation(entries, p, l))
           = AbsKey(ResolveSchemaLocation(entries, q, l))
BY LexicalAssumption DEF ResolveSchemaLocation

LEMMA ReferencesType ==
  ASSUME NEW doc \in Doc
  PROVE  References(doc) \in Seq(Reference)
<1>1. /\ doc.includes \in Seq(Reference) /\ doc.imports \in Seq(Reference)
      /\ doc.overrides \in Seq(Reference) /\ doc.redefines \in Seq(Reference)
  BY DEF Doc
<1> QED  BY <1>1, ConcatProperties DEF References

-----------------------------------------------------------------------------

LEMMA TypeStep ==
  TypeOK /\ [Next]_vars => TypeOK'
<1> SUFFICES ASSUME TypeOK, [Next]_vars PROVE TypeOK'
  OBVIOUS
<1> USE DEF TypeOK
<1>1. CASE LoadCatalogs
  BY <1>1 DEF LoadCatalogs
<1>2. CASE FailCatalogs
  BY <1>2 DEF FailCatalogs
<1>3. CASE SkipSeen
  <2>1. Tail(queue) \in Seq(Path)
    BY <1>3, HeadTailProperties DEF SkipSeen, TakesFromQueue
  <2> QED  BY <2>1, <1>3 DEF SkipSeen
<1>4. CASE ParseFile
  <2> DEFINE path == Head(queue)
             key  == AbsKey(path)
  <2>1. path \in Path /\ Tail(queue) \in Seq(Path)
    BY <1>4, HeadTailProperties DEF ParseFile, TakesFromQueue
  <2>2. key \in Key /\ disk[key] \in Doc
    BY <1>4, <2>1, PathAssumption DEF ParseFile
  <2>3. References(disk[key]) \in Seq(Reference)
    BY <2>2, ReferencesType
  <2>4. [path |-> path, doc |-> disk[key]] \in [path : Path, doc : Doc]
    BY <2>1, <2>2
  <2>5. files' = Append(files, [path |-> path, doc |-> disk[key]])
    BY <1>4 DEF ParseFile
  <2>6. files' \in Seq([path : Path, doc : Doc]) /\ files' # << >>
    BY <2>4, <2>5, AppendProperties, EmptySeq
  <2> QED  BY <1>4, <2>1, <2>2, <2>3, <2>6 DEF ParseFile
<1>5. CASE FailParse
  <2>1. Head(queue) \in Path /\ Tail(queue) \in Seq(Path)
    BY <1>5, HeadTailProperties DEF FailParse, TakesFromQueue
  <2>2. AbsKey(Head(queue)) \in Key
    BY <2>1, PathAssumption
  <2>3. pending' = << >> /\ files' = << >> /\ files' \in Seq([path : Path, doc : Doc])
    BY <1>5, EmptySeq DEF FailParse, TakesFromQueue
  <2> QED  BY <1>5, <2>1, <2>2, <2>3 DEF FailParse
<1>6. CASE Enqueue
  <2> DEFINE location == Head(pending).location
             base == files[Len(files)].path
  <2>1. location \in Location /\ Tail(pending) \in Seq(Reference)
    <3>1. Head(pending) \in Reference /\ Tail(pending) \in Seq(Reference)
      BY <1>6, HeadTailProperties DEF Enqueue
    <3> QED  BY <3>1 DEF Reference
  <2>2. Len(files) \in 1 .. Len(files)
    BY <1>6, EmptySeq, LenProperties DEF Enqueue
  <2>3. base \in Path
    <3>1. files[Len(files)] \in [path : Path, doc : Doc]
      BY <2>2, ElementOfSeq
    <3> QED  BY <3>1
  <2>4. ResolveSchemaLocation(resolver, base, location) \in Path
    BY <2>1, <2>3, ResolveType
  <2>5. queue' \in Seq(Path)
    BY <1>6, <2>4, AppendProperties DEF Enqueue
  <2> QED  BY <1>6, <2>1, <2>5 DEF Enqueue
<1>7. CASE Drained
  BY <1>7 DEF Drained
<1>8. CASE UNCHANGED vars
  BY <1>8 DEF vars
<1> QED
  BY <1>1, <1>2, <1>3, <1>4, <1>5, <1>6, <1>7, <1>8 DEF Next

(* Every variable keeps its type; in particular an unreadable file never   *)
(* becomes part of the result.                                              *)
THEOREM TypeCorrect == Spec => []TypeOK
<1>1. Init => TypeOK
  BY InputAssumption, EmptySeq DEF Init, TypeOK
<1>2. TypeOK /\ [Next]_vars => TypeOK'
  BY TypeStep
<1> QED  BY <1>1, <1>2, PTL DEF Spec
-----------------------------------------------------------------------------
(* Sequences as sets of their elements. *)

LEMMA RangeHeadTail ==
  ASSUME NEW S, NEW s \in Seq(S), s # << >>
  PROVE  /\ Range(s) = {Head(s)} \cup Range(Tail(s))
         /\ Head(s) \in S
         /\ Tail(s) \in Seq(S)
<1>1. /\ Head(s) = s[1]
      /\ Head(s) \in S
      /\ Tail(s) \in Seq(S)
      /\ Len(Tail(s)) = Len(s) - 1
      /\ \A i \in 1 .. Len(Tail(s)) : Tail(s)[i] = s[i + 1]
  BY HeadTailProperties
<1>2. /\ Len(s) \in Nat \ {0}
      /\ DOMAIN s = 1 .. Len(s)
      /\ DOMAIN Tail(s) = 1 .. Len(s) - 1
  BY <1>1, EmptySeq, LenProperties
<1>3. Range(s) \subseteq {Head(s)} \cup Range(Tail(s))
  <2> SUFFICES ASSUME NEW i \in 1 .. Len(s), i # 1
               PROVE  s[i] \in Range(Tail(s))
    BY <1>1, <1>2 DEF Range
  <2>1. i - 1 \in 1 .. Len(Tail(s)) /\ s[i] = Tail(s)[i - 1]
    BY <1>1, <1>2
  <2> QED  BY <2>1, <1>1, <1>2 DEF Range
<1>4. {Head(s)} \cup Range(Tail(s)) \subseteq Range(s)
  <2>1. 1 \in DOMAIN s
    BY <1>2
  <2>2. \A i \in 1 .. Len(Tail(s)) : i + 1 \in DOMAIN s
    BY <1>1, <1>2
  <2> QED  BY <2>1, <2>2, <1>1, <1>2 DEF Range
<1> QED  BY <1>1, <1>3, <1>4

-----------------------------------------------------------------------------

(* The files after one more was parsed. *)
LEMMA FilesAppended ==
  ASSUME TypeOK, NEW new, files' = Append(files, new)
  PROVE  /\ Len(files) \in Nat
         /\ DOMAIN files = 1 .. Len(files)
         /\ DOMAIN files' = 1 .. Len(files) + 1
         /\ \A i \in 1 .. Len(files) : files'[i] = files[i]
         /\ files'[Len(files) + 1] = new
<1>1. files \in Seq(Range(files) \cup {new}) /\ new \in Range(files) \cup {new}
  <2>1. Len(files) \in Nat /\ files \in [1 .. Len(files) -> Range(files) \cup {new}]
    BY LenProperties DEF TypeOK, Range
  <2> QED  BY <2>1, SeqDef
<1>2. /\ files' \in Seq(Range(files) \cup {new})
      /\ Len(files') = Len(files) + 1
      /\ \A i \in 1 .. Len(files) : files'[i] = files[i]
      /\ files'[Len(files) + 1] = new
  BY <1>1, AppendProperties
<1> QED  BY <1>1, <1>2, LenProperties

(* What was seen includes every file in the result; so the test of `seen'  *)
(* keeps a file from being parsed again.                                    *)
SeenFirst == FileKeys \subseteq seen

LEMMA OnceStep ==
  TypeOK /\ SeenFirst /\ ParsedOnce /\ [Next]_vars
    => (SeenFirst /\ ParsedOnce)'
<1> SUFFICES ASSUME TypeOK, SeenFirst, ParsedOnce, [Next]_vars
             PROVE  SeenFirst' /\ ParsedOnce'
  OBVIOUS
<1> USE DEF SeenFirst, ParsedOnce, FileKeys
<1>1. CASE LoadCatalogs
  BY <1>1 DEF LoadCatalogs
<1>2. CASE FailCatalogs
  BY <1>2 DEF FailCatalogs
<1>3. CASE SkipSeen
  BY <1>3 DEF SkipSeen
<1>4. CASE ParseFile
  <2> DEFINE path == Head(queue)
             new == [path |-> path, doc |-> disk[AbsKey(path)]]
  <2>1. /\ AbsKey(path) \notin seen
        /\ seen' = seen \cup {AbsKey(path)}
        /\ files' = Append(files, new)
    BY <1>4 DEF ParseFile
  <2>2. /\ Len(files) \in Nat
        /\ DOMAIN files = 1 .. Len(files)
        /\ DOMAIN files' = 1 .. Len(files) + 1
        /\ \A i \in 1 .. Len(files) : files'[i] = files[i]
        /\ files'[Len(files) + 1] = new
    BY <2>1, FilesAppended
  <2>3. \A i \in DOMAIN files' : \/ i \in DOMAIN files
                                 \/ i = Len(files) + 1
    BY <2>2
  <2>4. new.path = path
    OBVIOUS
  <2>5. SeenFirst'
    BY <2>1, <2>2, <2>3, <2>4
  <2>6. \A i \in DOMAIN files : AbsKey(files[i].path) # AbsKey(path)
    BY <2>1
  <2>7. ParsedOnce'
    BY <2>2, <2>3, <2>4, <2>6
  <2> QED  BY <2>5, <2>7
<1>5. CASE FailParse
  BY <1>5 DEF FailParse
<1>6. CASE Enqueue
  BY <1>6 DEF Enqueue
<1>7. CASE Drained
  BY <1>7 DEF Drained
<1>8. CASE UNCHANGED vars
  BY <1>8 DEF vars
<1> QED
  BY <1>1, <1>2, <1>3, <1>4, <1>5, <1>6, <1>7, <1>8 DEF Next

(* No file is parsed twice, under any spelling (ParsedOnce). *)
THEOREM NeverParsedAgain == Spec => []ParsedOnce
<1>1. Init => SeenFirst /\ ParsedOnce
  BY DEF Init, SeenFirst, ParsedOnce, FileKeys
<1>2. TypeOK /\ SeenFirst /\ ParsedOnce /\ [Next]_vars
        => (SeenFirst /\ ParsedOnce)'
  BY OnceStep
<1> QED  BY <1>1, <1>2, TypeCorrect, PTL DEF Spec
-----------------------------------------------------------------------------
(* References, and the files reachable along them. *)

RootKeys == {AbsKey(roots[i]) : i \in DOMAIN roots}

KeysOf(paths) == {AbsKey(p) : p \in Range(paths)}

(* The keys that the references refs of the file p stand for. *)
TargetsOf(p, refs) == UNION {TargetKeys(p, ref) : ref \in refs}

LEMMA TargetKeysType ==
  ASSUME TypeOK, NEW p \in Path, NEW ref \in Reference
  PROVE  TargetKeys(p, ref) \subseteq Key
<1>1. ref.location \in Location
  BY DEF Reference
<1>2. ResolveSchemaLocation(resolver, p, ref.location) \in Path
  BY <1>1, ResolveType DEF TypeOK
<1> QED  BY <1>2, PathAssumption DEF TargetKeys

LEMMA ReferencesAtType ==
  ASSUME TypeOK, NEW k \in Key
  PROVE  /\ ReferencesAt(k) \subseteq Reference
         /\ k \notin UnreadableKeys => ReferencesAt(k) = Range(References(disk[k]))
<1>1. CASE k \in UnreadableKeys
  BY <1>1 DEF ReferencesAt
<1>2. CASE k \notin UnreadableKeys
  <2>1. disk[k] \in Doc
    BY <1>2 DEF UnreadableKeys, TypeOK
  <2>2. References(disk[k]) \in Seq(Reference)
    BY <2>1, ReferencesType
  <2>3. Range(References(disk[k])) \subseteq Reference
    BY <2>2, ElementOfSeq, LenProperties DEF Range
  <2> QED  BY <1>2, <2>3 DEF ReferencesAt, Range
<1> QED  BY <1>1, <1>2

(* Every spelling of a file refers to the same keys. *)
LEMMA OneSpelling ==
  ASSUME TypeOK, NEW p \in Path
  PROVE  ReferredKeys(AbsKey(p)) = TargetsOf(p, ReferencesAt(AbsKey(p)))
<1> DEFINE k == AbsKey(p)
<1>1. k \in Key /\ ReferencesAt(k) \subseteq Reference
  BY PathAssumption, ReferencesAtType
<1>2. ASSUME NEW q \in Path, AbsKey(q) = k, NEW ref \in ReferencesAt(k)
      PROVE  TargetKeys(q, ref) = TargetKeys(p, ref)
  <2>1. ref.location \in Location
    BY <1>1 DEF Reference
  <2>2. AbsKey(ResolveSchemaLocation(resolver, q, ref.location))
          = AbsKey(ResolveSchemaLocation(resolver, p, ref.location))
    BY <1>2, <2>1, ResolveLexical DEF TypeOK
  <2> QED  BY <2>2 DEF TargetKeys
<1> QED  BY <1>2 DEF ReferredKeys, TargetsOf

LEMMA ReferredKeysType ==
  ASSUME TypeOK, NEW k \in Key
  PROVE  ReferredKeys(k) \subseteq Key
<1>1. ReferencesAt(k) \subseteq Reference
  BY ReferencesAtType
<1>2. \A q \in Path, ref \in ReferencesAt(k) : TargetKeys(q, ref) \subseteq Key
  BY <1>1, TargetKeysType
<1> QED  BY <1>2 DEF ReferredKeys

(* Reachable is closed under the references of readable files, and within  *)
(* every set that is.                                                       *)
ReachableClosed ==
  /\ Closure!Reachable \subseteq Key
  /\ RootKeys \subseteq Closure!Reachable
  /\ \A k \in Closure!Reachable :
       k \notin UnreadableKeys => ReferredKeys(k) \subseteq Closure!Reachable

LEMMA ReachableIsClosed == TypeOK => ReachableClosed
<1> SUFFICES ASSUME TypeOK PROVE ReachableClosed
  OBVIOUS
<1>1. RootKeys \subseteq Key
  <2>1. \A i \in DOMAIN roots : roots[i] \in Path
    BY ElementOfSeq, LenProperties DEF TypeOK
  <2> QED  BY <2>1, PathAssumption DEF RootKeys
<1>2. \A k \in Key : ReferredKeys(k) \subseteq Key
  BY ReferredKeysType
<1> QED
  BY <1>1, <1>2
  DEF Closure!Reachable, Closure!ClosedUnderReferences, RootKeys,
      ReachableClosed

LEMMA ReachableIsLeast ==
  ASSUME NEW S, S \subseteq Key, RootKeys \subseteq S,
         \A k \in S : k \notin UnreadableKeys => ReferredKeys(k) \subseteq S
  PROVE  Closure!Reachable \subseteq S
BY DEF Closure!Reachable, Closure!ClosedUnderReferences, RootKeys

(* While the queue is drained nothing that reachability depends on moves.  *)
LEMMA ReachableIsFixed ==
  ASSUME UNCHANGED <<disk, roots, resolver>>
  PROVE  /\ UNCHANGED <<Closure!Reachable, RootKeys, UnreadableKeys>>
         /\ \A k \in Key : ReferredKeys(k)' = ReferredKeys(k)
         /\ \A k \in Key : ReferencesAt(k)' = ReferencesAt(k)
         /\ \A p \in Path : \A ref \in Reference :
              TargetKeys(p, ref)' = TargetKeys(p, ref)
<1> USE DEF UnreadableKeys, RootKeys, ReferredKeys, ReferencesAt, TargetKeys
<1>1. UNCHANGED <<RootKeys, UnreadableKeys>>
  OBVIOUS
<1>2. \A k \in Key : ReferencesAt(k)' = ReferencesAt(k)
  OBVIOUS
<1>3. \A p \in Path : \A ref \in Reference : TargetKeys(p, ref)' = TargetKeys(p, ref)
  OBVIOUS
<1>4. \A k \in Key : ReferredKeys(k)' = ReferredKeys(k)
  OBVIOUS
<1>5. UNCHANGED Closure!Reachable
  BY DEF Closure!Reachable, Closure!ClosedUnderReferences
<1> QED  BY <1>1, <1>2, <1>3, <1>4, <1>5
-----------------------------------------------------------------------------
(* The inductive invariant of the worklist. *)

PendingKeys == TargetsOf(files[Len(files)].path, Range(pending))

(* Everything the loop has come across. *)
Noticed == seen \cup KeysOf(queue) \cup PendingKeys

Untouched == queue = << >> /\ seen = {} /\ files = << >> /\ pending = << >>

(* The keys named by the caller or by a file of the result. *)
Mentioned == RootKeys \cup UNION {ReferredKeys(k) : k \in FileKeys}

(* While the queue is drained: the files are the seen keys, every reference *)
(* of a file has been noticed, and nothing but mentioned keys has, all of   *)
(* them reachable.                                                          *)
Draining ==
  /\ seen = FileKeys
  /\ FileKeys \cap UnreadableKeys = {}
  /\ RootKeys \subseteq seen \cup KeysOf(queue)
  /\ \A k \in FileKeys : ReferredKeys(k) \subseteq Noticed
  /\ Noticed \subseteq Mentioned
  /\ Noticed \subseteq Closure!Reachable

LoaderInv ==
  /\ pc = "catalogs" => Untouched
  /\ pc = "files" => Draining
  /\ pc = "parsed" => Draining /\ queue = << >> /\ pending = << >>
  /\ FailsForAReason

LEMMA FileKeysAppend ==
  ASSUME TypeOK, NEW e \in [path : Path, doc : Doc], files' = Append(files, e)
  PROVE  /\ FileKeys' = FileKeys \cup {AbsKey(e.path)}
         /\ files'[Len(files')] = e
<1>1. /\ Len(files') = Len(files) + 1
      /\ \A i \in 1 .. Len(files) : files'[i] = files[i]
      /\ files'[Len(files) + 1] = e
      /\ Range(files') = Range(files) \cup {e}
  <2> DEFINE Entry == [path : Path, doc : Doc]
  <2>1. files \in Seq(Entry) /\ e \in Entry
    BY DEF TypeOK
  <2> HIDE DEF Entry
  <2> QED  BY <2>1, AppendProperties, RangeOfAppend
<1>2. FileKeys = {AbsKey(f.path) : f \in Range(files)}
  BY DEF FileKeys, Range
<1>3. FileKeys' = {AbsKey(f.path) : f \in Range(files')}
  BY DEF FileKeys, Range
<1> QED  BY <1>1, <1>2, <1>3

(* Taking the head of the queue moves one key. *)
LEMMA KeysOfQueue ==
  ASSUME TypeOK, queue # << >>
  PROVE  /\ KeysOf(queue) = {AbsKey(Head(queue))} \cup KeysOf(Tail(queue))
         /\ Head(queue) \in Path
         /\ AbsKey(Head(queue)) \in Key
<1>1. Range(queue) = {Head(queue)} \cup Range(Tail(queue)) /\ Head(queue) \in Path
  BY RangeHeadTail DEF TypeOK
<1> QED  BY <1>1, PathAssumption DEF KeysOf

LEMMA NoPending == ASSUME pending = << >> PROVE PendingKeys = {}
BY RangeOfEmpty DEF PendingKeys, TargetsOf

LEMMA InvLoadCatalogs ==
  ASSUME TypeOK, TypeOK', LoaderInv, LoadCatalogs
  PROVE  LoaderInv'
<1>1. /\ pc' = "files" /\ queue' = roots /\ seen' = {} /\ files' = << >>
      /\ pending' = << >>
  BY DEF LoadCatalogs, LoaderInv, Untouched
<1>2. FileKeys' = {}
  BY <1>1 DEF FileKeys
<1>3. PendingKeys' = {}
  BY <1>1, RangeOfEmpty DEF PendingKeys, TargetsOf
<1>4. KeysOf(queue)' = RootKeys'
  BY <1>1 DEF KeysOf, RootKeys, Range, LoadCatalogs
<1>5. RootKeys' \subseteq Closure!Reachable'
  <2>1. ReachableClosed'
    BY ReachableIsClosed, PTL
  <2> QED  BY <2>1 DEF ReachableClosed
<1>6. Draining'
  BY <1>1, <1>2, <1>3, <1>4, <1>5 DEF Draining, Noticed, Mentioned
<1> QED  BY <1>1, <1>6 DEF LoaderInv, FailsForAReason

LEMMA InvSkipSeen ==
  ASSUME TypeOK, LoaderInv, SkipSeen
  PROVE  LoaderInv'
<1>1. /\ pc = "files" /\ pc' = "files" /\ queue # << >> /\ pending = << >>
      /\ AbsKey(Head(queue)) \in seen
      /\ queue' = Tail(queue)
      /\ UNCHANGED <<disk, roots, catalogs, resolver, seen, files, pending>>
  BY DEF SkipSeen, TakesFromQueue
<1>2. Draining
  BY <1>1 DEF LoaderInv
<1>3. seen \cup KeysOf(queue)' = seen \cup KeysOf(queue)
  BY <1>1, KeysOfQueue DEF KeysOf
<1>4. /\ UNCHANGED <<Closure!Reachable, RootKeys, UnreadableKeys>>
      /\ \A k \in Key : ReferredKeys(k)' = ReferredKeys(k)
  BY <1>1, ReachableIsFixed
<1>5. UNCHANGED <<FileKeys, seen>> /\ FileKeys \subseteq Key
  BY <1>1, <1>2 DEF FileKeys, Draining, TypeOK
<1>6. PendingKeys = {} /\ PendingKeys' = {}
  BY <1>1, RangeOfEmpty DEF PendingKeys, TargetsOf
<1>7. Noticed' = Noticed
  BY <1>3, <1>5, <1>6 DEF Noticed
<1>8. Draining'
  <2>1. \A k \in FileKeys' : ReferredKeys(k)' = ReferredKeys(k)
    BY <1>4, <1>5
  <2>2. Mentioned' = Mentioned
    BY <2>1, <1>4, <1>5 DEF Mentioned
  <2> QED  BY <2>1, <2>2, <1>2, <1>3, <1>4, <1>5, <1>7 DEF Draining
<1> QED  BY <1>1, <1>8 DEF LoaderInv, FailsForAReason

LEMMA InvParseFile ==
  ASSUME TypeOK, TypeOK', LoaderInv, ParseFile
  PROVE  LoaderInv'
<1>0. PICK path : path = Head(queue)
  OBVIOUS
<1> DEFINE key == AbsKey(path)
           e == [path |-> path, doc |-> disk[key]]
<1>1. /\ pc = "files" /\ pc' = "files" /\ queue # << >> /\ pending = << >>
      /\ key \notin seen
      /\ disk[key] # Unreadable
      /\ seen' = seen \cup {key}
      /\ files' = Append(files, e)
      /\ pending' = References(disk[key])
      /\ queue' = Tail(queue)
      /\ UNCHANGED <<disk, roots, catalogs, resolver>>
  BY <1>0 DEF ParseFile, TakesFromQueue
<1>2. Draining
  BY <1>1 DEF LoaderInv
<1>3. /\ KeysOf(queue) = {key} \cup KeysOf(queue)'
      /\ path \in Path /\ key \in Key
  BY <1>0, <1>1, KeysOfQueue DEF KeysOf
<1>4. /\ UNCHANGED <<Closure!Reachable, RootKeys, UnreadableKeys>>
      /\ \A k \in Key : ReferredKeys(k)' = ReferredKeys(k)
      /\ \A p \in Path : \A ref \in Reference : TargetKeys(p, ref)' = TargetKeys(p, ref)
  BY <1>1, ReachableIsFixed
<1>5. disk[key] \in Doc /\ key \notin UnreadableKeys
  BY <1>1, <1>3 DEF TypeOK, UnreadableKeys
<1>6. FileKeys' = FileKeys \cup {key} /\ files'[Len(files')] = e
  <2>1. e \in [path : Path, doc : Doc]
    BY <1>3, <1>5
  <2>2. FileKeys' = FileKeys \cup {AbsKey(e.path)} /\ files'[Len(files')] = e
    BY <1>1, <2>1, FileKeysAppend
  <2> QED  BY <2>2
<1>7. PendingKeys' = ReferredKeys(key)
  <2>1. Range(pending') = ReferencesAt(key) /\ ReferencesAt(key) \subseteq Reference
    BY <1>1, <1>3, <1>5, ReferencesAtType
  <2>2. ReferredKeys(key) = TargetsOf(path, ReferencesAt(key))
    BY <1>3, OneSpelling
  <2>3. PendingKeys' = UNION {TargetKeys(path, ref)' : ref \in ReferencesAt(key)}
    <3>1. files'[Len(files')].path = path
      BY <1>6
    <3> QED  BY <2>1, <3>1 DEF PendingKeys, TargetsOf
  <2>4. PendingKeys' = UNION {TargetKeys(path, ref) : ref \in ReferencesAt(key)}
    BY <2>1, <2>3, <1>3, <1>4
  <2> QED  BY <2>2, <2>4 DEF TargetsOf
<1>8. PendingKeys = {}
  BY <1>1, NoPending
<1>9. Noticed' = Noticed \cup ReferredKeys(key)
  BY <1>1, <1>3, <1>7, <1>8 DEF Noticed
<1>10. key \in Closure!Reachable
  BY <1>2, <1>3 DEF Draining, Noticed
<1>11. ReferredKeys(key) \subseteq Closure!Reachable
  BY <1>5, <1>10, ReachableIsClosed DEF ReachableClosed
<1>12. Draining'
  <2>1. seen' = FileKeys' /\ FileKeys' \cap UnreadableKeys' = {}
    BY <1>1, <1>2, <1>4, <1>5, <1>6 DEF Draining
  <2>2. RootKeys' \subseteq seen' \cup KeysOf(queue)'
    BY <1>1, <1>2, <1>3, <1>4 DEF Draining
  <2>3. \A k \in FileKeys' : ReferredKeys(k)' \subseteq Noticed'
    <3>1. FileKeys' \subseteq Key
      BY <1>2, <1>3, <1>6 DEF Draining, TypeOK
    <3> QED  BY <3>1, <1>2, <1>4, <1>6, <1>9 DEF Draining
  <2>4. Noticed' \subseteq Closure!Reachable'
    BY <1>2, <1>4, <1>9, <1>11 DEF Draining
  <2>5. Noticed' \subseteq Mentioned'
    <3>1. FileKeys' \subseteq Key
      BY <1>2, <1>3, <1>6 DEF Draining, TypeOK
    <3>2. Mentioned' = Mentioned \cup ReferredKeys(key)
      <4>1. Mentioned' = RootKeys \cup UNION {ReferredKeys(k) : k \in FileKeys'}
        BY <3>1, <1>4 DEF Mentioned
      <4> QED  BY <4>1, <1>6 DEF Mentioned
    <3> QED  BY <3>2, <1>2, <1>9 DEF Draining
  <2> QED  BY <2>1, <2>2, <2>3, <2>4, <2>5 DEF Draining
<1> QED  BY <1>1, <1>12 DEF LoaderInv, FailsForAReason

LEMMA InvFailParse ==
  ASSUME TypeOK, LoaderInv, FailParse
  PROVE  LoaderInv'
<1> DEFINE key == AbsKey(Head(queue))
<1>1. /\ pc = "files" /\ pc' = "failed" /\ queue # << >>
      /\ disk[key] = Unreadable
      /\ UNCHANGED <<disk, roots, catalogs, resolver>>
  BY DEF FailParse, TakesFromQueue
<1>2. Draining
  BY <1>1 DEF LoaderInv
<1>3. key \in KeysOf(queue) /\ key \in Key
  BY <1>1, KeysOfQueue
<1>4. key \in Closure!Reachable \cap UnreadableKeys
  BY <1>1, <1>2, <1>3 DEF Draining, Noticed, UnreadableKeys
<1>5. UNCHANGED <<Closure!Reachable, UnreadableKeys>>
  BY <1>1, ReachableIsFixed
<1>6. FailsForAReason'
  BY <1>4, <1>5 DEF FailsForAReason
<1> QED  BY <1>1, <1>6 DEF LoaderInv

LEMMA InvEnqueue ==
  ASSUME TypeOK, TypeOK', LoaderInv, Enqueue
  PROVE  LoaderInv'
<1>0. PICK ref, base : ref = Head(pending) /\ base = files[Len(files)].path
  OBVIOUS
<1>1. /\ pc = "files" /\ pc' = "files" /\ pending # << >>
      /\ queue' = IF ref.location = EmptyLocation THEN queue
                  ELSE Append(queue, ResolveSchemaLocation(resolver, base, ref.location))
      /\ pending' = Tail(pending)
      /\ UNCHANGED <<disk, roots, catalogs, resolver, seen, files>>
  BY <1>0 DEF Enqueue
<1>2. Draining
  BY <1>1 DEF LoaderInv
<1>3. /\ Range(pending) = {ref} \cup Range(pending')
      /\ ref \in Reference
      /\ Range(pending) \subseteq Reference
  <2>1. pending \in Seq(Reference)
    BY DEF TypeOK
  <2>2. Range(pending) = {ref} \cup Range(Tail(pending)) /\ ref \in Reference
    BY <1>0, <1>1, <2>1, RangeHeadTail
  <2>3. Range(pending) \subseteq Reference
    BY <2>1, ElementOfSeq, LenProperties DEF Range
  <2> QED  BY <1>1, <2>2, <2>3
<1>4. base \in Path
  <2>1. Len(files) \in 1 .. Len(files)
    BY <1>1, EmptySeq, LenProperties DEF TypeOK
  <2>2. files[Len(files)] \in [path : Path, doc : Doc]
    BY <2>1, ElementOfSeq DEF TypeOK
  <2> QED  BY <1>0, <2>2
<1>5. /\ UNCHANGED <<Closure!Reachable, RootKeys, UnreadableKeys>>
      /\ \A k \in Key : ReferredKeys(k)' = ReferredKeys(k)
      /\ \A p \in Path : \A r \in Reference : TargetKeys(p, r)' = TargetKeys(p, r)
  BY <1>1, ReachableIsFixed
<1>6. UNCHANGED <<FileKeys, seen>> /\ FileKeys \subseteq Key
  BY <1>1, <1>2 DEF FileKeys, Draining, TypeOK
<1>7. KeysOf(queue)' = KeysOf(queue) \cup TargetKeys(base, ref)
  <2>1. CASE ref.location = EmptyLocation
    BY <1>1, <2>1 DEF TargetKeys, KeysOf
  <2>2. CASE ref.location # EmptyLocation
    <3> DEFINE t == ResolveSchemaLocation(resolver, base, ref.location)
    <3>1. t \in Path
      BY <1>3, <1>4, ResolveType DEF Reference, TypeOK
    <3>2. Range(queue') = Range(queue) \cup {t}
      BY <1>1, <2>2, <3>1, RangeOfAppend DEF TypeOK
    <3>3. TargetKeys(base, ref) = {AbsKey(t)}
      BY <2>2 DEF TargetKeys
    <3> QED  BY <3>2, <3>3 DEF KeysOf
  <2> QED  BY <2>1, <2>2
<1>8. PendingKeys = TargetKeys(base, ref) \cup PendingKeys'
  <2>1. PendingKeys = UNION {TargetKeys(base, r) : r \in Range(pending)}
    BY <1>0 DEF PendingKeys, TargetsOf
  <2>2. PendingKeys' = UNION {TargetKeys(base, r)' : r \in Range(pending')}
    BY <1>0, <1>1 DEF PendingKeys, TargetsOf
  <2>3. \A r \in Range(pending') : TargetKeys(base, r)' = TargetKeys(base, r)
    BY <1>3, <1>4, <1>5
  <2> QED  BY <2>1, <2>2, <2>3, <1>3
<1>9. Noticed' = Noticed
  BY <1>6, <1>7, <1>8 DEF Noticed
<1>10. Draining'
  <2>1. \A k \in FileKeys' : ReferredKeys(k)' = ReferredKeys(k)
    BY <1>5, <1>6
  <2>2. RootKeys' \subseteq seen' \cup KeysOf(queue)'
    BY <1>2, <1>5, <1>6, <1>7 DEF Draining
  <2>3. Mentioned' = Mentioned
    BY <2>1, <1>5, <1>6 DEF Mentioned
  <2> QED  BY <2>1, <2>2, <2>3, <1>2, <1>5, <1>6, <1>9 DEF Draining
<1> QED  BY <1>1, <1>10 DEF LoaderInv, FailsForAReason

(* Steps that change nothing but the program counter. *)
LEMMA DrainingIsKept ==
  ASSUME TypeOK, Draining,
         UNCHANGED <<disk, roots, resolver, queue, seen, files, pending>>
  PROVE  Draining'
<1>1. /\ UNCHANGED <<Closure!Reachable, RootKeys, UnreadableKeys>>
      /\ \A k \in Key : ReferredKeys(k)' = ReferredKeys(k)
      /\ \A p \in Path : \A r \in Reference : TargetKeys(p, r)' = TargetKeys(p, r)
  BY ReachableIsFixed
<1>2. UNCHANGED <<FileKeys, seen, KeysOf(queue)>> /\ FileKeys \subseteq Key
  BY DEF FileKeys, KeysOf, Draining, TypeOK
<1>3. PendingKeys' = PendingKeys
  BY DEF PendingKeys, TargetsOf, TargetKeys
<1>4. Noticed' = Noticed
  BY <1>2, <1>3 DEF Noticed
<1>5. Mentioned' = Mentioned
  BY <1>1, <1>2 DEF Mentioned
<1> QED  BY <1>1, <1>2, <1>4, <1>5 DEF Draining

LEMMA LoaderInvInductive ==
  TypeOK /\ TypeOK' /\ LoaderInv /\ [Next]_vars => LoaderInv'
<1> SUFFICES ASSUME TypeOK, TypeOK', LoaderInv, [Next]_vars PROVE LoaderInv'
  OBVIOUS
<1>1. CASE LoadCatalogs
  BY <1>1, InvLoadCatalogs
<1>2. CASE FailCatalogs
  BY <1>2 DEF FailCatalogs, LoaderInv, FailsForAReason
<1>3. CASE SkipSeen
  BY <1>3, InvSkipSeen
<1>4. CASE ParseFile
  BY <1>4, InvParseFile
<1>5. CASE FailParse
  BY <1>5, InvFailParse
<1>6. CASE Enqueue
  BY <1>6, InvEnqueue
<1>7. CASE Drained
  <2>1. Draining'
    BY <1>7, DrainingIsKept DEF Drained, LoaderInv
  <2> QED  BY <1>7, <2>1 DEF Drained, LoaderInv, FailsForAReason
<1>8. CASE UNCHANGED vars
  <2>1. Draining => Draining'
    BY <1>8, DrainingIsKept DEF vars
  <2>2. UNCHANGED <<Closure!Reachable, UnreadableKeys>>
    BY <1>8, ReachableIsFixed DEF vars
  <2>3. FailsForAReason'
    BY <1>8, <2>2 DEF LoaderInv, FailsForAReason, vars
  <2> QED  BY <1>8, <2>1, <2>3 DEF LoaderInv, Untouched, vars
<1> QED
  BY <1>1, <1>2, <1>3, <1>4, <1>5, <1>6, <1>7, <1>8 DEF Next

LEMMA LoaderInvHolds == Spec => []LoaderInv
<1>1. Init => LoaderInv
  BY DEF Init, LoaderInv, Untouched, FailsForAReason
<1> QED  BY <1>1, LoaderInvInductive, TypeCorrect, PTL DEF Spec

(* A successful load has parsed exactly the reachable files: every one of  *)
(* the four loops over the references is needed for `all', and the `seen'  *)
(* map together with the order of the two tests for `no other'.            *)
THEOREM LoadsTheClosure == Spec => []LoadedExactly
<1>1. TypeOK /\ LoaderInv => LoadedExactly
  <2> SUFFICES ASSUME TypeOK, LoaderInv, pc = "parsed"
               PROVE  FileKeys = Closure!Reachable
    BY DEF LoadedExactly
  <2>1. Draining /\ queue = << >> /\ pending = << >>
    BY DEF LoaderInv
  <2>2. Noticed = FileKeys
    BY <2>1, NoPending, RangeOfEmpty DEF Noticed, KeysOf, Draining
  <2>3. FileKeys \subseteq Key /\ RootKeys \subseteq FileKeys
    BY <2>1, RangeOfEmpty DEF Draining, TypeOK, KeysOf
  <2>4. \A k \in FileKeys : ReferredKeys(k) \subseteq FileKeys
    BY <2>1, <2>2 DEF Draining
  <2>5. Closure!Reachable \subseteq FileKeys
    BY <2>3, <2>4, ReachableIsLeast
  <2> QED  BY <2>1, <2>2, <2>5 DEF Draining
<1> QED  BY <1>1, LoaderInvHolds, TypeCorrect, PTL

(* A load that fails had a reason that no order of the files removes. *)
THEOREM FailuresHaveAReason == Spec => []FailsForAReason
<1>1. LoaderInv => FailsForAReason
  BY DEF LoaderInv
<1> QED  BY <1>1, LoaderInvHolds, PTL
-----------------------------------------------------------------------------
(* The order of the files.  A mention <<f, i>> is a pair of numbers, and    *)
(* what it mentions is one key.                                             *)

RefsOf(f) == References(files[f].doc)

MentionsOf(k, f, i) ==
  \/ f = 0 /\ i \in DOMAIN roots /\ AbsKey(roots[i]) = k
  \/ /\ f \in DOMAIN files /\ i \in DOMAIN RefsOf(f)
     /\ k \in TargetKeys(files[f].path, RefsOf(f)[i])

LEMMA MentionsAre ==
  ASSUME NEW k, NEW n
  PROVE  n \in Mentions(k) <=> \E f, i : n = <<f, i>> /\ MentionsOf(k, f, i)
<1> DEFINE named == {m \in DOMAIN roots : AbsKey(roots[m]) = k}
           referred(f) == {m \in DOMAIN References(files[f].doc) :
                             k \in TargetKeys(files[f].path, References(files[f].doc)[m])}
<1>1. Mentions(k) = {<<0, i>> : i \in named} \cup
                    UNION {{<<f, i>> : i \in referred(f)} : f \in DOMAIN files}
  BY DEF Mentions
<1>2. \A f, i : MentionsOf(k, f, i) <=> \/ f = 0 /\ i \in named
                                        \/ f \in DOMAIN files /\ i \in referred(f)
  BY DEF MentionsOf, RefsOf
<1> HIDE DEF named, referred
<1> QED  BY <1>1, <1>2

MentionsAsPairs ==
  \A k, n : n \in Mentions(k) <=> \E f, i : n = <<f, i>> /\ MentionsOf(k, f, i)

LEMMA MentionsPairs == MentionsAsPairs
BY MentionsAre DEF MentionsAsPairs

LEMMA FileType ==
  ASSUME TypeOK, NEW f \in DOMAIN files
  PROVE  /\ f \in 1 .. Len(files) /\ Len(files) \in Nat
         /\ files[f].path \in Path /\ files[f].doc \in Doc
         /\ RefsOf(f) \in Seq(Reference) /\ Len(RefsOf(f)) \in Nat
         /\ DOMAIN RefsOf(f) = 1 .. Len(RefsOf(f))
<1>1. f \in 1 .. Len(files) /\ Len(files) \in Nat
  BY LenProperties DEF TypeOK
<1>2. files[f] \in [path : Path, doc : Doc]
  BY <1>1, ElementOfSeq DEF TypeOK
<1>3. RefsOf(f) \in Seq(Reference)
  BY <1>2, ReferencesType DEF RefsOf
<1> QED  BY <1>1, <1>2, <1>3, LenProperties

LEMMA MentionsType ==
  ASSUME TypeOK, NEW k, NEW n \in Mentions(k)
  PROVE  /\ n \in Nat \X Nat /\ Len(files) \in Nat
         /\ n[1] <= Len(files)
         /\ n[1] # 0 => n[1] \in DOMAIN files /\ n[2] \in 1 .. Len(RefsOf(n[1]))
<1>1. PICK f, i : n = <<f, i>> /\ MentionsOf(k, f, i)
  BY MentionsAre
<1>2. /\ DOMAIN roots \subseteq Nat
      /\ Len(files) \in Nat /\ DOMAIN files = 1 .. Len(files)
  BY LenProperties DEF TypeOK
<1>3. CASE f = 0 /\ i \in DOMAIN roots
  BY <1>1, <1>2, <1>3
<1>4. CASE f \in DOMAIN files /\ i \in DOMAIN RefsOf(f)
  <2>1. f \in 1 .. Len(files) /\ i \in 1 .. Len(RefsOf(f)) /\ Len(RefsOf(f)) \in Nat
    BY <1>4, FileType
  <2> QED  BY <1>1, <1>2, <1>4, <2>1
<1> QED  BY <1>1, <1>3, <1>4 DEF MentionsOf

LEMMA OneKeyMentioned ==
  ASSUME TypeOK, NEW k, NEW l, NEW n, n \in Mentions(k), n \in Mentions(l)
  PROVE  k = l
<1>1. PICK f, i : n = <<f, i>> /\ MentionsOf(k, f, i)
  BY MentionsAre
<1>2. PICK g, j : n = <<g, j>> /\ MentionsOf(l, g, j)
  BY MentionsAre
<1>3. f = g /\ i = j
  BY <1>1, <1>2
<1>4. 0 \notin DOMAIN files
  BY LenProperties DEF TypeOK
<1> QED  BY <1>1, <1>2, <1>3, <1>4 DEF MentionsOf, TargetKeys

LEMMA MentionsKept ==
  ASSUME UNCHANGED <<roots, resolver, files>>, NEW k
  PROVE  Mentions(k)' = Mentions(k)
BY DEF Mentions, TargetKeys

LEMMA EarlierTransitive ==
  ASSUME NEW m \in Nat \X Nat, NEW n \in Nat \X Nat, NEW o \in Nat \X Nat,
         Earlier(m, n), Earlier(n, o)
  PROVE  Earlier(m, o)
BY DEF Earlier

-----------------------------------------------------------------------------

(* The references of the last file that are still to be enqueued are its   *)
(* last ones, so the mention <<f, i>> is pending or not by its place.       *)
PendingPlace == Len(RefsOf(Len(files))) - Len(pending)

IsPending(n) == /\ pending # << >>
                /\ n[1] = Len(files)
                /\ PendingPlace < n[2]

PendingIsRest ==
  pending # << >> =>
    /\ PendingPlace \in Nat
    /\ \A i \in 1 .. Len(pending) : pending[i] = RefsOf(Len(files))[PendingPlace + i]

(* A parsed file was mentioned by an earlier file or on the command line.   *)
MentionedBefore ==
  \A i \in DOMAIN files : \E m \in Mentions(AbsKey(files[i].path)) : m[1] < i

(* Every parsed file was mentioned before any file not looked at yet.       *)
ParsedBeforeUnseen ==
  \A i \in DOMAIN files, k \in Key \ seen :
    \A n \in Mentions(k) :
      \E m \in Mentions(AbsKey(files[i].path)) : Earlier(m, n)

(* The queue holds, in the order of the mentions, one mention for each of   *)
(* its names (p of its place), and misses only mentions of files seen and   *)
(* mentions that are pending.                                                *)
MatchesQueue(p) ==
  /\ p \in [1 .. Len(queue) -> Nat \X Nat]
  /\ \A s \in 1 .. Len(queue) : /\ p[s] \in Mentions(AbsKey(queue[s]))
                                /\ ~ IsPending(p[s])
  /\ \A s \in 1 .. Len(queue), t \in 1 .. Len(queue) :
       s < t => Earlier(p[s], p[t])
  /\ \A k \in Key \ seen : \A n \in Mentions(k) :
       IsPending(n) \/ \E s \in 1 .. Len(queue) : n = p[s]

OrderInv ==
  /\ FirstMentionOrder
  /\ pc \in {"catalogs", "failed"} => files = << >>
  /\ pc = "catalogs" => pending = << >> /\ seen = {}
  /\ pc = "files" => /\ PendingIsRest
                     /\ MentionedBefore
                     /\ ParsedBeforeUnseen
                     /\ \E p : MatchesQueue(p)

LEMMA OrderLoadCatalogs ==
  ASSUME TypeOK, TypeOK', OrderInv, LoadCatalogs
  PROVE  OrderInv'
<1>1. /\ pc' = "files" /\ files' = << >> /\ pending' = << >> /\ seen' = {}
      /\ queue' = roots /\ roots' = roots
  BY DEF LoadCatalogs, OrderInv
<1>2. DOMAIN files' = {}
  BY <1>1
<1>3. FirstMentionOrder' /\ MentionedBefore' /\ ParsedBeforeUnseen' /\ PendingIsRest'
  BY <1>1, <1>2 DEF FirstMentionOrder, MentionedBefore, ParsedBeforeUnseen, PendingIsRest
<1>0. PICK p : p = [t \in 1 .. Len(roots) |-> <<0, t>>]
  OBVIOUS
<1>4. DOMAIN roots = 1 .. Len(roots) /\ Len(roots) \in Nat
  BY LenProperties DEF TypeOK
<1>5. \A k, n : n \in Mentions(k)' <=> \E f, i : n = <<f, i>> /\ MentionsOf(k, f, i)'
  <2>1. MentionsAsPairs'
    BY MentionsPairs, PTL
  <2> QED  BY <2>1 DEF MentionsAsPairs
<1>6. \A k, f, i : MentionsOf(k, f, i)' <=> f = 0 /\ i \in 1 .. Len(roots) /\ AbsKey(roots[i]) = k
  BY <1>1, <1>2, <1>4 DEF MentionsOf
<1>7. MatchesQueue(p)'
  <2>1. \A n : ~ IsPending(n)'
    BY <1>1 DEF IsPending
  <2>2. \A s \in 1 .. Len(queue') : p[s] \in Mentions(AbsKey(queue[s]))'
    BY <1>0, <1>1, <1>5, <1>6
  <2>3. \A s \in 1 .. Len(queue'), t \in 1 .. Len(queue') : s < t => Earlier(p[s], p[t])
    BY <1>0, <1>1 DEF Earlier
  <2>4. \A k, n : n \in Mentions(k)' => \E s \in 1 .. Len(queue') : n = p[s]
    BY <1>0, <1>1, <1>5, <1>6
  <2>5. p \in [1 .. Len(queue') -> Nat \X Nat]
    BY <1>0, <1>1, <1>4
  <2> QED  BY <2>1, <2>2, <2>3, <2>4, <2>5 DEF MatchesQueue
<1> QED  BY <1>1, <1>3, <1>7 DEF OrderInv

(* What a mention is, what is pending and what precedes depend on nothing   *)
(* but the files, the roots and the references.                             *)
LEMMA OrderKept ==
  ASSUME OrderInv, UNCHANGED <<roots, resolver, files>>
  PROVE  /\ FirstMentionOrder'
         /\ MentionedBefore => MentionedBefore'
         /\ seen \subseteq seen' /\ ParsedBeforeUnseen => ParsedBeforeUnseen'
<1>1. \A k : Mentions(k)' = Mentions(k)
  BY MentionsKept
<1>2. FirstMentionOrder'
  BY <1>1 DEF OrderInv, FirstMentionOrder
<1>3. MentionedBefore => MentionedBefore'
  BY <1>1 DEF MentionedBefore
<1>4. seen \subseteq seen' /\ ParsedBeforeUnseen => ParsedBeforeUnseen'
  BY <1>1 DEF ParsedBeforeUnseen
<1> QED  BY <1>2, <1>3, <1>4

(* The mention at the head of the queue can go once its key was seen.       *)
LEMMA TakenFromQueue ==
  ASSUME TypeOK, NEW p, MatchesQueue(p), pending = << >>, queue # << >>
  PROVE  /\ p[1] \in Mentions(AbsKey(Head(queue)))
         /\ Len(queue) \in Nat /\ Len(Tail(queue)) = Len(queue) - 1
         /\ \A s \in 1 .. Len(Tail(queue)) : /\ s + 1 \in 1 .. Len(queue)
                                             /\ Tail(queue)[s] = queue[s + 1]
         /\ \A k \in Key \ (seen \cup {AbsKey(Head(queue))}) :
              \A n \in Mentions(k) :
                \E s \in 1 .. Len(Tail(queue)) : n = p[s + 1]
         /\ \A k \in Key \ (seen \cup {AbsKey(Head(queue))}) :
              \A n \in Mentions(k) : Earlier(p[1], n)
<1>1. /\ Head(queue) = queue[1]
      /\ Len(queue) \in Nat \ {0}
      /\ Len(Tail(queue)) = Len(queue) - 1
      /\ \A s \in 1 .. Len(Tail(queue)) : Tail(queue)[s] = queue[s + 1]
  BY HeadTailProperties, EmptySeq, LenProperties DEF TypeOK
<1>2. 1 \in 1 .. Len(queue) /\ p[1] \in Mentions(AbsKey(Head(queue)))
  BY <1>1 DEF MatchesQueue
<1>3. \A s \in 1 .. Len(Tail(queue)) : s + 1 \in 1 .. Len(queue)
  BY <1>1
<1>4. ASSUME NEW k \in Key \ (seen \cup {AbsKey(Head(queue))}), NEW n \in Mentions(k)
      PROVE  \E s \in 1 .. Len(Tail(queue)) : n = p[s + 1]
  <2>1. PICK s \in 1 .. Len(queue) : n = p[s]
    BY DEF MatchesQueue, IsPending
  <2>2. s # 1
    BY <1>2, <1>4, <2>1, OneKeyMentioned
  <2>3. s - 1 \in 1 .. Len(Tail(queue)) /\ (s - 1) + 1 = s
    BY <1>1, <2>2
  <2> QED  BY <2>1, <2>3
<1>5. \A s \in 1 .. Len(Tail(queue)) : Earlier(p[1], p[s + 1])
  <2> TAKE s \in 1 .. Len(Tail(queue))
  <2>1. 1 < s + 1
    BY <1>1
  <2> QED  BY <1>2, <1>3, <2>1 DEF MatchesQueue
<1> QED  BY <1>1, <1>2, <1>3, <1>4, <1>5

LEMMA OrderSkipSeen ==
  ASSUME TypeOK, OrderInv, SkipSeen
  PROVE  OrderInv'
<1>1. /\ pc = "files" /\ pc' = "files" /\ pending = << >> /\ pending' = << >>
      /\ queue # << >> /\ queue' = Tail(queue)
      /\ AbsKey(Head(queue)) \in seen
      /\ UNCHANGED <<roots, resolver, files, seen>>
  BY DEF SkipSeen, TakesFromQueue
<1>2. PICK p : MatchesQueue(p)
  BY <1>1 DEF OrderInv
<1>3. FirstMentionOrder' /\ MentionedBefore' /\ ParsedBeforeUnseen' /\ PendingIsRest'
  BY <1>1, OrderKept DEF OrderInv, PendingIsRest
<1>4. PICK q : q = [s \in 1 .. Len(Tail(queue)) |-> p[s + 1]]
  OBVIOUS
<1>5. MatchesQueue(q)'
  <2>1. \A k : Mentions(k)' = Mentions(k)
    BY <1>1, MentionsKept
  <2>2. /\ Len(queue) \in Nat /\ Len(Tail(queue)) = Len(queue) - 1
        /\ \A s \in 1 .. Len(Tail(queue)) : /\ s + 1 \in 1 .. Len(queue)
                                            /\ Tail(queue)[s] = queue[s + 1]
        /\ \A k \in Key \ seen : \A n \in Mentions(k) :
             \E s \in 1 .. Len(Tail(queue)) : n = p[s + 1]
    BY <1>1, <1>2, TakenFromQueue
  <2>3. /\ q \in [1 .. Len(Tail(queue)) -> Nat \X Nat]
        /\ \A s \in 1 .. Len(Tail(queue)) : q[s] \in Mentions(AbsKey(Tail(queue)[s]))
    BY <1>2, <1>4, <2>2 DEF MatchesQueue
  <2>4. ASSUME NEW s \in 1 .. Len(Tail(queue)), NEW t \in 1 .. Len(Tail(queue)), s < t
        PROVE  Earlier(q[s], q[t])
    <3>1. s + 1 < t + 1
      BY <2>2, <2>4
    <3> QED  BY <1>2, <1>4, <2>2, <3>1 DEF MatchesQueue
  <2>5. \A k \in Key \ seen : \A n \in Mentions(k) :
          \E s \in 1 .. Len(Tail(queue)) : n = q[s]
    BY <1>4, <2>2
  <2>6. \A n : ~ IsPending(n)'
    BY <1>1 DEF IsPending
  <2> QED  BY <1>1, <2>1, <2>3, <2>4, <2>5, <2>6 DEF MatchesQueue
<1> QED  BY <1>1, <1>3, <1>5 DEF OrderInv

LEMMA OrderFailParse ==
  ASSUME OrderInv, FailParse
  PROVE  OrderInv'
<1>1. files' = << >> /\ pc' = "failed"
  BY DEF FailParse
<1> QED  BY <1>1 DEF OrderInv, FirstMentionOrder

(* What is mentioned once a file was parsed: what was before, and what the *)
(* file refers to, which is all pending.                                    *)
LEMMA MentionsAdded ==
  ASSUME TypeOK, TypeOK', ParseFile, NEW k
  PROVE  /\ Mentions(k) \subseteq Mentions(k)'
         /\ \A n \in Mentions(k)' : n \in Mentions(k) \/ (n[1] = Len(files) + 1 /\ IsPending(n)')
<1> DEFINE new == [path |-> Head(queue), doc |-> disk[AbsKey(Head(queue))]]
<1>1. /\ files' = Append(files, new)
      /\ pending' = References(new.doc)
      /\ UNCHANGED <<roots, resolver>>
  BY DEF ParseFile
<1>2. /\ Len(files) \in Nat
      /\ DOMAIN files = 1 .. Len(files)
      /\ DOMAIN files' = 1 .. Len(files) + 1
      /\ \A i \in 1 .. Len(files) : files'[i] = files[i]
      /\ files'[Len(files) + 1] = new
  BY <1>1, FilesAppended
<1>3. MentionsAsPairs /\ MentionsAsPairs'
  BY MentionsPairs, PTL
<1>4. \A f \in 1 .. Len(files) : \A i : MentionsOf(k, f, i)' <=> MentionsOf(k, f, i)
  BY <1>1, <1>2 DEF MentionsOf, RefsOf, TargetKeys
<1>5. \A i : MentionsOf(k, 0, i)' <=> MentionsOf(k, 0, i)
  BY <1>1, <1>2 DEF MentionsOf
<1>6. Mentions(k) \subseteq Mentions(k)'
  <2> SUFFICES ASSUME NEW n \in Mentions(k) PROVE n \in Mentions(k)'
    OBVIOUS
  <2>1. PICK f, i : n = <<f, i>> /\ MentionsOf(k, f, i)
    BY MentionsAre
  <2>2. f = 0 \/ f \in 1 .. Len(files)
    BY <1>2, <2>1 DEF MentionsOf
  <2>3. MentionsOf(k, f, i)'
    BY <1>4, <1>5, <2>1, <2>2
  <2> QED  BY <1>3, <2>1, <2>3 DEF MentionsAsPairs
<1>7. ASSUME NEW n \in Mentions(k)', n \notin Mentions(k)
      PROVE  n[1] = Len(files) + 1 /\ IsPending(n)'
  <2>1. PICK f, i : n = <<f, i>> /\ MentionsOf(k, f, i)'
    BY <1>3, <1>7 DEF MentionsAsPairs
  <2>2. ~ MentionsOf(k, f, i)
    BY <1>3, <1>7, <2>1 DEF MentionsAsPairs
  <2>3. f = Len(files) + 1
    BY <1>2, <1>4, <1>5, <2>1, <2>2 DEF MentionsOf
  <2>4. RefsOf(Len(files))' = pending' /\ i \in DOMAIN pending'
    BY <1>1, <1>2, <2>1, <2>3 DEF MentionsOf, RefsOf
  <2>5. pending' \in Seq(Reference)
    BY DEF TypeOK
  <2>6. i \in 1 .. Len(pending') /\ Len(pending') \in Nat
    BY <2>4, <2>5, LenProperties
  <2>7. pending' # << >>
    BY <2>5, <2>6, EmptySeq
  <2>8. PendingPlace' = 0
    BY <2>4, <2>6 DEF PendingPlace
  <2> QED  BY <1>2, <2>1, <2>3, <2>6, <2>7, <2>8 DEF IsPending
<1> QED  BY <1>6, <1>7

LEMMA OrderParseFile ==
  ASSUME TypeOK, TypeOK', OrderInv, ParseFile
  PROVE  OrderInv'
<1> DEFINE key == AbsKey(Head(queue))
           last == Len(files) + 1
<1>1. /\ pc = "files" /\ pc' = "files" /\ pending = << >>
      /\ queue # << >> /\ queue' = Tail(queue)
      /\ key \notin seen /\ seen' = seen \cup {key}
      /\ UNCHANGED <<roots, resolver>>
      /\ pending' = References(disk[key])
      /\ files' = Append(files, [path |-> Head(queue), doc |-> disk[key]])
  BY DEF ParseFile, TakesFromQueue
<1>2. PICK p : MatchesQueue(p)
  BY <1>1 DEF OrderInv
<1>3. /\ p[1] \in Mentions(key)
      /\ Len(queue) \in Nat /\ Len(Tail(queue)) = Len(queue) - 1
      /\ \A s \in 1 .. Len(Tail(queue)) : /\ s + 1 \in 1 .. Len(queue)
                                          /\ Tail(queue)[s] = queue[s + 1]
      /\ \A k \in Key \ seen' : \A n \in Mentions(k) :
           \E s \in 1 .. Len(Tail(queue)) : n = p[s + 1]
      /\ \A k \in Key \ seen' : \A n \in Mentions(k) : Earlier(p[1], n)
  BY <1>1, <1>2, TakenFromQueue
<1>4. /\ Len(files) \in Nat
      /\ DOMAIN files = 1 .. Len(files)
      /\ DOMAIN files' = 1 .. last
      /\ \A i \in 1 .. Len(files) : files'[i] = files[i]
      /\ files'[last] = [path |-> Head(queue), doc |-> disk[key]]
  BY <1>1, FilesAppended
<1>5. /\ \A k : Mentions(k) \subseteq Mentions(k)'
      /\ \A k : \A n \in Mentions(k)' :
           n \in Mentions(k) \/ (n[1] = last /\ IsPending(n)')
  BY MentionsAdded
<1>6. key \in Key
  <2>1. Head(queue) \in Path
    BY <1>1, HeadTailProperties DEF TypeOK
  <2> QED  BY <2>1, PathAssumption
<1>7. /\ \A i \in 1 .. Len(files) : \E m \in Mentions(AbsKey(files[i].path)) : m[1] < i
      /\ p[1][1] < last
  <2>1. p[1][1] <= Len(files) /\ p[1] \in Nat \X Nat
    BY <1>3, MentionsType
  <2>2. p[1][1] < last
    BY <1>4, <2>1
  <2> QED  BY <1>1, <1>4, <2>2 DEF OrderInv, MentionedBefore
<1>8. MentionedBefore'
  <2> SUFFICES ASSUME NEW i \in 1 .. last
               PROVE  \E m \in Mentions(AbsKey(files[i].path))' : m[1] < i
    BY <1>4 DEF MentionedBefore
  <2>1. CASE i = last
    BY <1>3, <1>4, <1>5, <1>7, <2>1
  <2>2. CASE i \in 1 .. Len(files)
    BY <1>4, <1>5, <1>7, <2>2
  <2> QED  BY <1>4, <2>1, <2>2
<1>9. ASSUME NEW k, NEW n \in Mentions(k)', n \notin Mentions(k), NEW i \in 1 .. Len(files)
      PROVE  \E m \in Mentions(AbsKey(files[i].path)) : Earlier(m, n)
  <2>1. PICK m \in Mentions(AbsKey(files[i].path)) : m[1] < i
    BY <1>7
  <2>2. n[1] = last /\ m \in Nat \X Nat /\ i < last
    BY <1>4, <1>5, <1>9, <2>1, MentionsType
  <2> QED  BY <1>4, <2>1, <2>2 DEF Earlier
<1>10. ParsedBeforeUnseen'
  <2> SUFFICES ASSUME NEW i \in 1 .. last, NEW k \in Key \ seen', NEW n \in Mentions(k)'
               PROVE  \E m \in Mentions(AbsKey(files[i].path))' : Earlier(m, n)
    BY <1>4 DEF ParsedBeforeUnseen
  <2>1. CASE i = last
    <3>1. Earlier(p[1], n)
      BY <1>3, <1>5, <1>7 DEF Earlier
    <3> QED  BY <1>3, <1>4, <1>5, <2>1, <3>1
  <2>2. CASE i \in 1 .. Len(files)
    <3>1. k \in Key \ seen
      BY <1>1
    <3>2. \E m \in Mentions(AbsKey(files[i].path)) : Earlier(m, n)
      BY <1>1, <1>4, <1>9, <2>2, <3>1 DEF OrderInv, ParsedBeforeUnseen
    <3> QED  BY <1>4, <1>5, <2>2, <3>2
  <2> QED  BY <1>4, <2>1, <2>2
<1>11. FirstMentionOrder'
  <2> SUFFICES ASSUME NEW i \in 1 .. last, NEW j \in 1 .. last, i < j,
                      NEW n \in Mentions(AbsKey(files[j].path))'
               PROVE  \E m \in Mentions(AbsKey(files[i].path))' : Earlier(m, n)
    BY <1>4 DEF FirstMentionOrder
  <2>1. i \in 1 .. Len(files)
    BY <1>4
  <2>2. \E m \in Mentions(AbsKey(files[i].path)) : Earlier(m, n)
    <3>1. CASE n \notin Mentions(AbsKey(files'[j].path))
      BY <1>9, <2>1, <3>1
    <3>2. CASE j = last /\ n \in Mentions(AbsKey(files'[j].path))
      BY <1>1, <1>4, <1>6, <2>1, <3>2 DEF OrderInv, ParsedBeforeUnseen
    <3>3. CASE j \in 1 .. Len(files) /\ n \in Mentions(AbsKey(files'[j].path))
      BY <1>4, <2>1, <3>3 DEF OrderInv, FirstMentionOrder
    <3> QED  BY <1>4, <3>1, <3>2, <3>3
  <2> QED  BY <1>4, <1>5, <2>1, <2>2
<1>12. PendingIsRest'
  <2>1. RefsOf(Len(files))' = pending'
    <3>1. Len(files') = last
      BY <1>4, LenProperties DEF TypeOK
    <3> QED  BY <1>1, <1>4, <3>1 DEF RefsOf
  <2>2. Len(pending') \in Nat
    BY LenProperties DEF TypeOK
  <2> QED  BY <2>1, <2>2 DEF PendingIsRest, PendingPlace
<1>13. PICK q : q = [s \in 1 .. Len(Tail(queue)) |-> p[s + 1]]
  OBVIOUS
<1>14. MatchesQueue(q)'
  <2>1. q \in [1 .. Len(Tail(queue)) -> Nat \X Nat]
    BY <1>2, <1>3, <1>13 DEF MatchesQueue
  <2>2. ASSUME NEW s \in 1 .. Len(Tail(queue))
        PROVE  q[s] \in Mentions(AbsKey(queue[s]))' /\ ~ IsPending(q[s])'
    <3>1. q[s] \in Mentions(AbsKey(Tail(queue)[s]))
      BY <1>2, <1>3, <1>13 DEF MatchesQueue
    <3>2. q[s] \in Nat \X Nat /\ q[s][1] <= Len(files)
      BY <3>1, MentionsType
    <3>3. Len(files') = last /\ q[s][1] # last
      BY <1>4, <3>2, LenProperties DEF TypeOK
    <3> QED  BY <1>1, <1>5, <3>1, <3>3 DEF IsPending
  <2>3. ASSUME NEW s \in 1 .. Len(Tail(queue)), NEW t \in 1 .. Len(Tail(queue)), s < t
        PROVE  Earlier(q[s], q[t])
    <3>1. s + 1 < t + 1
      BY <1>3, <2>3
    <3> QED  BY <1>2, <1>3, <1>13, <3>1 DEF MatchesQueue
  <2>4. ASSUME NEW k \in Key \ seen', NEW n \in Mentions(k)'
        PROVE  IsPending(n)' \/ \E s \in 1 .. Len(Tail(queue)) : n = q[s]
    BY <1>3, <1>5, <1>13
  <2>5. queue' = Tail(queue)
    BY <1>1
  <2> QED  BY <2>1, <2>2, <2>3, <2>4, <2>5 DEF MatchesQueue
<1> QED  BY <1>1, <1>8, <1>10, <1>11, <1>12, <1>14 DEF OrderInv

(* The reference enqueued next is the first that is pending. *)
LEMMA NextPending ==
  ASSUME TypeOK, PendingIsRest, pending # << >>
  PROVE  /\ Len(files) \in DOMAIN files
         /\ PendingPlace \in Nat
         /\ Len(pending) \in Nat \ {0}
         /\ Len(Tail(pending)) = Len(pending) - 1
         /\ \A i \in 1 .. Len(Tail(pending)) : Tail(pending)[i] = pending[i + 1]
         /\ Head(pending) = RefsOf(Len(files))[PendingPlace + 1]
         /\ PendingPlace + 1 \in DOMAIN RefsOf(Len(files))
         /\ Len(RefsOf(Len(files))) = PendingPlace + Len(pending)
<1>1. Len(files) \in DOMAIN files
  BY EmptySeq, LenProperties DEF TypeOK
<1>2. /\ Head(pending) = pending[1]
      /\ Len(pending) \in Nat \ {0}
      /\ Len(Tail(pending)) = Len(pending) - 1
      /\ \A i \in 1 .. Len(Tail(pending)) : Tail(pending)[i] = pending[i + 1]
  BY HeadTailProperties, EmptySeq, LenProperties DEF TypeOK
<1>3. /\ Len(RefsOf(Len(files))) \in Nat
      /\ DOMAIN RefsOf(Len(files)) = 1 .. Len(RefsOf(Len(files)))
  BY <1>1, FileType
<1>4. PendingPlace \in Nat /\ Len(RefsOf(Len(files))) = PendingPlace + Len(pending)
  BY <1>2, <1>3 DEF PendingIsRest, PendingPlace
<1>5. PendingPlace + 1 \in 1 .. Len(RefsOf(Len(files)))
  BY <1>2, <1>3, <1>4
<1>6. Head(pending) = RefsOf(Len(files))[PendingPlace + 1]
  <2>1. 1 \in 1 .. Len(pending)
    BY <1>2
  <2> QED  BY <1>2, <2>1 DEF PendingIsRest
<1> QED  BY <1>1, <1>2, <1>3, <1>4, <1>5, <1>6

LEMMA OrderEnqueue ==
  ASSUME TypeOK, TypeOK', OrderInv, Enqueue
  PROVE  OrderInv'
<1> DEFINE last == Len(files)
           ref == Head(pending)
           target == ResolveSchemaLocation(resolver, files[last].path, ref.location)
<1>0. PICK here : here = <<last, PendingPlace + 1>>
  OBVIOUS
<1>1. /\ pc = "files" /\ pc' = "files" /\ pending # << >>
      /\ queue' = IF ref.location = EmptyLocation THEN queue
                  ELSE Append(queue, target)
      /\ pending' = Tail(pending)
      /\ UNCHANGED <<roots, resolver, files, seen>>
  BY DEF Enqueue
<1>2. PICK p : MatchesQueue(p)
  BY <1>1 DEF OrderInv
<1>3. /\ last \in DOMAIN files
      /\ PendingPlace \in Nat
      /\ Len(pending) \in Nat \ {0}
      /\ Len(Tail(pending)) = Len(pending) - 1
      /\ \A i \in 1 .. Len(Tail(pending)) : Tail(pending)[i] = pending[i + 1]
      /\ ref = RefsOf(last)[PendingPlace + 1]
      /\ PendingPlace + 1 \in DOMAIN RefsOf(last)
      /\ Len(RefsOf(last)) = PendingPlace + Len(pending)
  BY <1>1, NextPending DEF OrderInv
<1>4. FirstMentionOrder' /\ MentionedBefore' /\ ParsedBeforeUnseen'
  BY <1>1, OrderKept DEF OrderInv
<1>5. PendingPlace' = PendingPlace + 1 /\ RefsOf(Len(files))' = RefsOf(last)
  BY <1>1, <1>3 DEF PendingPlace, RefsOf
<1>6. PendingIsRest'
  <2>1. ASSUME NEW i \in 1 .. Len(Tail(pending))
        PROVE  Tail(pending)[i] = RefsOf(last)[(PendingPlace + 1) + i]
    <3>1. i + 1 \in 1 .. Len(pending) /\ PendingPlace + (i + 1) = (PendingPlace + 1) + i
      BY <1>3
    <3> QED  BY <1>1, <1>3, <3>1 DEF OrderInv, PendingIsRest
  <2> QED  BY <1>1, <1>3, <1>5, <2>1 DEF PendingIsRest
<1>7. \A k : Mentions(k)' = Mentions(k)
  BY <1>1, MentionsKept
<1>8. last \in Nat /\ last \in 1 .. Len(files)
  BY <1>3, FileType
<1>9. ASSUME NEW k, NEW n \in Mentions(k)
      PROVE  IsPending(n) <=> n = here \/ IsPending(n)'
  <2>1. n \in Nat \X Nat /\ n = <<n[1], n[2]>>
    BY MentionsType
  <2>2. n[1] = last => n[2] <= Len(RefsOf(last))
    <3>1. n[1] # 0 => n[2] \in 1 .. Len(RefsOf(n[1]))
      BY MentionsType
    <3> QED  BY <1>8, <2>1, <3>1
  <2>3. IsPending(n) <=> n[1] = last /\ PendingPlace < n[2]
    BY <1>1 DEF IsPending
  <2>4. IsPending(n)' <=> n[1] = last /\ PendingPlace + 1 < n[2]
    <3>1. IsPending(n)' <=> /\ Tail(pending) # << >>
                            /\ n[1] = last /\ PendingPlace + 1 < n[2]
      BY <1>1, <1>5 DEF IsPending
    <3>2. n[1] = last /\ PendingPlace + 1 < n[2] => Len(Tail(pending)) # 0
      BY <1>3, <2>1, <2>2
    <3>3. Tail(pending) = << >> => Len(Tail(pending)) = 0
      BY <1>1, HeadTailProperties, EmptySeq DEF TypeOK
    <3> QED  BY <3>1, <3>2, <3>3
  <2>5. PendingPlace < n[2] <=> n[2] = PendingPlace + 1 \/ PendingPlace + 1 < n[2]
    BY <1>3, <2>1
  <2>6. n = here <=> n[1] = last /\ n[2] = PendingPlace + 1
    BY <1>0, <2>1
  <2> QED  BY <2>3, <2>4, <2>5, <2>6
<1>10. \A k : here \in Mentions(k) <=> k \in TargetKeys(files[last].path, ref)
  <2>1. \A k : here \in Mentions(k) <=> MentionsOf(k, last, PendingPlace + 1)
    BY <1>0, MentionsAre
  <2> QED  BY <1>3, <1>8, <2>1 DEF MentionsOf
<1>11. CASE ref.location = EmptyLocation
  <2>1. queue' = queue /\ \A k : here \notin Mentions(k)
    BY <1>1, <1>10, <1>11 DEF TargetKeys
  <2>2. MatchesQueue(p)'
    <3>1. \A k : \A n \in Mentions(k) : IsPending(n)' <=> IsPending(n)
      BY <1>9, <2>1
    <3>2. \A s \in 1 .. Len(queue) : ~ IsPending(p[s])'
      BY <1>2, <3>1 DEF MatchesQueue
    <3> QED  BY <1>1, <1>2, <1>7, <2>1, <3>1, <3>2 DEF MatchesQueue
  <2> QED  BY <1>1, <1>4, <1>6, <2>2 DEF OrderInv
<1>12. CASE ref.location # EmptyLocation
  <2>1. /\ queue' = Append(queue, target)
        /\ \A k : here \in Mentions(k) <=> k = AbsKey(target)
    BY <1>1, <1>10, <1>12 DEF TargetKeys
  <2>2. target \in Path
    <3>1. ref \in Reference
      BY <1>1, HeadTailProperties DEF TypeOK
    <3> QED  BY <1>3, <3>1, FileType, ResolveType DEF Reference, TypeOK
  <2>3. /\ Len(queue) \in Nat
        /\ Len(queue') = Len(queue) + 1
        /\ \A s \in 1 .. Len(queue) : queue'[s] = queue[s]
        /\ queue'[Len(queue) + 1] = target
    BY <2>1, <2>2, AppendProperties, LenProperties DEF TypeOK
  <2>4. PICK q : q = [s \in 1 .. Len(queue) + 1 |-> IF s \in 1 .. Len(queue) THEN p[s] ELSE here]
    OBVIOUS
  <2>5. /\ \A s \in 1 .. Len(queue) : s \in 1 .. Len(queue) + 1 /\ q[s] = p[s]
        /\ Len(queue) + 1 \in 1 .. Len(queue) + 1
        /\ q[Len(queue) + 1] = here
        /\ \A s \in 1 .. Len(queue) + 1 : s \in 1 .. Len(queue) \/ s = Len(queue) + 1
    BY <2>3, <2>4
  <2>6. here \in Nat \X Nat /\ q \in [1 .. Len(queue) + 1 -> Nat \X Nat]
    BY <1>0, <1>2, <1>3, <1>8, <2>3, <2>4 DEF MatchesQueue
  <2>7. ASSUME NEW s \in 1 .. Len(queue) + 1
        PROVE  q[s] \in Mentions(AbsKey(queue'[s])) /\ ~ IsPending(q[s])'
    <3>1. CASE s \in 1 .. Len(queue)
      BY <1>2, <1>9, <2>3, <2>5, <3>1 DEF MatchesQueue
    <3>2. CASE s = Len(queue) + 1
      <4>1. ~ IsPending(here)'
        BY <1>0, <1>3, <1>5 DEF IsPending
      <4> QED  BY <2>1, <2>3, <2>5, <3>2, <4>1
    <3> QED  BY <2>5, <3>1, <3>2
  <2>8. ASSUME NEW s \in 1 .. Len(queue)
        PROVE  Earlier(p[s], here)
    <3>1. p[s] \in Nat \X Nat /\ p[s][1] <= last
      BY <1>2, MentionsType DEF MatchesQueue
    <3>2. ~ (p[s][1] = last /\ PendingPlace < p[s][2])
      BY <1>1, <1>2 DEF MatchesQueue, IsPending
    <3> QED  BY <1>0, <1>3, <1>8, <3>1, <3>2 DEF Earlier
  <2>9. ASSUME NEW s \in 1 .. Len(queue) + 1, NEW t \in 1 .. Len(queue) + 1, s < t
        PROVE  Earlier(q[s], q[t])
    <3>1. s \in 1 .. Len(queue)
      BY <2>3, <2>9
    <3>2. CASE t \in 1 .. Len(queue)
      BY <1>2, <2>5, <2>9, <3>1, <3>2 DEF MatchesQueue
    <3>3. CASE t = Len(queue) + 1
      BY <2>5, <2>8, <3>1, <3>3
    <3> QED  BY <2>5, <3>2, <3>3
  <2>10. ASSUME NEW k \in Key \ seen, NEW n \in Mentions(k)
         PROVE  IsPending(n)' \/ \E s \in 1 .. Len(queue) + 1 : n = q[s]
    BY <1>2, <1>9, <2>5 DEF MatchesQueue
  <2>11. MatchesQueue(q)'
    BY <1>1, <1>7, <2>3, <2>6, <2>7, <2>9, <2>10 DEF MatchesQueue
  <2> QED  BY <1>1, <1>4, <1>6, <2>11 DEF OrderInv
<1> QED  BY <1>11, <1>12

(* Steps that leave the files, the queue and what is seen alone.            *)
LEMMA OrderUnchanged ==
  ASSUME OrderInv, pc = "files",
         UNCHANGED <<roots, resolver, queue, seen, files, pending>>
  PROVE  /\ PendingIsRest' /\ MentionedBefore' /\ ParsedBeforeUnseen'
         /\ \E p : MatchesQueue(p)'
<1>1. \A k : Mentions(k)' = Mentions(k)
  BY MentionsKept
<1>2. PICK p : MatchesQueue(p)
  BY DEF OrderInv
<1>3. \A n : IsPending(n)' <=> IsPending(n)
  BY DEF IsPending, PendingPlace, RefsOf
<1>4. MatchesQueue(p)'
  BY <1>1, <1>2, <1>3 DEF MatchesQueue
<1>5. PendingIsRest'
  BY DEF OrderInv, PendingIsRest, PendingPlace, RefsOf
<1> QED  BY <1>4, <1>5, OrderKept DEF OrderInv

(* The files are listed in the order in which they are first mentioned.    *)
THEOREM FilesInOrder == Spec => []FirstMentionOrder
<1>1. Init => OrderInv
  BY DEF Init, OrderInv, FirstMentionOrder
<1>2. TypeOK /\ TypeOK' /\ OrderInv /\ [Next]_vars => OrderInv'
  <2> SUFFICES ASSUME TypeOK, TypeOK', OrderInv, [Next]_vars PROVE OrderInv'
    OBVIOUS
  <2>1. CASE LoadCatalogs
    BY <2>1, OrderLoadCatalogs
  <2>2. CASE FailCatalogs
    BY <2>2, OrderKept DEF FailCatalogs, OrderInv
  <2>3. CASE SkipSeen
    BY <2>3, OrderSkipSeen
  <2>4. CASE ParseFile
    BY <2>4, OrderParseFile
  <2>5. CASE FailParse
    BY <2>5, OrderFailParse
  <2>6. CASE Enqueue
    BY <2>6, OrderEnqueue
  <2>7. CASE Drained
    BY <2>7, OrderKept DEF Drained, OrderInv
  <2>8. CASE UNCHANGED vars
    <3>1. pc = "files" => OrderInv'
      BY <2>8, OrderUnchanged, OrderKept DEF vars, OrderInv
    <3>2. pc # "files" => OrderInv'
      BY <2>8, OrderKept DEF vars, OrderInv
    <3> QED  BY <3>1, <3>2
  <2> QED
    BY <2>1, <2>2, <2>3, <2>4, <2>5, <2>6, <2>7, <2>8 DEF Next
<1>3. OrderInv => FirstMentionOrder
  BY DEF OrderInv
<1> QED  BY <1>1, <1>2, <1>3, TypeCorrect, PTL DEF Spec
-----------------------------------------------------------------------------
(* The loader implements Reachability. *)

AbstractGraph == [k \in Key |-> ReferredKeys(k)]

GraphTyped == AbstractGraph \in [Key -> SUBSET Key]

LEMMA GraphType == TypeOK => GraphTyped
BY ReferredKeysType DEF GraphTyped, AbstractGraph

LEMMA FrontierIsUnseenMentioned ==
  ASSUME FileKeys \subseteq Key
  PROVE  Closure!Frontier = Mentioned \ FileKeys
<1>1. {AbstractGraph[n] : n \in FileKeys} = {ReferredKeys(k) : k \in FileKeys}
  BY DEF AbstractGraph
<1> QED  BY <1>1 DEF Closure!Frontier, Mentioned, RootKeys, AbstractGraph

(* The abstract variables other than `found' and `status' move only when   *)
(* the catalogs are read.                                                   *)
LEMMA AbstractInputsFixed ==
  ASSUME UNCHANGED <<disk, roots, resolver>>
  PROVE  UNCHANGED <<RootKeys, AbstractGraph, UnreadableKeys>>
BY ReachableIsFixed DEF AbstractGraph

LEMMA InitImplements ==
  Init => Closure!Init
<1> SUFFICES ASSUME Init PROVE Closure!Init
  OBVIOUS
<1>1. TypeOK
  BY InputAssumption, EmptySeq DEF Init, TypeOK
<1>2. RootKeys \subseteq Key
  BY <1>1, ReachableIsClosed DEF ReachableClosed, Closure!Reachable
<1> QED
  BY <1>1, <1>2, GraphType
  DEF Init, Closure!Init, GraphTyped, AbstractGraph, RootKeys, FileKeys, UnreadableKeys

LEMMA StepImplements ==
  TypeOK /\ TypeOK' /\ LoaderInv /\ LoaderInv' /\ [Next]_vars
    => [Closure!Next]_(Closure!vars)
<1> SUFFICES ASSUME TypeOK, TypeOK', LoaderInv, LoaderInv', [Next]_vars
             PROVE  Closure!Next \/ UNCHANGED Closure!vars
  OBVIOUS
<1>0. /\ pc = "files" => Draining
      /\ pc' = "files" => Draining'
  BY DEF LoaderInv
<1>1. CASE LoadCatalogs
  <2>1. Closure!Begin
    <3>1. AbstractGraph' \in [Key -> SUBSET Key]
      <4>1. GraphTyped'
        BY GraphType, PTL
      <4> QED  BY <4>1 DEF GraphTyped
    <3>2. UNCHANGED <<RootKeys, UnreadableKeys, FileKeys>>
      BY <1>1 DEF LoadCatalogs, RootKeys, UnreadableKeys, FileKeys
    <3> QED
      BY <1>1, <3>1, <3>2
      DEF LoadCatalogs, Closure!Begin, AbstractGraph, RootKeys
  <2> QED  BY <2>1 DEF Closure!Next
<1>2. CASE FailCatalogs
  <2>1. UNCHANGED <<RootKeys, AbstractGraph, UnreadableKeys, FileKeys>>
    BY <1>2, AbstractInputsFixed DEF FailCatalogs, FileKeys
  <2>2. Closure!Refuse
    BY <1>2, <2>1 DEF FailCatalogs, Closure!Refuse, AbstractGraph, RootKeys
  <2> QED  BY <2>2 DEF Closure!Next
<1>3. CASE SkipSeen
  <2>1. UNCHANGED <<RootKeys, AbstractGraph, UnreadableKeys, FileKeys, pc>>
    BY <1>3, AbstractInputsFixed DEF SkipSeen, FileKeys
  <2> QED  BY <2>1 DEF Closure!vars, AbstractGraph, RootKeys
<1>4. CASE ParseFile
  <2>0. PICK key : key = AbsKey(Head(queue))
    OBVIOUS
  <2>1. /\ pc = "files" /\ pc' = "files" /\ queue # << >>
        /\ key \notin seen /\ disk[key] # Unreadable
        /\ seen' = seen \cup {key}
        /\ UNCHANGED <<disk, roots, resolver>>
    BY <1>4, <2>0 DEF ParseFile, TakesFromQueue
  <2>2. UNCHANGED <<RootKeys, AbstractGraph, UnreadableKeys>>
    BY <2>1, AbstractInputsFixed
  <2>3. key \in KeysOf(queue) /\ key \in Key
    BY <2>0, <2>1, KeysOfQueue
  <2>4. key \in Closure!Frontier \ UnreadableKeys
    BY <1>0, <2>1, <2>3, FrontierIsUnseenMentioned
    DEF Draining, Noticed, UnreadableKeys, TypeOK
  <2>5. FileKeys' = FileKeys \cup {key}
    BY <1>0, <2>1 DEF Draining
  <2>6. Closure!Visit(key)
    BY <2>1, <2>2, <2>4, <2>5 DEF Closure!Visit, AbstractGraph, RootKeys
  <2> QED  BY <2>3, <2>6 DEF Closure!Next
<1>5. CASE FailParse
  <2> DEFINE key == AbsKey(Head(queue))
  <2>1. /\ pc = "files" /\ pc' = "failed" /\ queue # << >>
        /\ key \notin seen /\ disk[key] = Unreadable /\ files' = << >>
        /\ UNCHANGED <<disk, roots, resolver>>
    BY <1>5 DEF FailParse, TakesFromQueue
  <2>2. UNCHANGED <<RootKeys, AbstractGraph, UnreadableKeys>>
    BY <2>1, AbstractInputsFixed
  <2>3. key \in KeysOf(queue) /\ key \in Key
    BY <2>1, KeysOfQueue
  <2>4. key \in Closure!Frontier \cap UnreadableKeys
    BY <1>0, <2>1, <2>3, FrontierIsUnseenMentioned
    DEF Draining, Noticed, UnreadableKeys, TypeOK
  <2>5. FileKeys' = {}
    BY <2>1 DEF FileKeys
  <2>6. Closure!Abort
    BY <2>1, <2>2, <2>4, <2>5 DEF Closure!Abort, AbstractGraph, RootKeys
  <2> QED  BY <2>6 DEF Closure!Next
<1>6. CASE Enqueue
  <2>1. UNCHANGED <<RootKeys, AbstractGraph, UnreadableKeys, FileKeys, pc>>
    BY <1>6, AbstractInputsFixed DEF Enqueue, FileKeys
  <2> QED  BY <2>1 DEF Closure!vars, AbstractGraph, RootKeys
<1>7. CASE Drained
  <2>1. UNCHANGED <<RootKeys, AbstractGraph, UnreadableKeys, FileKeys>>
    BY <1>7, AbstractInputsFixed DEF Drained, FileKeys
  <2>2. Draining /\ queue = << >> /\ pending = << >>
    BY <1>0, <1>7 DEF Drained
  <2>3. Noticed = FileKeys
    BY <2>2, NoPending, RangeOfEmpty DEF Noticed, KeysOf, Draining
  <2>4. Mentioned \subseteq FileKeys /\ FileKeys \subseteq Key
    BY <2>2, <2>3, RangeOfEmpty DEF Draining, Mentioned, KeysOf, TypeOK
  <2>5. Closure!Frontier = {}
    BY <2>4, FrontierIsUnseenMentioned
  <2>6. Closure!Complete
    BY <1>7, <2>1, <2>5 DEF Drained, Closure!Complete, AbstractGraph, RootKeys
  <2> QED  BY <2>6 DEF Closure!Next
<1>8. CASE UNCHANGED vars
  <2>1. UNCHANGED <<RootKeys, AbstractGraph, UnreadableKeys, FileKeys, pc>>
    BY <1>8, AbstractInputsFixed DEF vars, FileKeys
  <2> QED  BY <2>1 DEF Closure!vars, AbstractGraph, RootKeys
<1> QED
  BY <1>1, <1>2, <1>3, <1>4, <1>5, <1>6, <1>7, <1>8 DEF Next

(* Every behaviour of the loop is, seen through the keys of its files, a   *)
(* search for the reachable nodes.                                          *)
THEOREM LoaderImplementsReachability == Spec => ImplementsReachability
BY InitImplements, StepImplements, TypeCorrect, LoaderInvHolds, PTL
DEF Spec, ImplementsReachability, Closure!Search
-----------------------------------------------------------------------------
(* What a document declares. *)
LEMMA ReferenceParts ==
  ASSUME NEW ref \in Reference
  PROVE  ref.location \in Location /\ ref.body \in Seq(Declaration)
BY BodyAssumption DEF Reference

LEMMA BodiesAre ==
  ASSUME NEW refs \in Seq(Reference)
  PROVE  /\ Bodies(refs) \in Seq(Declaration)
         /\ Range(Bodies(refs)) = UNION {Range(ref.body) : ref \in Range(refs)}
<1> PICK bodies : bodies = [i \in DOMAIN refs |-> refs[i].body]
  OBVIOUS
<1>1. Len(refs) \in Nat /\ DOMAIN refs = 1 .. Len(refs) /\ \A i \in DOMAIN refs : refs[i] \in Reference
  BY LenProperties, ElementOfSeq
<1>2. bodies \in Seq(Seq(Declaration)) /\ DOMAIN bodies = DOMAIN refs
  <2>1. \A i \in 1 .. Len(refs) : bodies[i] \in Seq(Declaration)
    BY <1>1, ReferenceParts
  <2> PICK D : D = Seq(Declaration)
    OBVIOUS
  <2>2. bodies \in [1 .. Len(refs) -> D]
    BY <1>1, <2>1
  <2> QED  BY <1>1, <2>2
<1>3. Bodies(refs) = FlattenSeq(bodies)
  BY DEF Bodies
<1>4. Range(Bodies(refs)) = UNION {Range(bodies[i]) : i \in DOMAIN bodies}
  <2>1. Range(FlattenSeq(bodies)) = UNION {Range(bodies[i]) : i \in DOMAIN bodies}
    BY ONLY <1>2, RangeOfFlat
  <2> QED  BY <1>3, <2>1
<1>5. {Range(bodies[i]) : i \in DOMAIN bodies} = {Range(ref.body) : ref \in Range(refs)}
  <2>1. DOMAIN bodies = DOMAIN refs /\ \A i \in DOMAIN refs : bodies[i] = refs[i].body
    BY <1>2
  <2>2. PICK all : all = Range(refs)
    OBVIOUS
  <2>3. all = {refs[i] : i \in DOMAIN refs}
    BY <2>2 DEF Range
  <2> QED  BY <2>1, <2>2, <2>3
<1>6. FlattenSeq(bodies) \in Seq(Declaration)
  BY <1>2, FlatType
<1> QED  BY <1>3, <1>4, <1>5, <1>6

LEMMA DeclarationsAre ==
  ASSUME NEW doc \in Doc
  PROVE  /\ DeclarationsOf(doc) \in Seq(Declaration)
         /\ doc.overrides \in Seq(Reference) /\ doc.redefines \in Seq(Reference)
         /\ \A ref \in Range(doc.overrides) \cup Range(doc.redefines) :
              ref \in Reference /\ Range(ref.body) \subseteq Range(DeclarationsOf(doc))
<1> PICK a, b, c : a = Bodies(doc.overrides) /\ b = Bodies(doc.redefines) /\ c = doc.body
  OBVIOUS
<1>1. /\ doc.overrides \in Seq(Reference) /\ doc.redefines \in Seq(Reference)
      /\ c \in Seq(Declaration)
  BY BodyAssumption DEF Doc
<1>2. /\ a \in Seq(Declaration) /\ Range(a) = UNION {Range(ref.body) : ref \in Range(doc.overrides)}
      /\ b \in Seq(Declaration) /\ Range(b) = UNION {Range(ref.body) : ref \in Range(doc.redefines)}
  BY <1>1, BodiesAre
<1>3. a \o b \in Seq(Declaration) /\ Range(a \o b) = Range(a) \cup Range(b)
  BY <1>2, ConcatProperties, RangeOfConcat
<1>4. PICK ab : ab = a \o b
  OBVIOUS
<1>5. ab \o c \in Seq(Declaration) /\ Range(ab \o c) = Range(ab) \cup Range(c)
  <2>1. ab \in Seq(Declaration)
    BY <1>3, <1>4
  <2> QED  BY ONLY <1>1, <2>1, ConcatProperties, RangeOfConcat
<1>6. DeclarationsOf(doc) = ab \o c
  BY <1>4 DEF DeclarationsOf
<1>7. ASSUME NEW ref \in Range(doc.overrides) \cup Range(doc.redefines)
      PROVE  ref \in Reference /\ Range(ref.body) \subseteq Range(DeclarationsOf(doc))
  <2>1. ref \in Reference
    BY <1>1, LenProperties, ElementOfSeq DEF Range
  <2>2. Range(ref.body) \subseteq Range(a) \cup Range(b)
    BY <1>2, <1>7
  <2> QED  BY <1>3, <1>4, <1>5, <1>6, <2>1, <2>2
<1> QED  BY <1>1, <1>5, <1>6, <1>7

(* The edits that a patch asks for. *)
EditSet == [op : {"remove", "redefine"}, file : Nat, location : Location,
            kind : Kind, name : Name]

EditsFor(op, file, ref, kinds) ==
  {Edit(op, file, ref, c) : c \in {x \in Range(ref.body) : x.kind \in kinds}}

LEMMA OfKindAre ==
  ASSUME NEW body \in Seq(Declaration), NEW kind
  PROVE  /\ OfKind(body, kind) \in Seq(Declaration)
         /\ Range(OfKind(body, kind)) = {c \in Range(body) : c.kind = kind}
<1> DEFINE places == {i \in DOMAIN body : body[i].kind = kind}
<1>1. OfKind(body, kind) = AtPlaces(body, places)
  BY DEF OfKind
<1>2. {body[i] : i \in DOMAIN body \cap places} = {c \in Range(body) : c.kind = kind}
  BY DEF Range
<1> HIDE DEF places
<1> QED  BY <1>1, <1>2, SelectionType, RangeOfSelection

LEMMA EditsAreFor ==
  ASSUME NEW op \in {"remove", "redefine"}, NEW file \in Nat, NEW ref \in Reference,
         NEW kinds \in Seq(Kind)
  PROVE  /\ EditsOfKinds(op, file, ref, kinds) \in Seq(EditSet)
         /\ Range(EditsOfKinds(op, file, ref, kinds)) = EditsFor(op, file, ref, Range(kinds))
<1> PICK body, parts : body = ref.body /\ parts = [k \in DOMAIN kinds |-> OfKind(body, kinds[k])]
  OBVIOUS
<1>1. Len(kinds) \in Nat /\ DOMAIN kinds = 1 .. Len(kinds) /\ body \in Seq(Declaration)
  BY LenProperties, ReferenceParts
<1>2. parts \in Seq(Seq(Declaration)) /\ DOMAIN parts = DOMAIN kinds
  <2>1. \A i \in 1 .. Len(kinds) : parts[i] \in Seq(Declaration)
    BY <1>1, OfKindAre
  <2> PICK D : D = Seq(Declaration)
    OBVIOUS
  <2>2. parts \in [1 .. Len(kinds) -> D]
    BY <1>1, <2>1
  <2> QED  BY <1>1, <2>2
<1>3. PICK children : children = FlattenSeq(parts)
  OBVIOUS
<1>4. children \in Seq(Declaration)
  BY <1>2, <1>3, FlatType
<1>5. Range(children) = UNION {Range(parts[i]) : i \in DOMAIN parts}
  BY <1>2, <1>3, RangeOfFlat
<1>6. \A i \in DOMAIN parts : Range(parts[i]) = {c \in Range(body) : c.kind = kinds[i]}
  BY <1>1, <1>2, OfKindAre
<1>7. Range(children) = {x \in Range(body) : x.kind \in Range(kinds)}
  <2>1. \A c : c \in Range(children) <=> \E i \in DOMAIN kinds : c \in Range(body) /\ c.kind = kinds[i]
    BY <1>2, <1>5, <1>6
  <2> QED  BY <2>1 DEF Range
<1>8. PICK edits : edits = EditsOfKinds(op, file, ref, kinds)
  OBVIOUS
<1>9. edits = [i \in DOMAIN children |-> Edit(op, file, ref, children[i])]
  BY <1>3, <1>8 DEF EditsOfKinds
<1>10. Len(children) \in Nat /\ DOMAIN children = 1 .. Len(children)
       /\ \A i \in DOMAIN children : children[i] \in Declaration
  BY <1>4, LenProperties, ElementOfSeq
<1>11. edits \in Seq(EditSet)
  <2>1. \A i \in 1 .. Len(children) : edits[i] \in EditSet
    BY <1>9, <1>10, ReferenceParts DEF Edit, EditSet, Declaration
  <2>2. edits \in [1 .. Len(children) -> EditSet]
    BY <1>9, <1>10, <2>1
  <2> QED  BY <1>10, <2>2
<1>12. Range(edits) = {Edit(op, file, ref, c) : c \in Range(children)}
  BY <1>9 DEF Range
<1> QED  BY <1>7, <1>8, <1>11, <1>12 DEF EditsFor

(* The edits of all files, and which patches they are for. *)
Declared(f) == DeclarationsOf(files[f].doc)

Overridings ==
  UNION {UNION {EditsFor("remove", g, ref, Kind) : ref \in Range(files[g].doc.overrides)} :
           g \in DOMAIN files}

Replacements ==
  UNION {UNION {EditsFor("remove", g, ref, Kind \ RedefinableKinds) :
                  ref \in Range(files[g].doc.redefines)} : g \in DOMAIN files}

Redefinitions ==
  UNION {UNION {EditsFor("redefine", g, ref, RedefinableKinds) :
                  ref \in Range(files[g].doc.redefines)} : g \in DOMAIN files}

AllEdits == FlattenSeq([i \in DOMAIN files |-> EditsOf(i, files[i].doc)])

(* Every redefinition of a file is asked for, and every removal is either, or *)
(* comes after a redefinition of the same declaration.                        *)
SamePatch(r, e) == /\ r.file = e.file /\ r.location = e.location
                   /\ r.kind = e.kind /\ r.name = e.name

AsksFor(s, p) ==
  /\ s[p].op = "redefine" => s[p] \in Redefinitions
  /\ s[p].op = "remove" =>
       \/ s[p] \in Overridings \cup Replacements
       \/ \E q \in 1 .. p - 1 : s[q].op = "redefine" /\ SamePatch(s[q], s[p])

EditLists == {s \in Seq(EditSet) : \A p \in DOMAIN s : AsksFor(s, p)}

LEMMA EditListsJoin ==
  ASSUME NEW s \in EditLists, NEW t \in EditLists
  PROVE  s \o t \in EditLists
<1> PICK u : u = s \o t
  OBVIOUS
<1>1. /\ u \in Seq(EditSet) /\ Len(s) \in Nat /\ Len(t) \in Nat
      /\ DOMAIN s = 1 .. Len(s) /\ DOMAIN t = 1 .. Len(t) /\ DOMAIN u = 1 .. Len(s) + Len(t)
      /\ \A i \in 1 .. Len(s) + Len(t) : u[i] = IF i <= Len(s) THEN s[i] ELSE t[i - Len(s)]
  BY ConcatProperties, LenProperties DEF EditLists
<1>2. /\ \A i \in 1 .. Len(s) : i \in DOMAIN u /\ u[i] = s[i]
      /\ \A i \in 1 .. Len(t) : Len(s) + i \in DOMAIN u /\ u[Len(s) + i] = t[i]
  BY <1>1
<1>3. ASSUME NEW p \in 1 .. Len(s) PROVE AsksFor(u, p)
  <2>1. AsksFor(s, p)
    BY <1>1 DEF EditLists
  <2>2. \A q \in 1 .. p - 1 : q \in 1 .. Len(s)
    BY <1>1
  <2> QED  BY <1>2, <2>1, <2>2 DEF AsksFor
<1>4. ASSUME NEW k \in 1 .. Len(t) PROVE AsksFor(u, Len(s) + k)
  <2>1. AsksFor(t, k)
    BY <1>1 DEF EditLists
  <2>2. \A q \in 1 .. k - 1 : q \in 1 .. Len(t) /\ Len(s) + q \in 1 .. (Len(s) + k) - 1
    BY <1>1
  <2> QED  BY <1>2, <2>1, <2>2 DEF AsksFor
<1>5. ASSUME NEW p \in DOMAIN u PROVE AsksFor(u, p)
  <2>1. CASE p <= Len(s)
    <3>1. p \in 1 .. Len(s)
      BY <1>1, <2>1
    <3> QED  BY <1>3, <3>1
  <2>2. CASE ~ (p <= Len(s))
    <3>1. p - Len(s) \in 1 .. Len(t) /\ p = Len(s) + (p - Len(s))
      BY <1>1, <2>2
    <3>2. PICK k \in 1 .. Len(t) : p = Len(s) + k
      BY <3>1
    <3> QED  BY <1>4, <3>2
  <2> QED  BY <2>1, <2>2
<1> QED  BY <1>1, <1>5 DEF EditLists

LEMMA NoEdits == << >> \in EditLists
<1>1. << >> \in Seq(EditSet)
  BY EmptySeq
<1>2. DOMAIN << >> = {}
  OBVIOUS
<1> QED  BY <1>1, <1>2 DEF EditLists

LEMMA FlatEditLists ==
  ASSUME NEW ss \in Seq(EditLists)
  PROVE  /\ FlattenSeq(ss) \in EditLists
         /\ Range(FlattenSeq(ss)) = UNION {Range(ss[i]) : i \in DOMAIN ss}
<1> PICK T : T = EditLists
  OBVIOUS
<1>1. T \in SUBSET Seq(EditSet) /\ << >> \in T /\ \A s, t \in T : s \o t \in T /\ ss \in Seq(T)
  BY EditListsJoin, NoEdits DEF EditLists
<1>2. FlattenSeq(ss) \in T
  BY ONLY <1>1, FlatWithin
<1>3. ss \in Seq(Seq(EditSet))
  <2>1. ss \in [1 .. Len(ss) -> T] /\ Len(ss) \in Nat
    BY <1>1, LenProperties
  <2> PICK E : E = Seq(EditSet)
    OBVIOUS
  <2>2. ss \in [1 .. Len(ss) -> E]
    BY <1>1, <2>1
  <2> QED  BY <2>1, <2>2
<1>4. Range(FlattenSeq(ss)) = UNION {Range(ss[i]) : i \in DOMAIN ss}
  BY ONLY <1>3, RangeOfFlat
<1> QED  BY <1>2, <1>4

LEMMA OverrideEditsAre ==
  ASSUME NEW f \in DOMAIN files, f \in Nat, NEW ref \in Reference,
         ref \in Range(files[f].doc.overrides)
  PROVE  /\ OverrideEdits(f, ref) \in EditLists
         /\ Range(OverrideEdits(f, ref)) = EditsFor("remove", f, ref, Kind)
<1> DEFINE kinds == <<"element", "attribute", "attributeGroup", "group", "complexType", "simpleType">>
<1>1. kinds \in Seq(Kind) /\ Range(kinds) = Kind
  BY DEF Kind, Range
<1> HIDE DEF kinds
<1>2. PICK edits : edits = OverrideEdits(f, ref)
  OBVIOUS
<1>3. edits \in Seq(EditSet) /\ Range(edits) = EditsFor("remove", f, ref, Kind)
  BY <1>1, <1>2, EditsAreFor DEF OverrideEdits, kinds
<1>4. ASSUME NEW p \in DOMAIN edits PROVE AsksFor(edits, p)
  <2>1. edits[p] \in EditsFor("remove", f, ref, Kind)
    BY <1>3 DEF Range
  <2>2. edits[p] \in Overridings
    BY <2>1 DEF Overridings
  <2>3. edits[p].op = "remove"
    BY <2>1 DEF EditsFor, Edit
  <2> QED  BY <2>2, <2>3 DEF AsksFor
<1> QED  BY <1>2, <1>3, <1>4 DEF EditLists

LEMMA RedefineEditsAre ==
  ASSUME NEW f \in DOMAIN files, f \in Nat, NEW ref \in Reference,
         ref \in Range(files[f].doc.redefines)
  PROVE  /\ RedefineEdits(f, ref) \in EditLists
         /\ EditsFor("redefine", f, ref, RedefinableKinds) \subseteq Range(RedefineEdits(f, ref))
         /\ EditsFor("remove", f, ref, Kind \ RedefinableKinds) \subseteq Range(RedefineEdits(f, ref))
<1> DEFINE renamed == <<"simpleType", "complexType", "attributeGroup", "group">>
           removed == <<"element", "attribute", "attributeGroup">>
<1>1. /\ renamed \in Seq(Kind) /\ Range(renamed) = RedefinableKinds
      /\ removed \in Seq(Kind) /\ Range(removed) = {"element", "attribute", "attributeGroup"}
  BY DEF Kind, RedefinableKinds, Range
<1> HIDE DEF renamed, removed
<1>2. PICK s, t : /\ s = EditsOfKinds("redefine", f, ref, renamed)
                  /\ t = EditsOfKinds("remove", f, ref, removed)
  OBVIOUS
<1>3. /\ s \in Seq(EditSet) /\ Range(s) = EditsFor("redefine", f, ref, RedefinableKinds)
      /\ t \in Seq(EditSet)
      /\ Range(t) = EditsFor("remove", f, ref, {"element", "attribute", "attributeGroup"})
  <2>1. s \in Seq(EditSet) /\ Range(s) = EditsFor("redefine", f, ref, Range(renamed))
    BY <1>1, <1>2, EditsAreFor
  <2>2. t \in Seq(EditSet) /\ Range(t) = EditsFor("remove", f, ref, Range(removed))
    BY <1>1, <1>2, EditsAreFor
  <2> QED  BY <1>1, <2>1, <2>2
<1>4. PICK u : u = s \o t
  OBVIOUS
<1>5. /\ u \in Seq(EditSet) /\ Len(s) \in Nat /\ Len(t) \in Nat
      /\ DOMAIN s = 1 .. Len(s) /\ DOMAIN t = 1 .. Len(t) /\ DOMAIN u = 1 .. Len(s) + Len(t)
      /\ \A i \in 1 .. Len(s) + Len(t) : u[i] = IF i <= Len(s) THEN s[i] ELSE t[i - Len(s)]
      /\ Range(u) = Range(s) \cup Range(t)
  BY <1>3, <1>4, ConcatProperties, LenProperties, RangeOfConcat
<1>6. ASSUME NEW p \in 1 .. Len(s) PROVE AsksFor(u, p)
  <2>1. u[p] = s[p] /\ s[p] \in EditsFor("redefine", f, ref, RedefinableKinds)
    <3>1. s[p] \in Range(s)
      BY <1>5 DEF Range
    <3>2. p \in 1 .. Len(s) + Len(t) /\ p <= Len(s)
      BY <1>5
    <3> QED  BY <1>3, <1>5, <3>1, <3>2
  <2>2. s[p] \in Redefinitions
    BY <2>1 DEF Redefinitions
  <2>3. s[p].op = "redefine"
    BY <2>1 DEF EditsFor, Edit
  <2> QED  BY <2>1, <2>2, <2>3 DEF AsksFor
<1>7. ASSUME NEW p \in DOMAIN u, ~ (p <= Len(s)) PROVE AsksFor(u, p)
  <2>1. p - Len(s) \in 1 .. Len(t) /\ u[p] = t[p - Len(s)]
    BY <1>5, <1>7
  <2>2. u[p] \in EditsFor("remove", f, ref, {"element", "attribute", "attributeGroup"})
    BY <1>3, <1>5, <2>1 DEF Range
  <2>3. PICK c \in Range(ref.body) :
          c.kind \in {"element", "attribute", "attributeGroup"} /\ u[p] = Edit("remove", f, ref, c)
    BY <2>2 DEF EditsFor
  <2>4. u[p].op = "remove"
    BY <2>3 DEF Edit
  <2>5. CASE c.kind \notin RedefinableKinds
    <3>1. c.kind \in Kind \ RedefinableKinds
      BY <2>3, <2>5 DEF Kind
    <3>2. u[p] \in EditsFor("remove", f, ref, Kind \ RedefinableKinds)
      BY <2>3, <3>1 DEF EditsFor
    <3>3. u[p] \in Replacements
      BY <3>2 DEF Replacements
    <3> QED  BY <2>4, <3>3 DEF AsksFor
  <2>6. CASE c.kind \in RedefinableKinds
    <3>1. Edit("redefine", f, ref, c) \in Range(s)
      BY <1>3, <2>6 DEF EditsFor
    <3>2. PICK q \in 1 .. Len(s) : s[q] = Edit("redefine", f, ref, c)
      BY <1>5, <3>1 DEF Range
    <3>3. q \in 1 .. p - 1 /\ u[q] = s[q]
      BY <1>5, <1>7, <3>2
    <3>4. u[q].op = "redefine" /\ SamePatch(u[q], u[p])
      BY <2>3, <3>2, <3>3 DEF Edit, SamePatch
    <3> QED  BY <2>4, <3>3, <3>4 DEF AsksFor
  <2> QED  BY <2>5, <2>6
<1>8. \A p \in DOMAIN u : AsksFor(u, p)
  BY <1>5, <1>6, <1>7
<1>9. u = RedefineEdits(f, ref)
  BY <1>2, <1>4 DEF RedefineEdits, renamed, removed
<1>10. EditsFor("remove", f, ref, Kind \ RedefinableKinds) \subseteq Range(t)
  BY <1>3 DEF EditsFor, Kind, RedefinableKinds
<1> QED  BY <1>3, <1>5, <1>8, <1>9, <1>10 DEF EditLists

(* What stays once the files are loaded. *)
FilesFit ==
  /\ files \in Seq([path : Path, doc : Doc])
  /\ resolver \in Seq(CatalogEntry)
  /\ ParsedOnce

LEMMA FileParts ==
  ASSUME FilesFit, NEW f \in DOMAIN files
  PROVE  /\ f \in Nat /\ files[f].doc \in Doc
         /\ Declared(f) \in Seq(Declaration)
         /\ files[f].doc.overrides \in Seq(Reference) /\ files[f].doc.redefines \in Seq(Reference)
         /\ \A ref \in Range(files[f].doc.overrides) \cup Range(files[f].doc.redefines) :
              ref \in Reference /\ Range(ref.body) \subseteq Range(Declared(f))
<1>1. f \in Nat /\ files[f] \in [path : Path, doc : Doc]
  <2> PICK S : S = [path : Path, doc : Doc]
    OBVIOUS
  <2>1. files \in Seq(S)
    BY DEF FilesFit
  <2>2. f \in 1 .. Len(files) /\ Len(files) \in Nat
    BY <2>1, LenProperties
  <2>3. files[f] \in S
    BY ONLY <2>1, <2>2, ElementOfSeq
  <2> QED  BY <2>2, <2>3
<1> PICK doc \in Doc : doc = files[f].doc
  BY <1>1
<1>2. /\ DeclarationsOf(doc) \in Seq(Declaration)
      /\ doc.overrides \in Seq(Reference) /\ doc.redefines \in Seq(Reference)
      /\ \A ref \in Range(doc.overrides) \cup Range(doc.redefines) :
           ref \in Reference /\ Range(ref.body) \subseteq Range(DeclarationsOf(doc))
  BY ONLY doc \in Doc, DeclarationsAre
<1>3. Declared(f) = DeclarationsOf(doc)
  BY DEF Declared
<1> QED  BY <1>1, <1>2, <1>3

LEMMA FlatParts ==
  ASSUME NEW n \in Nat, NEW parts, parts = [i \in 1 .. n |-> parts[i]],
         \A i \in 1 .. n : parts[i] \in EditLists
  PROVE  /\ FlattenSeq(parts) \in EditLists
         /\ \A i \in 1 .. n : Range(parts[i]) \subseteq Range(FlattenSeq(parts))
<1> PICK T : T = EditLists
  OBVIOUS
<1>1. parts \in [1 .. n -> T]
  OBVIOUS
<1>2. parts \in Seq(EditLists) /\ DOMAIN parts = 1 .. n
  BY <1>1
<1>3. /\ FlattenSeq(parts) \in EditLists
      /\ Range(FlattenSeq(parts)) = UNION {Range(parts[i]) : i \in DOMAIN parts}
  BY ONLY <1>2, FlatEditLists
<1> QED  BY <1>2, <1>3

LEMMA EditsOfAre ==
  ASSUME FilesFit, NEW f \in DOMAIN files
  PROVE  /\ EditsOf(f, files[f].doc) \in EditLists
         /\ \A ref \in Range(files[f].doc.overrides) :
              EditsFor("remove", f, ref, Kind) \subseteq Range(EditsOf(f, files[f].doc))
         /\ \A ref \in Range(files[f].doc.redefines) :
              /\ EditsFor("redefine", f, ref, RedefinableKinds)
                   \subseteq Range(EditsOf(f, files[f].doc))
              /\ EditsFor("remove", f, ref, Kind \ RedefinableKinds)
                   \subseteq Range(EditsOf(f, files[f].doc))
<1> PICK overrides, redefines : overrides = files[f].doc.overrides /\ redefines = files[f].doc.redefines
  OBVIOUS
<1>1. /\ f \in Nat /\ overrides \in Seq(Reference) /\ redefines \in Seq(Reference)
      /\ \A ref \in Range(overrides) \cup Range(redefines) : ref \in Reference
  BY FileParts
<1>2. /\ Len(overrides) \in Nat /\ DOMAIN overrides = 1 .. Len(overrides)
      /\ Len(redefines) \in Nat /\ DOMAIN redefines = 1 .. Len(redefines)
  BY <1>1, LenProperties
<1>3. PICK p, q : /\ p = [i \in 1 .. Len(overrides) |-> OverrideEdits(f, overrides[i])]
                  /\ q = [i \in 1 .. Len(redefines) |-> RedefineEdits(f, redefines[i])]
  OBVIOUS
<1>4. PICK s, t : s = FlattenSeq(p) /\ t = FlattenSeq(q)
  OBVIOUS
<1>5. EditsOf(f, files[f].doc) = s \o t
  BY <1>2, <1>3, <1>4 DEF EditsOf
<1>6. /\ s \in EditLists
      /\ \A ref \in Range(overrides) : EditsFor("remove", f, ref, Kind) \subseteq Range(s)
  <2>1. ASSUME NEW i \in 1 .. Len(overrides)
        PROVE  p[i] \in EditLists /\ Range(p[i]) = EditsFor("remove", f, overrides[i], Kind)
    <3>1. overrides[i] \in Range(overrides)
      BY <1>2 DEF Range
    <3> QED  BY <1>1, <1>3, <3>1, OverrideEditsAre
  <2>2. p = [i \in 1 .. Len(overrides) |-> p[i]]
    BY <1>3
  <2>3. /\ FlattenSeq(p) \in EditLists
        /\ \A i \in 1 .. Len(overrides) : Range(p[i]) \subseteq Range(FlattenSeq(p))
    BY <1>2, <2>1, <2>2, FlatParts
  <2>4. ASSUME NEW ref \in Range(overrides) PROVE \E i \in 1 .. Len(overrides) : ref = overrides[i]
    BY <1>2 DEF Range
  <2> QED  BY <1>4, <2>1, <2>3, <2>4
<1>7. /\ t \in EditLists
      /\ \A ref \in Range(redefines) :
           /\ EditsFor("redefine", f, ref, RedefinableKinds) \subseteq Range(t)
           /\ EditsFor("remove", f, ref, Kind \ RedefinableKinds) \subseteq Range(t)
  <2>1. ASSUME NEW i \in 1 .. Len(redefines)
        PROVE  /\ q[i] \in EditLists
               /\ EditsFor("redefine", f, redefines[i], RedefinableKinds) \subseteq Range(q[i])
               /\ EditsFor("remove", f, redefines[i], Kind \ RedefinableKinds) \subseteq Range(q[i])
    <3>1. redefines[i] \in Range(redefines)
      BY <1>2 DEF Range
    <3> QED  BY <1>1, <1>3, <3>1, RedefineEditsAre
  <2>2. q = [i \in 1 .. Len(redefines) |-> q[i]]
    BY <1>3
  <2>3. /\ FlattenSeq(q) \in EditLists
        /\ \A i \in 1 .. Len(redefines) : Range(q[i]) \subseteq Range(FlattenSeq(q))
    BY <1>2, <2>1, <2>2, FlatParts
  <2>4. ASSUME NEW ref \in Range(redefines) PROVE \E i \in 1 .. Len(redefines) : ref = redefines[i]
    BY <1>2 DEF Range
  <2> QED  BY <1>4, <2>1, <2>3, <2>4
<1>8. s \o t \in EditLists
  BY <1>6, <1>7, EditListsJoin
<1>9. Range(s \o t) = Range(s) \cup Range(t)
  <2>1. s \in Seq(EditSet) /\ t \in Seq(EditSet)
    BY <1>6, <1>7 DEF EditLists
  <2> QED  BY ONLY <2>1, RangeOfConcat
<1> QED  BY <1>1, <1>5, <1>6, <1>7, <1>8, <1>9

LEMMA AllEditsAre ==
  ASSUME FilesFit
  PROVE  /\ AllEdits \in EditLists
         /\ Overridings \cup Replacements \cup Redefinitions \subseteq Range(AllEdits)
<1>1. Len(files) \in Nat /\ DOMAIN files = 1 .. Len(files)
  BY LenProperties DEF FilesFit
<1>2. PICK parts : parts = [i \in 1 .. Len(files) |-> EditsOf(i, files[i].doc)]
  OBVIOUS
<1>3. \A i \in 1 .. Len(files) : parts[i] \in EditLists
  BY <1>1, <1>2, EditsOfAre
<1>4. parts = [i \in 1 .. Len(files) |-> parts[i]]
  BY <1>2
<1>5. AllEdits = FlattenSeq(parts)
  BY <1>1, <1>2 DEF AllEdits
<1>6. /\ FlattenSeq(parts) \in EditLists
      /\ \A i \in 1 .. Len(files) : Range(parts[i]) \subseteq Range(FlattenSeq(parts))
  BY <1>1, <1>3, <1>4, FlatParts
<1>7. \A f \in DOMAIN files : Range(EditsOf(f, files[f].doc)) \subseteq Range(AllEdits)
  BY <1>1, <1>2, <1>5, <1>6
<1>8. Overridings \subseteq Range(AllEdits)
  <2> SUFFICES ASSUME NEW f \in DOMAIN files, NEW ref \in Range(files[f].doc.overrides)
               PROVE  EditsFor("remove", f, ref, Kind) \subseteq Range(AllEdits)
    BY DEF Overridings
  <2> QED  BY <1>7, EditsOfAre
<1>9. Replacements \subseteq Range(AllEdits)
  <2> SUFFICES ASSUME NEW f \in DOMAIN files, NEW ref \in Range(files[f].doc.redefines)
               PROVE  EditsFor("remove", f, ref, Kind \ RedefinableKinds) \subseteq Range(AllEdits)
    BY DEF Replacements
  <2> QED  BY <1>7, EditsOfAre
<1>10. Redefinitions \subseteq Range(AllEdits)
  <2> SUFFICES ASSUME NEW f \in DOMAIN files, NEW ref \in Range(files[f].doc.redefines)
               PROVE  EditsFor("redefine", f, ref, RedefinableKinds) \subseteq Range(AllEdits)
    BY DEF Redefinitions
  <2> QED  BY <1>7, EditsOfAre
<1> QED  BY <1>5, <1>6, <1>8, <1>9, <1>10

(* A patch declares in its own file what it puts in place of another.         *)
IsAsked(e) ==
  /\ e.file \in DOMAIN files
  /\ \E c \in Range(Declared(e.file)) : Declares(c, e.kind, e.name)

LEMMA PatchesAreAsked ==
  ASSUME FilesFit, NEW e \in Overridings \cup Replacements \cup Redefinitions
  PROVE  /\ IsAsked(e)
         /\ e \in Redefinitions => e.op = "redefine" /\ e.kind \in RedefinableKinds
         /\ e \in Overridings => e.op = "remove"
         /\ e \in Replacements => e.op = "remove" /\ e.kind \notin RedefinableKinds
<1>1. ASSUME NEW op, NEW f \in DOMAIN files, NEW kinds,
             NEW ref \in Range(files[f].doc.overrides) \cup Range(files[f].doc.redefines),
             e \in EditsFor(op, f, ref, kinds)
      PROVE  IsAsked(e) /\ e.op = op /\ e.kind \in kinds
  <2>1. PICK c \in Range(ref.body) : c.kind \in kinds /\ e = Edit(op, f, ref, c)
    BY <1>1 DEF EditsFor
  <2>2. c \in Range(Declared(f))
    BY <1>1, <2>1, FileParts
  <2>3. e.op = op /\ e.file = f /\ e.kind = c.kind /\ e.name = c.name
    BY <2>1 DEF Edit
  <2> QED  BY <2>1, <2>2, <2>3 DEF IsAsked, Declares
<1>2. ASSUME e \in Overridings PROVE IsAsked(e) /\ e.op = "remove"
  <2>1. PICK f \in DOMAIN files : \E ref \in Range(files[f].doc.overrides) :
                                    e \in EditsFor("remove", f, ref, Kind)
    BY <1>2 DEF Overridings
  <2> QED  BY <1>1, <2>1
<1>3. ASSUME e \in Replacements PROVE IsAsked(e) /\ e.op = "remove" /\ e.kind \notin RedefinableKinds
  <2> PICK kinds : kinds = Kind \ RedefinableKinds
    OBVIOUS
  <2>1. PICK f \in DOMAIN files : \E ref \in Range(files[f].doc.redefines) :
                                    e \in EditsFor("remove", f, ref, kinds)
    BY <1>3 DEF Replacements
  <2>2. IsAsked(e) /\ e.op = "remove" /\ e.kind \in kinds
    BY <1>1, <2>1
  <2> QED  BY <2>2
<1>4. ASSUME e \in Redefinitions PROVE IsAsked(e) /\ e.op = "redefine" /\ e.kind \in RedefinableKinds
  <2>1. PICK f \in DOMAIN files : \E ref \in Range(files[f].doc.redefines) :
                                    e \in EditsFor("redefine", f, ref, RedefinableKinds)
    BY <1>4 DEF Redefinitions
  <2> QED  BY <1>1, <2>1
<1> QED  BY <1>2, <1>3, <1>4

LEMMA EditsAreAsked ==
  ASSUME FilesFit, NEW p \in DOMAIN AllEdits
  PROVE  /\ AllEdits[p] \in EditSet /\ AsksFor(AllEdits, p) /\ IsAsked(AllEdits[p])
         /\ p \in Nat
<1>1. AllEdits \in Seq(EditSet) /\ AsksFor(AllEdits, p)
  BY AllEditsAre DEF EditLists
<1>2. p \in 1 .. Len(AllEdits) /\ Len(AllEdits) \in Nat /\ DOMAIN AllEdits = 1 .. Len(AllEdits)
  BY <1>1, LenProperties
<1>3. AllEdits[p] \in EditSet
  BY ONLY <1>1, <1>2, ElementOfSeq
<1>4. \A q \in DOMAIN AllEdits : AllEdits[q].op = "redefine" => IsAsked(AllEdits[q])
  <2> TAKE q \in DOMAIN AllEdits
  <2>1. AsksFor(AllEdits, q)
    BY AllEditsAre DEF EditLists
  <2> QED  BY <2>1, PatchesAreAsked DEF AsksFor
<1>5. CASE AllEdits[p].op = "redefine"
  BY <1>1, <1>2, <1>3, <1>4, <1>5
<1>6. CASE AllEdits[p].op # "redefine"
  <2>1. AllEdits[p].op = "remove"
    BY <1>3, <1>6 DEF EditSet
  <2>2. CASE AllEdits[p] \in Overridings \cup Replacements
    BY <1>1, <1>2, <1>3, <2>2, PatchesAreAsked
  <2>3. CASE \E q \in 1 .. p - 1 : AllEdits[q].op = "redefine" /\ SamePatch(AllEdits[q], AllEdits[p])
    <3>1. PICK q \in 1 .. p - 1 : AllEdits[q].op = "redefine" /\ SamePatch(AllEdits[q], AllEdits[p])
      BY <2>3
    <3>2. q \in DOMAIN AllEdits
      BY <1>2, <3>1
    <3> QED  BY <1>1, <1>2, <1>3, <1>4, <3>1, <3>2 DEF IsAsked, SamePatch
  <2> QED  BY <1>1, <2>1, <2>2, <2>3 DEF AsksFor
<1> QED  BY <1>5, <1>6
-----------------------------------------------------------------------------
(* What the patches do to a declaration d of the file f.  After k edits it   *)
(* was renamed, or removed before anything renamed it, or is as it was.      *)
Hits(e, d, f) == Declares(d, e.kind, e.name) /\ f \in TargetsOfEdit(e)

RenamedBy(d, f, k) ==
  \E p \in 1 .. k : AllEdits[p].op = "redefine" /\ Hits(AllEdits[p], d, f)

RemovalHits(d, f, k) ==
  \E p \in 1 .. k : AllEdits[p].op = "remove" /\ Hits(AllEdits[p], d, f)

RemovedBy(d, f, k) == ~ RenamedBy(d, f, k) /\ RemovalHits(d, f, k)

NameNow(d, f, k) == IF RenamedBy(d, f, k) THEN RedefinedBase(d.name) ELSE d.name

SameName(d, e) == d.kind = e.kind /\ d.name = e.name

(* What the theorems ask of the documents.  Ids tell declarations apart; a   *)
(* file declares a name of a kind once, its patches' children included;      *)
(* nobody spells a name that a redefine makes; and what is overridden is not *)
(* redefined as well.                                                          *)
IdsDiffer ==
  \A f, g \in DOMAIN files : \A i \in DOMAIN Declared(f), j \in DOMAIN Declared(g) :
    Declared(f)[i].id = Declared(g)[j].id => f = g /\ i = j

NamesDiffer ==
  \A f \in DOMAIN files : \A i, j \in DOMAIN Declared(f) :
    SameName(Declared(f)[i], Declared(f)[j]) => i = j

BasesAreFree ==
  \A e \in Redefinitions : \A f \in DOMAIN files : \A d \in Range(Declared(f)) :
    ~ Declares(d, e.kind, RedefinedBase(e.name))

PatchesApart ==
  \A o \in Overridings, r \in Redefinitions :
    SameName(o, r) => TargetsOfEdit(o) \cap TargetsOfEdit(r) = {}

DocumentsFit == IdsDiffer /\ NamesDiffer /\ BasesAreFree /\ PatchesApart

(* The declarations of files as sets.                                         *)
LEMMA DeclaredApart ==
  ASSUME DocumentsFit, NEW f \in DOMAIN files, NEW d \in Range(Declared(f))
  PROVE  /\ \A g \in DOMAIN files : \A e \in Range(Declared(g)) :
              d.id = e.id => f = g /\ d = e
         /\ \A e \in Range(Declared(f)) : SameName(d, e) => d = e
         /\ Differ(Declared(f))
<1>1. PICK i \in DOMAIN Declared(f) : d = Declared(f)[i]
  BY DEF Range
<1>2. ASSUME NEW g \in DOMAIN files, NEW e \in Range(Declared(g)), d.id = e.id
      PROVE  f = g /\ d = e
  <2>1. PICK j \in DOMAIN Declared(g) : e = Declared(g)[j]
    BY DEF Range
  <2>2. f = g /\ i = j
    BY <1>1, <1>2, <2>1 DEF DocumentsFit, IdsDiffer
  <2> QED  BY <1>1, <2>1, <2>2
<1>3. ASSUME NEW e \in Range(Declared(f)), SameName(d, e) PROVE d = e
  <2>1. PICK j \in DOMAIN Declared(f) : e = Declared(f)[j]
    BY DEF Range
  <2>2. i = j
    BY <1>1, <1>3, <2>1 DEF DocumentsFit, NamesDiffer
  <2> QED  BY <1>1, <2>1, <2>2
<1>4. Differ(Declared(f))
  BY DEF DocumentsFit, IdsDiffer, Differ
<1> QED  BY <1>2, <1>3, <1>4

(* An edit acts on one file.                                                  *)
LEMMA OneTarget ==
  ASSUME FilesFit, NEW e, NEW f \in TargetsOfEdit(e), NEW g \in TargetsOfEdit(e)
  PROVE  f \in DOMAIN files /\ f = g
<1>1. /\ f \in DOMAIN files /\ g \in DOMAIN files
      /\ AbsKey(files[f].path) = AbsKey(files[g].path)
  BY DEF TargetsOfEdit
<1> QED  BY <1>1 DEF FilesFit, ParsedOnce

(* One more edit: e is the one after the first k.                             *)
EditAfter(k, e) ==
  k \in Nat /\ k + 1 \in DOMAIN AllEdits /\ e = AllEdits[k + 1]

LEMMA OneMoreEdit ==
  ASSUME NEW k, NEW e, EditAfter(k, e), NEW d, NEW f
  PROVE  /\ RenamedBy(d, f, k + 1) <=> RenamedBy(d, f, k) \/ (e.op = "redefine" /\ Hits(e, d, f))
         /\ RemovalHits(d, f, k + 1) <=> RemovalHits(d, f, k) \/ (e.op = "remove" /\ Hits(e, d, f))
<1>1. \A p : p \in 1 .. k + 1 <=> p \in 1 .. k \/ p = k + 1
  BY DEF EditAfter
<1>2. e = AllEdits[k + 1]
  BY DEF EditAfter
<1> QED  BY <1>1, <1>2 DEF RenamedBy, RemovalHits

LEMMA EditParts ==
  ASSUME FilesFit, NEW k, NEW e, EditAfter(k, e)
  PROVE  e \in EditSet /\ IsAsked(e) /\ AsksFor(AllEdits, k + 1)
BY EditsAreAsked DEF EditAfter

(* What a redefine renames was not removed before.                            *)
LEMMA RenamedFirst ==
  ASSUME FilesFit, DocumentsFit, NEW p \in DOMAIN AllEdits, NEW q \in DOMAIN AllEdits,
         NEW d, NEW f,
         AllEdits[p].op = "redefine", Hits(AllEdits[p], d, f),
         AllEdits[q].op = "remove", Hits(AllEdits[q], d, f)
  PROVE  RenamedBy(d, f, q - 1)
<1>1. AllEdits[p] \in Redefinitions /\ AllEdits[p].kind \in RedefinableKinds
  BY EditsAreAsked, PatchesAreAsked DEF AsksFor
<1>2. d.kind = AllEdits[p].kind /\ SameName(AllEdits[q], AllEdits[p])
  BY DEF Hits, Declares, SameName
<1>3. AllEdits[q] \notin Overridings
  BY <1>1, <1>2 DEF DocumentsFit, PatchesApart, Hits
<1>4. AllEdits[q] \notin Replacements
  <2> SUFFICES ASSUME AllEdits[q] \in Replacements PROVE FALSE
    OBVIOUS
  <2>1. AllEdits[q].kind \notin RedefinableKinds
    BY PatchesAreAsked
  <2> QED  BY <1>1, <1>2, <2>1 DEF SameName
<1>5. PICK r \in 1 .. q - 1 : AllEdits[r].op = "redefine" /\ SamePatch(AllEdits[r], AllEdits[q])
  BY <1>3, <1>4, EditsAreAsked DEF AsksFor
<1>6. Hits(AllEdits[r], d, f)
  BY <1>5 DEF Hits, SamePatch, Declares, TargetsOfEdit
<1> QED  BY <1>5, <1>6 DEF RenamedBy

LEMMA NotYetRemoved ==
  ASSUME FilesFit, DocumentsFit, NEW k, NEW e, EditAfter(k, e), e.op = "redefine",
         NEW d, NEW f, Hits(e, d, f)
  PROVE  ~ RemovedBy(d, f, k)
<1> SUFFICES ASSUME RemovalHits(d, f, k) PROVE RenamedBy(d, f, k)
  BY DEF RemovedBy
<1>1. PICK q \in 1 .. k : AllEdits[q].op = "remove" /\ Hits(AllEdits[q], d, f)
  BY DEF RemovalHits
<1>2. AllEdits \in Seq(EditSet)
  BY AllEditsAre DEF EditLists
<1>3. q \in DOMAIN AllEdits /\ k + 1 \in DOMAIN AllEdits /\ k \in Nat
  BY <1>1, <1>2, LenProperties DEF EditAfter
<1>4. RenamedBy(d, f, q - 1)
  BY <1>1, <1>3, RenamedFirst DEF EditAfter
<1>5. \A p \in 1 .. q - 1 : p \in 1 .. k
  BY <1>1, <1>3
<1> QED  BY <1>4, <1>5 DEF RenamedBy

(* The name that a redefine makes is in no edit.                              *)
LEMMA NameFree ==
  ASSUME FilesFit, DocumentsFit, NEW k, NEW e, EditAfter(k, e),
         NEW d, NEW f, RenamedBy(d, f, k), e.kind = d.kind
  PROVE  e.name # RedefinedBase(d.name)
<1>1. PICK p \in 1 .. k : AllEdits[p].op = "redefine" /\ Hits(AllEdits[p], d, f)
  BY DEF RenamedBy
<1>2. AllEdits \in Seq(EditSet)
  BY AllEditsAre DEF EditLists
<1>3. p \in DOMAIN AllEdits
  BY <1>1, <1>2, LenProperties DEF EditAfter
<1>4. AllEdits[p] \in Redefinitions
  BY <1>1, <1>3, EditsAreAsked DEF AsksFor
<1>5. d.kind = AllEdits[p].kind /\ d.name = AllEdits[p].name
  BY <1>1 DEF Hits, Declares
<1>6. IsAsked(e)
  BY EditParts
<1>7. PICK c \in Range(Declared(e.file)) : Declares(c, e.kind, e.name)
  BY <1>6 DEF IsAsked
<1>8. ~ Declares(c, AllEdits[p].kind, RedefinedBase(AllEdits[p].name))
  BY <1>4, <1>6, <1>7 DEF DocumentsFit, BasesAreFree, IsAsked
<1> QED  BY <1>5, <1>7, <1>8 DEF Declares

(* The declarations ds of the file f after k edits: each is what became of   *)
(* one that the file declares, and of those only the removed are missing.    *)
From(x, d, f, k) == x.id = d.id /\ x.kind = d.kind /\ x.name = NameNow(d, f, k)

Listed(d, ds) == \E x \in Range(ds) : x.id = d.id

Account(ds, f, k) ==
  /\ Differ(ds)
  /\ \A x, y \in Range(ds) : x.id = y.id => x = y
  /\ \A x \in Range(ds) : \E d \in Range(Declared(f)) : From(x, d, f, k)
  /\ \A d \in Range(Declared(f)) : Listed(d, ds) <=> ~ RemovedBy(d, f, k)

LEMMA AccountAtFirst ==
  ASSUME DocumentsFit, NEW f \in DOMAIN files
  PROVE  Account(Declared(f), f, 0)
<1>1. \A d : ~ RenamedBy(d, f, 0) /\ ~ RemovedBy(d, f, 0)
  BY DEF RenamedBy, RemovedBy, RemovalHits
<1>2. \A x \in Range(Declared(f)) : From(x, x, f, 0)
  BY <1>1 DEF From, NameNow
<1>3. Differ(Declared(f))
  <2>1. CASE DOMAIN Declared(f) = {}
    BY <2>1 DEF Differ
  <2>2. CASE DOMAIN Declared(f) # {}
    <3>1. PICK i \in DOMAIN Declared(f) : TRUE
      BY <2>2
    <3>2. Declared(f)[i] \in Range(Declared(f))
      BY DEF Range
    <3> QED  BY <3>2, DeclaredApart
  <2> QED  BY <2>1, <2>2
<1>4. \A x, y \in Range(Declared(f)) : x.id = y.id => x = y
  BY DeclaredApart
<1>5. \A d \in Range(Declared(f)) : Listed(d, Declared(f))
  BY DEF Listed
<1> QED  BY <1>1, <1>2, <1>3, <1>4, <1>5 DEF Account

(* Where an edit hits a declaration that is as it was, it names it.           *)
LEMMA NamedIsHit ==
  ASSUME FilesFit, DocumentsFit, NEW k, NEW e, EditAfter(k, e),
         NEW f \in TargetsOfEdit(e), NEW d, NEW x, From(x, d, f, k)
  PROVE  Declares(x, e.kind, e.name) <=> ~ RenamedBy(d, f, k) /\ Hits(e, d, f)
<1>1. CASE RenamedBy(d, f, k)
  <2>1. x.name = RedefinedBase(d.name) /\ x.kind = d.kind
    BY <1>1 DEF From, NameNow
  <2>2. e.kind = d.kind => e.name # RedefinedBase(d.name)
    BY <1>1, NameFree
  <2> QED  BY <1>1, <2>1, <2>2 DEF Declares
<1>2. CASE ~ RenamedBy(d, f, k)
  BY <1>2 DEF From, NameNow, Declares, Hits
<1> QED  BY <1>1, <1>2

(* An edit that neither renames nor removes in f leaves the account.          *)
LEMMA AccountUntouched ==
  ASSUME NEW ds, NEW f, NEW k, Account(ds, f, k),
         \A d \in Range(Declared(f)) : /\ RenamedBy(d, f, k + 1) <=> RenamedBy(d, f, k)
                                       /\ RemovedBy(d, f, k + 1) <=> RemovedBy(d, f, k)
  PROVE  Account(ds, f, k + 1)
<1>1. \A d \in Range(Declared(f)) : NameNow(d, f, k + 1) = NameNow(d, f, k)
  BY DEF NameNow
<1> QED  BY <1>1 DEF Account, From

LEMMA AccountElsewhere ==
  ASSUME NEW k, NEW e, EditAfter(k, e), NEW f, f \notin TargetsOfEdit(e),
         NEW ds, Account(ds, f, k)
  PROVE  Account(ds, f, k + 1)
<1>1. \A d : ~ Hits(e, d, f)
  BY DEF Hits
<1>2. \A d : /\ RenamedBy(d, f, k + 1) <=> RenamedBy(d, f, k)
             /\ RemovedBy(d, f, k + 1) <=> RemovedBy(d, f, k)
  BY <1>1, OneMoreEdit DEF RemovedBy
<1> QED  BY <1>2, AccountUntouched

LEMMA AccountPassed ==
  ASSUME FilesFit, DocumentsFit, NEW k, NEW e, EditAfter(k, e), e.op = "redefine",
         NEW f \in TargetsOfEdit(e), NEW ds, Account(ds, f, k),
         \A x \in Range(ds) : ~ Declares(x, e.kind, e.name)
  PROVE  Account(ds, f, k + 1)
<1>1. ASSUME NEW d \in Range(Declared(f)), Hits(e, d, f) PROVE RenamedBy(d, f, k)
  <2> SUFFICES ASSUME ~ RenamedBy(d, f, k) PROVE FALSE
    OBVIOUS
  <2>1. ~ RemovedBy(d, f, k)
    BY <1>1, NotYetRemoved
  <2>2. PICK x \in Range(ds) : x.id = d.id
    BY <2>1 DEF Account, Listed
  <2>3. PICK o \in Range(Declared(f)) : From(x, o, f, k)
    BY DEF Account
  <2>4. f \in DOMAIN files /\ o = d
    BY <2>2, <2>3, OneTarget, DeclaredApart DEF From
  <2> QED  BY <1>1, <2>3, <2>4, NamedIsHit
<1>2. ASSUME NEW d \in Range(Declared(f))
      PROVE  /\ RenamedBy(d, f, k + 1) <=> RenamedBy(d, f, k)
             /\ RemovedBy(d, f, k + 1) <=> RemovedBy(d, f, k)
  BY <1>1, OneMoreEdit DEF RemovedBy
<1> QED  BY <1>2, AccountUntouched

(* An override removes all that it names.                                     *)
LEMMA RangeOfWithout ==
  ASSUME NEW ds \in Seq(Declaration), NEW kind, NEW name
  PROVE  /\ WithoutDeclarations(ds, kind, name) \in Seq(Declaration)
         /\ Range(WithoutDeclarations(ds, kind, name))
              = {x \in Range(ds) : ~ Declares(x, kind, name)}
         /\ Differ(ds) => Differ(WithoutDeclarations(ds, kind, name))
<1> DEFINE places == {i \in DOMAIN ds : ~ Declares(ds[i], kind, name)}
<1>1. WithoutDeclarations(ds, kind, name) = AtPlaces(ds, places)
  BY DEF WithoutDeclarations
<1>2. {ds[i] : i \in DOMAIN ds \cap places} = {x \in Range(ds) : ~ Declares(x, kind, name)}
  BY DEF Range
<1> HIDE DEF places
<1> QED  BY <1>1, <1>2, SelectionType, RangeOfSelection

LEMMA AccountRemoved ==
  ASSUME FilesFit, DocumentsFit, NEW k, NEW e, EditAfter(k, e), e.op = "remove",
         NEW f \in TargetsOfEdit(e), NEW ds \in Seq(Declaration), Account(ds, f, k)
  PROVE  Account(WithoutDeclarations(ds, e.kind, e.name), f, k + 1)
<1> PICK new : new = WithoutDeclarations(ds, e.kind, e.name)
  OBVIOUS
<1>1. /\ Range(new) = {x \in Range(ds) : ~ Declares(x, e.kind, e.name)}
      /\ Differ(new)
  BY RangeOfWithout DEF Account
<1>2. \A d : /\ RenamedBy(d, f, k + 1) <=> RenamedBy(d, f, k)
             /\ RemovalHits(d, f, k + 1) <=> RemovalHits(d, f, k) \/ Hits(e, d, f)
  BY OneMoreEdit
<1>3. \A d : NameNow(d, f, k + 1) = NameNow(d, f, k)
  BY <1>2 DEF NameNow
<1>4. \A x \in Range(new) : \E d \in Range(Declared(f)) : From(x, d, f, k + 1)
  BY <1>1, <1>3 DEF Account, From
<1>5. ASSUME NEW d \in Range(Declared(f))
      PROVE  Listed(d, new) <=> ~ RemovedBy(d, f, k + 1)
  <2>1. Listed(d, ds) <=> ~ RemovedBy(d, f, k)
    BY DEF Account
  <2>2. ASSUME NEW x \in Range(ds), x.id = d.id
        PROVE  Declares(x, e.kind, e.name) <=> ~ RenamedBy(d, f, k) /\ Hits(e, d, f)
    <3>1. PICK o \in Range(Declared(f)) : From(x, o, f, k)
      BY DEF Account
    <3>2. o = d
      BY <2>2, <3>1, OneTarget, DeclaredApart DEF From
    <3> QED  BY <3>1, <3>2, NamedIsHit
  <2>3. Listed(d, new) <=> Listed(d, ds) /\ ~ (~ RenamedBy(d, f, k) /\ Hits(e, d, f))
    BY <1>1, <2>2 DEF Listed
  <2> QED  BY <1>2, <2>1, <2>3 DEF RemovedBy
<1>6. \A x, y \in Range(new) : x.id = y.id => x = y
  BY <1>1 DEF Account
<1> QED  BY <1>1, <1>4, <1>5, <1>6 DEF Account

(* A redefine gives one declaration a new name.                               *)
OneEach(ds) == Differ(ds) /\ \A x, y \in Range(ds) : x.id = y.id => x = y

Renamed(x, name) == [x EXCEPT !.name = RedefinedBase(name)]

LEMMA RenamedType ==
  ASSUME NEW x \in Declaration, NEW name \in Name
  PROVE  /\ Renamed(x, name) \in Declaration
         /\ Renamed(x, name).id = x.id /\ Renamed(x, name).kind = x.kind
         /\ Renamed(x, name).refs = x.refs
         /\ Renamed(x, name).name = RedefinedBase(name)
<1>1. RedefinedBase(name) \in Name
  BY DEF Name, RedefinedBase
<1> QED  BY <1>1 DEF Renamed, Declaration

LEMMA RenameFirstIs ==
  ASSUME NEW ds \in Seq(Declaration), NEW kind, NEW name \in Name,
         \E x \in Range(ds) : Declares(x, kind, name)
  PROVE  /\ RenameFirst(ds, kind, name) \in Seq(Declaration)
         /\ \E n \in DOMAIN ds :
              /\ Declares(ds[n], kind, name)
              /\ RenameFirst(ds, kind, name) = Append(RemoveAt(ds, n), Renamed(ds[n], name))
<1> DEFINE places == {i \in DOMAIN ds : Declares(ds[i], kind, name)}
           first == CHOOSE i \in DOMAIN ds :
                      /\ Declares(ds[i], kind, name)
                      /\ \A j \in 1..(i - 1) : ~ Declares(ds[j], kind, name)
<1>1. /\ Len(ds) \in Nat /\ DOMAIN ds = 1 .. Len(ds)
      /\ \A i \in DOMAIN ds : ds[i] \in Declaration
  BY LenProperties, ElementOfSeq
<1>2. first \in DOMAIN ds /\ Declares(ds[first], kind, name)
  <2>1. places \in SUBSET Nat /\ places # {}
    BY <1>1 DEF Range
  <2>2. \E i \in places : \A j \in places : i <= j
    <3> HIDE DEF places
    <3> QED  BY <2>1, SmallestIndex
  <2>3. PICK i \in places : \A j \in places : i <= j
    BY <2>2
  <2>4. \A j \in 1 .. (i - 1) : j \in DOMAIN ds /\ ~ (i <= j)
    BY <1>1
  <2>5. \A j \in 1 .. (i - 1) : ~ Declares(ds[j], kind, name)
    BY <2>3, <2>4
  <2> QED  BY <2>3, <2>5
<1>3. PICK n : n = first
  OBVIOUS
<1>4. RenameFirst(ds, kind, name) = Append(RemoveAt(ds, n), Renamed(ds[n], name))
  BY <1>3 DEF RenameFirst, Renamed
<1> HIDE DEF first, places
<1>5. n \in DOMAIN ds /\ Declares(ds[n], kind, name)
  BY <1>2, <1>3
<1>6. RemoveAt(ds, n) \in Seq(Declaration)
  BY <1>5, RangeOfRemoval
<1>7. Renamed(ds[n], name) \in Declaration
  BY <1>1, <1>5, RenamedType
<1>8. Append(RemoveAt(ds, n), Renamed(ds[n], name)) \in Seq(Declaration)
  BY <1>6, <1>7, AppendProperties
<1> QED  BY <1>4, <1>5, <1>8

LEMMA RangeOfRenameFirst ==
  ASSUME NEW ds \in Seq(Declaration), OneEach(ds), NEW kind, NEW name \in Name,
         \E x \in Range(ds) : Declares(x, kind, name)
  PROVE  /\ OneEach(RenameFirst(ds, kind, name))
         /\ \E x \in Range(ds) :
              /\ Declares(x, kind, name)
              /\ Range(RenameFirst(ds, kind, name)) = (Range(ds) \ {x}) \cup {Renamed(x, name)}
<1>1. /\ Len(ds) \in Nat /\ DOMAIN ds = 1 .. Len(ds)
      /\ \A i \in DOMAIN ds : ds[i] \in Declaration
  BY LenProperties, ElementOfSeq
<1>2. PICK n \in DOMAIN ds :
        /\ Declares(ds[n], kind, name)
        /\ RenameFirst(ds, kind, name) = Append(RemoveAt(ds, n), Renamed(ds[n], name))
  BY RenameFirstIs
<1>3. PICK rest, new : rest = RemoveAt(ds, n) /\ new = Renamed(ds[n], name)
  OBVIOUS
<1>4. /\ rest \in Seq(Declaration)
      /\ Range(rest) = {ds[i] : i \in DOMAIN ds \ {n}}
      /\ Differ(rest)
  BY <1>3, RangeOfRemoval DEF OneEach
<1>5. Range(rest) = Range(ds) \ {ds[n]}
  <2>1. \A i \in DOMAIN ds : ds[i] = ds[n] => i = n
    BY DEF OneEach, Differ
  <2> QED  BY <1>4, <2>1 DEF Range
<1>6. ds[n] \in Range(ds) /\ ds[n] \in Declaration
  BY <1>1 DEF Range
<1>7. new \in Declaration /\ new.id = ds[n].id
  BY <1>3, <1>6, RenamedType
<1>8. new \notin Range(rest)
  BY <1>5, <1>6, <1>7 DEF OneEach
<1>9. /\ Append(rest, new) \in Seq(Declaration)
       /\ Differ(Append(rest, new))
       /\ Range(Append(rest, new)) = (Range(ds) \ {ds[n]}) \cup {new}
  BY <1>4, <1>5, <1>7, <1>8, AppendProperties, DifferAppend, RangeOfAppend
<1>10. ASSUME NEW x \in Range(Append(rest, new)), NEW y \in Range(Append(rest, new)), x.id = y.id
       PROVE  x = y
  <2>1. x = new \/ x \in Range(ds) \ {ds[n]}
    BY <1>9
  <2>2. y = new \/ y \in Range(ds) \ {ds[n]}
    BY <1>9
  <2>3. \A z \in Range(ds) \ {ds[n]} : z.id # new.id
    BY <1>6, <1>7 DEF OneEach
  <2> QED  BY <1>10, <2>1, <2>2, <2>3 DEF OneEach
<1>11. OneEach(Append(rest, new))
  BY <1>9, <1>10 DEF OneEach
<1> QED  BY <1>2, <1>3, <1>6, <1>9, <1>11

LEMMA AccountRenamed ==
  ASSUME FilesFit, DocumentsFit, NEW k, NEW e, EditAfter(k, e), e.op = "redefine",
         NEW f \in TargetsOfEdit(e), NEW ds \in Seq(Declaration), Account(ds, f, k),
         \E x \in Range(ds) : Declares(x, e.kind, e.name)
  PROVE  Account(RenameFirst(ds, e.kind, e.name), f, k + 1)
<1>1. e.name \in Name
  BY EditParts DEF EditSet
<1>2. PICK new : new = RenameFirst(ds, e.kind, e.name)
  OBVIOUS
<1>3. OneEach(ds)
  BY DEF Account, OneEach
<1>4. /\ OneEach(new)
      /\ \E x \in Range(ds) :
           /\ Declares(x, e.kind, e.name)
           /\ Range(new) = (Range(ds) \ {x}) \cup {Renamed(x, e.name)}
  BY <1>1, <1>2, <1>3, RangeOfRenameFirst
<1>5. PICK x \in Range(ds) : /\ Declares(x, e.kind, e.name)
                             /\ Range(new) = (Range(ds) \ {x}) \cup {Renamed(x, e.name)}
  BY <1>4
<1>6. x \in Declaration
  BY LenProperties, ElementOfSeq DEF Range
<1>7. PICK y : y = Renamed(x, e.name)
  OBVIOUS
<1>8. y.id = x.id /\ y.kind = x.kind /\ y.name = RedefinedBase(e.name)
  BY <1>1, <1>6, <1>7, RenamedType
<1>9. PICK d \in Range(Declared(f)) : From(x, d, f, k)
  BY DEF Account
<1>10. f \in DOMAIN files
  BY OneTarget
<1>11. ~ RenamedBy(d, f, k) /\ Hits(e, d, f)
  BY <1>5, <1>9, NamedIsHit
<1>12. \A o \in Range(Declared(f)) : Hits(e, o, f) <=> o = d
  <2>1. ASSUME NEW o \in Range(Declared(f)), Hits(e, o, f) PROVE o = d
    <3>1. SameName(o, d)
      BY <1>11, <2>1 DEF Hits, Declares, SameName
    <3> QED  BY <1>10, <3>1, DeclaredApart
  <2> QED  BY <1>11, <2>1
<1>13. \A o \in Range(Declared(f)) :
         /\ RenamedBy(o, f, k + 1) <=> RenamedBy(o, f, k) \/ o = d
         /\ RemovalHits(o, f, k + 1) <=> RemovalHits(o, f, k)
  BY <1>12, OneMoreEdit
<1>14. ~ RemovedBy(d, f, k + 1) /\ \A o \in Range(Declared(f)) : o # d =>
         (RemovedBy(o, f, k + 1) <=> RemovedBy(o, f, k))
  BY <1>9, <1>13 DEF RemovedBy
<1>15. From(y, d, f, k + 1)
  <2>1. NameNow(d, f, k + 1) = RedefinedBase(d.name)
    BY <1>9, <1>13 DEF NameNow
  <2>2. d.name = e.name
    BY <1>11 DEF Hits, Declares
  <2> QED  BY <1>8, <1>9, <2>1, <2>2 DEF From
<1>16. \A z \in Range(ds) \ {x} : z.id # x.id
  BY <1>3 DEF OneEach
<1>17. ASSUME NEW z \in Range(new) PROVE \E o \in Range(Declared(f)) : From(z, o, f, k + 1)
  <2>1. CASE z = y
    BY <1>15, <2>1
  <2>2. CASE z \in Range(ds) \ {x}
    <3>1. PICK o \in Range(Declared(f)) : From(z, o, f, k)
      BY <2>2 DEF Account
    <3>2. o # d
      BY <1>9, <1>16, <2>2, <3>1 DEF From
    <3>3. NameNow(o, f, k + 1) = NameNow(o, f, k)
      BY <1>13, <3>2 DEF NameNow
    <3> QED  BY <3>1, <3>3 DEF From
  <2> QED  BY <1>5, <1>7, <2>1, <2>2
<1>18. ASSUME NEW o \in Range(Declared(f))
       PROVE  Listed(o, new) <=> ~ RemovedBy(o, f, k + 1)
  <2>1. CASE o = d
    <3>1. y \in Range(new) /\ y.id = d.id
      BY <1>5, <1>7, <1>8, <1>9 DEF From
    <3> QED  BY <1>14, <2>1, <3>1 DEF Listed
  <2>2. CASE o # d
    <3>1. o.id # d.id
      BY <1>10, <2>2, DeclaredApart
    <3>2. x.id = d.id
      BY <1>9 DEF From
    <3>3. Listed(o, new) <=> Listed(o, ds)
      BY <1>5, <1>7, <1>8, <3>1, <3>2 DEF Listed
    <3> QED  BY <1>14, <2>2, <3>3 DEF Account
  <2> QED  BY <2>1, <2>2
<1> QED  BY <1>2, <1>4, <1>17, <1>18 DEF Account, OneEach

(* Another base changes neither what a declaration is nor what it is called.  *)
Rewritten(new, ds, kind, name) ==
  /\ DOMAIN new = DOMAIN ds
  /\ \A i \in DOMAIN ds :
       /\ new[i].id = ds[i].id /\ new[i].kind = ds[i].kind /\ new[i].name = ds[i].name
       /\ new[i].refs = IF Declares(ds[i], kind, name) /\ name \in ds[i].refs
                        THEN (ds[i].refs \ {name}) \cup {RedefinedBase(name)}
                        ELSE ds[i].refs

LEMMA RewrittenParts ==
  ASSUME NEW ds \in Seq(Declaration), NEW kind, NEW name \in Name
  PROVE  /\ RewriteSelf(ds, kind, name) \in Seq(Declaration)
         /\ Rewritten(RewriteSelf(ds, kind, name), ds, kind, name)
<1> PICK new : new = RewriteSelf(ds, kind, name)
  OBVIOUS
<1>1. /\ Len(ds) \in Nat /\ DOMAIN ds = 1 .. Len(ds)
      /\ \A i \in DOMAIN ds : ds[i] \in Declaration
  BY LenProperties, ElementOfSeq
<1>2. new = [i \in 1 .. Len(ds) |->
               IF Declares(ds[i], kind, name) /\ name \in ds[i].refs
               THEN [ds[i] EXCEPT !.refs = (@ \ {name}) \cup {RedefinedBase(name)}]
               ELSE ds[i]]
  BY <1>1 DEF RewriteSelf
<1>3. RedefinedBase(name) \in Name
  BY DEF Name, RedefinedBase
<1>4. ASSUME NEW i \in 1 .. Len(ds)
      PROVE  /\ new[i] \in Declaration
             /\ new[i].id = ds[i].id /\ new[i].kind = ds[i].kind /\ new[i].name = ds[i].name
             /\ new[i].refs = IF Declares(ds[i], kind, name) /\ name \in ds[i].refs
                              THEN (ds[i].refs \ {name}) \cup {RedefinedBase(name)}
                              ELSE ds[i].refs
  <2> PICK x \in Declaration : x = ds[i]
    BY <1>1
  <2>1. CASE Declares(x, kind, name) /\ name \in x.refs
    <3>1. new[i] = [x EXCEPT !.refs = (x.refs \ {name}) \cup {RedefinedBase(name)}]
      BY <1>2, <2>1
    <3>2. (x.refs \ {name}) \cup {RedefinedBase(name)} \in SUBSET Name
      BY <1>3 DEF Declaration
    <3> QED  BY <2>1, <3>1, <3>2 DEF Declaration
  <2>2. CASE ~ (Declares(x, kind, name) /\ name \in x.refs)
    <3>1. new[i] = x
      BY <1>2, <2>2
    <3> QED  BY <2>2, <3>1
  <2> QED  BY <2>1, <2>2
<1>5. new \in Seq(Declaration) /\ DOMAIN new = DOMAIN ds
  <2>1. new \in [1 .. Len(ds) -> Declaration]
    BY <1>2, <1>4
  <2> QED  BY <1>1, <2>1
<1> QED  BY <1>1, <1>4, <1>5 DEF Rewritten

LEMMA AccountRewritten ==
  ASSUME NEW f, NEW k, NEW ds \in Seq(Declaration), Account(ds, f, k),
         NEW kind, NEW name \in Name
  PROVE  /\ RewriteSelf(ds, kind, name) \in Seq(Declaration)
         /\ Account(RewriteSelf(ds, kind, name), f, k)
<1> PICK new : new = RewriteSelf(ds, kind, name)
  OBVIOUS
<1>1. /\ new \in Seq(Declaration) /\ DOMAIN new = DOMAIN ds
      /\ \A i \in DOMAIN ds : /\ new[i].id = ds[i].id /\ new[i].kind = ds[i].kind
                              /\ new[i].name = ds[i].name
  <2>1. new \in Seq(Declaration) /\ Rewritten(new, ds, kind, name)
    BY RewrittenParts
  <2> QED  BY <2>1 DEF Rewritten
<1>2. \A i, j \in DOMAIN ds : ds[i].id = ds[j].id => i = j
  BY DEF Account, Differ, Range
<1>3. Differ(new)
  BY <1>1, <1>2 DEF Differ
<1>4. \A x, y \in Range(new) : x.id = y.id => x = y
  BY <1>1, <1>2 DEF Range
<1>5. ASSUME NEW x \in Range(new) PROVE \E d \in Range(Declared(f)) : From(x, d, f, k)
  <2>1. PICK i \in DOMAIN ds : x = new[i]
    BY <1>1 DEF Range
  <2>2. ds[i] \in Range(ds)
    BY DEF Range
  <2>3. PICK d \in Range(Declared(f)) : From(ds[i], d, f, k)
    BY <2>2 DEF Account
  <2> QED  BY <1>1, <2>1, <2>3 DEF From
<1>6. \A d : Listed(d, new) <=> Listed(d, ds)
  BY <1>1 DEF Listed, Range
<1> QED  BY <1>1, <1>3, <1>4, <1>5, <1>6 DEF Account

-----------------------------------------------------------------------------
(* Every step of the patches keeps the account of every file.                 *)
Loading == pc \notin {"patching", "done"}

Done == Len(AllEdits) - Len(work)

DeclsTyped == decls \in Seq(Seq(Declaration)) /\ DOMAIN decls = DOMAIN files

WorkIsRest ==
  /\ work \in Seq(EditSet) /\ Len(work) <= Len(AllEdits)
  /\ \A i \in 1 .. Len(work) : work[i] = AllEdits[Done + i]
  /\ pc = "done" => work = << >>

Accounted == DocumentsFit => \A f \in DOMAIN files : Account(decls[f], f, Done)

PatchInv ==
  /\ pc \in {"catalogs", "files", "parsed", "failed", "patching", "done"}
  /\ FilesFit
  /\ Loading => TypeOK /\ SeenFirst /\ decls = << >> /\ work = << >>
  /\ ~ Loading => DeclsTyped /\ WorkIsRest /\ Accounted

(* The files stay as they are once they are patched.                          *)
LEMMA FilesStay ==
  ASSUME files' = files, resolver' = resolver
  PROVE  /\ FilesFit' <=> FilesFit
         /\ AllEdits' = AllEdits
         /\ DocumentsFit' <=> DocumentsFit
<1>1. FilesFit' <=> FilesFit
  BY DEF FilesFit, ParsedOnce
<1>2. AllEdits' = AllEdits
  BY DEF AllEdits
<1>3. \A f : Declared(f)' = Declared(f)
  BY DEF Declared
<1>4. \A e : TargetsOfEdit(e)' = TargetsOfEdit(e)
  BY DEF TargetsOfEdit
<1>5. Overridings' = Overridings /\ Redefinitions' = Redefinitions
  BY DEF Overridings, Redefinitions
<1>6. IdsDiffer' <=> IdsDiffer
  BY <1>3 DEF IdsDiffer
<1>7. NamesDiffer' <=> NamesDiffer
  BY <1>3 DEF NamesDiffer
<1>8. BasesAreFree' <=> BasesAreFree
  BY <1>3, <1>5 DEF BasesAreFree
<1>9. PatchesApart' <=> PatchesApart
  BY <1>4, <1>5 DEF PatchesApart
<1> QED  BY <1>1, <1>2, <1>6, <1>7, <1>8, <1>9 DEF DocumentsFit

LEMMA AccountStays ==
  ASSUME files' = files, resolver' = resolver, NEW ds, NEW f, NEW k
  PROVE  Account(ds, f, k)' <=> Account(ds, f, k)
<1>1. AllEdits' = AllEdits
  BY FilesStay
<1>2. Declared(f)' = Declared(f)
  BY DEF Declared
<1>3. \A e, d : Hits(e, d, f)' <=> Hits(e, d, f)
  BY DEF TargetsOfEdit, Hits
<1>4. \A d : /\ RenamedBy(d, f, k)' <=> RenamedBy(d, f, k)
             /\ RemovalHits(d, f, k)' <=> RemovalHits(d, f, k)
  BY <1>1, <1>3 DEF RenamedBy, RemovalHits
<1>5. \A d : RemovedBy(d, f, k)' <=> RemovedBy(d, f, k)
  BY <1>4 DEF RemovedBy
<1>6. \A x, d : From(x, d, f, k)' <=> From(x, d, f, k)
  BY <1>4 DEF From, NameNow
<1> QED  BY <1>2, <1>5, <1>6 DEF Account

LEMMA PatchesStart ==
  PatchInv /\ StartPatches => PatchInv'
<1> SUFFICES ASSUME PatchInv, StartPatches PROVE PatchInv'
  OBVIOUS
<1>1. /\ FilesFit /\ files' = files /\ resolver' = resolver /\ pc' = "patching"
      /\ decls' = [f \in DOMAIN files |-> Declared(f)]
      /\ work' = AllEdits
  BY DEF PatchInv, StartPatches, AllEdits, Declared
<1>2. Len(files) \in Nat /\ DOMAIN files = 1 .. Len(files)
  BY <1>1, LenProperties DEF FilesFit
<1>3. DeclsTyped'
  <2> PICK D : D = Seq(Declaration)
    OBVIOUS
  <2>1. decls' \in [1 .. Len(files) -> D]
    BY <1>1, <1>2, FileParts
  <2>2. decls' \in Seq(D) /\ DOMAIN decls' = DOMAIN files
    BY <1>2, <2>1
  <2> QED  BY <1>1, <2>2 DEF DeclsTyped
<1>4. AllEdits \in Seq(EditSet) /\ Len(AllEdits) \in Nat /\ AllEdits' = AllEdits
  BY <1>1, AllEditsAre, FilesStay, LenProperties DEF EditLists
<1>5. Done' = 0
  BY <1>1, <1>4 DEF Done
<1>6. WorkIsRest'
  BY <1>1, <1>4, <1>5 DEF WorkIsRest
<1>7. ASSUME DocumentsFit', NEW f \in DOMAIN files' PROVE Account(decls[f], f, Done)'
  <2>1. DocumentsFit /\ f \in DOMAIN files
    BY <1>1, <1>7, FilesStay
  <2>2. PICK ds : ds = decls'[f]
    OBVIOUS
  <2>3. ds = Declared(f)
    BY <1>1, <2>1, <2>2
  <2>4. Account(ds, f, 0)
    BY <2>1, <2>3, AccountAtFirst
  <2>5. Account(ds, f, 0)'
    BY <1>1, <2>4, AccountStays
  <2> QED  BY <1>5, <2>2, <2>5
<1>8. FilesFit'
  BY <1>1, FilesStay
<1> QED  BY <1>1, <1>3, <1>6, <1>7, <1>8 DEF PatchInv, Loading, Accounted

LEMMA NextEdit ==
  ASSUME PatchInv, Patching
  PROVE  /\ EditAfter(Done, Head(work)) /\ Done \in Nat /\ Done' = Done + 1
         /\ WorkIsRest' /\ FilesFit' /\ (DocumentsFit' <=> DocumentsFit)
         /\ files' = files /\ resolver' = resolver /\ pc' = "patching" /\ pc = "patching"
         /\ FilesFit /\ DeclsTyped /\ Accounted
<1>1. /\ files' = files /\ resolver' = resolver /\ pc' = "patching" /\ pc = "patching"
      /\ work # << >> /\ work' = Tail(work)
  BY DEF Patching, vars
<1>2. FilesFit /\ DeclsTyped /\ WorkIsRest /\ Accounted
  BY <1>1 DEF PatchInv, Loading
<1>3. FilesFit' /\ AllEdits' = AllEdits /\ (DocumentsFit' <=> DocumentsFit)
  BY <1>1, <1>2, FilesStay
<1>4. AllEdits \in Seq(EditSet) /\ Len(AllEdits) \in Nat /\ DOMAIN AllEdits = 1 .. Len(AllEdits)
  BY <1>2, AllEditsAre, LenProperties DEF EditLists
<1>5. /\ work \in Seq(EditSet) /\ Len(work) \in Nat \ {0} /\ Head(work) = work[1]
      /\ Tail(work) \in Seq(EditSet) /\ Len(Tail(work)) = Len(work) - 1
      /\ \A i \in 1 .. Len(work) - 1 : Tail(work)[i] = work[i + 1]
  BY <1>1, <1>2, HeadTailProperties, EmptySeq, LenProperties DEF WorkIsRest
<1>6. Done \in Nat /\ Done' = Done + 1 /\ Done + 1 \in 1 .. Len(AllEdits)
  BY <1>1, <1>2, <1>3, <1>4, <1>5 DEF Done, WorkIsRest
<1>7. EditAfter(Done, Head(work))
  <2>1. work[1] = AllEdits[Done + 1]
    BY <1>2, <1>5 DEF WorkIsRest
  <2> QED  BY <1>4, <1>5, <1>6, <2>1 DEF EditAfter
<1>8. WorkIsRest'
  <2>1. ASSUME NEW i \in 1 .. Len(Tail(work)) PROVE Tail(work)[i] = AllEdits[(Done + 1) + i]
    <3>1. i + 1 \in 1 .. Len(work) /\ i \in 1 .. Len(work) - 1 /\ Done + (i + 1) = (Done + 1) + i
      BY <1>5, <1>6
    <3>2. Tail(work)[i] = AllEdits[Done + (i + 1)]
      BY <1>2, <1>5, <3>1 DEF WorkIsRest
    <3> QED  BY <3>1, <3>2
  <2>2. Len(Tail(work)) <= Len(AllEdits)
    BY <1>2, <1>4, <1>5 DEF WorkIsRest
  <2> QED  BY <1>1, <1>3, <1>5, <1>6, <2>1, <2>2 DEF WorkIsRest
<1> QED  BY <1>1, <1>2, <1>3, <1>6, <1>7, <1>8

LEMMA EditKeeps ==
  ASSUME PatchInv, Patching, decls' \in Seq(Seq(Declaration)), DOMAIN decls' = DOMAIN decls,
         DocumentsFit => \A f \in DOMAIN files : Account(decls'[f], f, Done + 1)
  PROVE  PatchInv'
<1>1. /\ Done' = Done + 1 /\ WorkIsRest' /\ FilesFit' /\ (DocumentsFit' <=> DocumentsFit)
      /\ files' = files /\ resolver' = resolver /\ pc' = "patching" /\ DeclsTyped
  BY NextEdit
<1>2. ASSUME DocumentsFit', NEW f \in DOMAIN files' PROVE Account(decls[f], f, Done)'
  <2>1. PICK ds, k : ds = decls'[f] /\ k = Done + 1
    OBVIOUS
  <2>2. Account(ds, f, k)
    BY <1>1, <1>2, <2>1
  <2>3. Account(ds, f, k)'
    BY <1>1, <2>2, AccountStays
  <2> QED  BY <1>1, <2>1, <2>3
<1>3. DeclsTyped'
  BY <1>1 DEF DeclsTyped
<1> QED  BY <1>1, <1>2, <1>3 DEF PatchInv, Loading, Accounted

LEMMA PassOverKeeps ==
  PatchInv /\ PassOver => PatchInv'
<1> SUFFICES ASSUME PatchInv, PassOver PROVE PatchInv'
  OBVIOUS
<1> PICK e, k : e = Head(work) /\ k = Done
  OBVIOUS
<1>1. Patching /\ decls' = decls
      /\ \A t \in TargetsOfEdit(e) :
           /\ e.op = "redefine"
           /\ \A i \in DOMAIN decls[t] : ~ Declares(decls[t][i], e.kind, e.name)
  BY DEF PassOver
<1>2. FilesFit /\ EditAfter(k, e) /\ DeclsTyped /\ Accounted
  BY <1>1, NextEdit
<1>3. ASSUME DocumentsFit, NEW f \in DOMAIN files PROVE Account(decls'[f], f, k + 1)
  <2>1. PICK ds : ds = decls[f]
    OBVIOUS
  <2>2. Account(ds, f, k)
    BY <1>2, <1>3, <2>1 DEF Accounted
  <2>3. CASE f \notin TargetsOfEdit(e)
    BY <1>1, <1>2, <2>1, <2>2, <2>3, AccountElsewhere
  <2>4. CASE f \in TargetsOfEdit(e)
    <3>1. e.op = "redefine" /\ \A x \in Range(ds) : ~ Declares(x, e.kind, e.name)
      BY <1>1, <2>1, <2>4 DEF Range
    <3> QED  BY <1>1, <1>2, <1>3, <2>1, <2>2, <2>4, <3>1, AccountPassed
  <2> QED  BY <2>3, <2>4
<1> QED  BY <1>1, <1>2, <1>3, EditKeeps DEF DeclsTyped

(* One list of several is changed.                                             *)
LEMMA OneChanged ==
  ASSUME NEW S, NEW ss \in Seq(S), NEW t \in DOMAIN ss, NEW s \in S
  PROVE  /\ [ss EXCEPT ![t] = s] \in Seq(S)
         /\ DOMAIN [ss EXCEPT ![t] = s] = DOMAIN ss
         /\ [ss EXCEPT ![t] = s][t] = s
         /\ \A f \in DOMAIN ss \ {t} : [ss EXCEPT ![t] = s][f] = ss[f]
<1>1. Len(ss) \in Nat /\ ss \in [1 .. Len(ss) -> S] /\ DOMAIN ss = 1 .. Len(ss)
  BY LenProperties
<1>2. [ss EXCEPT ![t] = s] \in [1 .. Len(ss) -> S]
  BY <1>1
<1> QED  BY <1>1, <1>2

LEMMA ListOf ==
  ASSUME DeclsTyped, NEW f \in DOMAIN decls
  PROVE  decls[f] \in Seq(Declaration) /\ f \in DOMAIN files
<1> PICK D : D = Seq(Declaration)
  OBVIOUS
<1>1. decls \in Seq(D) /\ f \in 1 .. Len(decls) /\ DOMAIN decls = DOMAIN files
  BY LenProperties DEF DeclsTyped
<1>2. decls[f] \in D
  BY ONLY <1>1, ElementOfSeq
<1> QED  BY <1>1, <1>2

LEMMA RemovalKeeps ==
  PatchInv /\ RemoveDeclarations => PatchInv'
<1> SUFFICES ASSUME PatchInv, RemoveDeclarations PROVE PatchInv'
  OBVIOUS
<1> PICK e, k : e = Head(work) /\ k = Done
  OBVIOUS
<1>1. Patching /\ e.op = "remove"
      /\ \E t \in TargetsOfEdit(e) :
           decls' = [decls EXCEPT ![t] = WithoutDeclarations(decls[t], e.kind, e.name)]
  BY DEF RemoveDeclarations
<1>2. FilesFit /\ EditAfter(k, e) /\ DeclsTyped /\ Accounted
  BY <1>1, NextEdit
<1>3. PICK t \in TargetsOfEdit(e) :
        decls' = [decls EXCEPT ![t] = WithoutDeclarations(decls[t], e.kind, e.name)]
  BY <1>1
<1>4. PICK old, new : old = decls[t] /\ new = WithoutDeclarations(old, e.kind, e.name)
  OBVIOUS
<1>5. t \in DOMAIN files /\ t \in DOMAIN decls /\ old \in Seq(Declaration)
  BY <1>2, <1>3, <1>4, OneTarget, ListOf DEF DeclsTyped
<1>6. new \in Seq(Declaration)
  BY <1>4, <1>5, RangeOfWithout
<1>7. /\ decls' \in Seq(Seq(Declaration)) /\ DOMAIN decls' = DOMAIN decls
      /\ decls'[t] = new /\ \A f \in DOMAIN decls \ {t} : decls'[f] = decls[f]
  <2> PICK D : D = Seq(Declaration)
    OBVIOUS
  <2>1. decls \in Seq(D) /\ new \in D /\ decls' = [decls EXCEPT ![t] = new]
    BY <1>2, <1>3, <1>4, <1>6 DEF DeclsTyped
  <2> QED  BY <1>5, <2>1, OneChanged
<1>8. ASSUME DocumentsFit, NEW f \in DOMAIN files PROVE Account(decls'[f], f, k + 1)
  <2>1. PICK ds : ds = decls[f]
    OBVIOUS
  <2>2. Account(ds, f, k) /\ f \in DOMAIN decls
    BY <1>2, <1>8, <2>1 DEF Accounted, DeclsTyped
  <2>3. CASE f # t
    <3>1. f \notin TargetsOfEdit(e)
      BY <1>2, <1>3, <2>3, OneTarget
    <3> QED  BY <1>2, <1>7, <2>1, <2>2, <2>3, <3>1, AccountElsewhere
  <2>4. CASE f = t
    <3>1. Account(new, f, k + 1)
      BY <1>1, <1>2, <1>3, <1>4, <1>5, <1>8, <2>1, <2>2, <2>4, AccountRemoved
    <3> QED  BY <1>7, <2>4, <3>1
  <2> QED  BY <2>3, <2>4
<1> QED  BY <1>1, <1>7, <1>8, EditKeeps

(* A redefine changes the list that it renames in, and then that of its file. *)
OneList(new, old, f, s) ==
  /\ DOMAIN new = DOMAIN old /\ new[f] = s
  /\ \A g \in DOMAIN old \ {f} : new[g] = old[g]

RenamedIn(renamed, e, t) ==
  /\ t \in DOMAIN decls /\ e.file \in DOMAIN decls
  /\ \E x \in Range(decls[t]) : Declares(x, e.kind, e.name)
  /\ OneList(renamed, decls, t, RenameFirst(decls[t], e.kind, e.name))

LEMMA RedefinitionIs ==
  ASSUME PatchInv, ApplyRedefine, NEW e, e = Head(work), NEW k, k = Done
  PROVE  /\ Patching /\ e.op = "redefine"
         /\ decls' \in Seq(Seq(Declaration))
         /\ \E t \in TargetsOfEdit(e), renamed \in Seq(Seq(Declaration)) :
              /\ RenamedIn(renamed, e, t)
              /\ OneList(decls', renamed, e.file, RewriteSelf(renamed[e.file], e.kind, e.name))
              /\ DocumentsFit => \A f \in DOMAIN files : Account(renamed[f], f, k + 1)
<1>1. Patching /\ e.op = "redefine"
      /\ \E t \in TargetsOfEdit(e) :
           /\ \E i \in DOMAIN decls[t] : Declares(decls[t][i], e.kind, e.name)
           /\ LET renamed == [decls EXCEPT ![t] = RenameFirst(decls[t], e.kind, e.name)]
              IN  decls' = [renamed EXCEPT ![e.file] =
                              RewriteSelf(renamed[e.file], e.kind, e.name)]
  BY DEF ApplyRedefine
<1>2. FilesFit /\ EditAfter(k, e) /\ DeclsTyped /\ Accounted
  BY <1>1, NextEdit
<1>3. PICK t \in TargetsOfEdit(e) :
           /\ \E i \in DOMAIN decls[t] : Declares(decls[t][i], e.kind, e.name)
           /\ LET renamed == [decls EXCEPT ![t] = RenameFirst(decls[t], e.kind, e.name)]
              IN  decls' = [renamed EXCEPT ![e.file] =
                              RewriteSelf(renamed[e.file], e.kind, e.name)]
  BY <1>1
<1>4. PICK old, new, renamed : /\ old = decls[t] /\ new = RenameFirst(old, e.kind, e.name)
                               /\ renamed = [decls EXCEPT ![t] = new]
  OBVIOUS
<1>5. t \in DOMAIN files /\ t \in DOMAIN decls /\ old \in Seq(Declaration)
  BY <1>2, <1>3, <1>4, OneTarget, ListOf DEF DeclsTyped
<1>6. e.name \in Name /\ e.file \in DOMAIN decls
  BY <1>2, EditParts DEF EditSet, IsAsked, DeclsTyped
<1>7. PICK last, own : own = renamed[e.file] /\ last = RewriteSelf(own, e.kind, e.name)
  OBVIOUS
<1>8. (\E x \in Range(old) : Declares(x, e.kind, e.name)) /\ new \in Seq(Declaration)
  BY <1>3, <1>4, <1>5, <1>6, RenameFirstIs DEF Range
<1>9. /\ renamed \in Seq(Seq(Declaration)) /\ DOMAIN renamed = DOMAIN decls
      /\ renamed[t] = new /\ \A f \in DOMAIN decls \ {t} : renamed[f] = decls[f]
  <2> PICK D : D = Seq(Declaration)
    OBVIOUS
  <2>1. decls \in Seq(D) /\ new \in D
    BY <1>2, <1>8 DEF DeclsTyped
  <2> QED  BY <1>4, <1>5, <2>1, OneChanged
<1>10. own \in Seq(Declaration) /\ last \in Seq(Declaration)
  <2>1. own \in Seq(Declaration)
    BY <1>2, <1>6, <1>7, <1>8, <1>9, ListOf
  <2> QED  BY <1>6, <1>7, <2>1, RewrittenParts
<1>11. /\ decls' \in Seq(Seq(Declaration)) /\ DOMAIN decls' = DOMAIN decls
       /\ decls'[e.file] = last /\ \A f \in DOMAIN decls \ {e.file} : decls'[f] = renamed[f]
  <2> PICK D : D = Seq(Declaration)
    OBVIOUS
  <2>1. renamed \in Seq(D) /\ last \in D /\ decls' = [renamed EXCEPT ![e.file] = last]
    BY <1>3, <1>4, <1>7, <1>9, <1>10
  <2> QED  BY <1>6, <1>9, <2>1, OneChanged
<1>12. ASSUME DocumentsFit, NEW f \in DOMAIN files
       PROVE  f \in DOMAIN decls /\ Account(renamed[f], f, k + 1)
  <2>1. PICK ds : ds = decls[f]
    OBVIOUS
  <2>2. Account(ds, f, k) /\ f \in DOMAIN decls
    BY <1>2, <1>12, <2>1 DEF Accounted, DeclsTyped
  <2>3. CASE f # t
    <3>1. f \notin TargetsOfEdit(e)
      BY <1>2, <1>3, <2>3, OneTarget
    <3> QED  BY <1>2, <1>9, <2>1, <2>2, <2>3, <3>1, AccountElsewhere
  <2>4. CASE f = t
    <3>1. Account(new, f, k + 1)
      BY <1>1, <1>2, <1>3, <1>4, <1>5, <1>8, <1>12, <2>1, <2>2, <2>4, AccountRenamed
    <3> QED  BY <1>9, <2>2, <2>4, <3>1
  <2> QED  BY <2>3, <2>4
<1> QED
  BY <1>1, <1>3, <1>4, <1>5, <1>6, <1>7, <1>8, <1>9, <1>11, <1>12 DEF RenamedIn, OneList

LEMMA RedefinitionKeeps ==
  PatchInv /\ ApplyRedefine => PatchInv'
<1> SUFFICES ASSUME PatchInv, ApplyRedefine PROVE PatchInv'
  OBVIOUS
<1> PICK e, k : e = Head(work) /\ k = Done
  OBVIOUS
<1>1. Patching /\ decls' \in Seq(Seq(Declaration))
  BY RedefinitionIs
<1>2. PICK t \in TargetsOfEdit(e), renamed \in Seq(Seq(Declaration)) :
        /\ RenamedIn(renamed, e, t)
        /\ OneList(decls', renamed, e.file, RewriteSelf(renamed[e.file], e.kind, e.name))
        /\ DocumentsFit => \A f \in DOMAIN files : Account(renamed[f], f, k + 1)
  BY RedefinitionIs
<1>3. FilesFit /\ EditAfter(k, e) /\ DeclsTyped
  BY <1>1, NextEdit
<1>4. DOMAIN renamed = DOMAIN decls /\ DOMAIN decls' = DOMAIN decls /\ e.file \in DOMAIN decls
  BY <1>2 DEF RenamedIn, OneList
<1>5. ASSUME DocumentsFit, NEW f \in DOMAIN files PROVE Account(decls'[f], f, k + 1)
  <2>1. PICK ds : ds = renamed[f]
    OBVIOUS
  <2>2. Account(ds, f, k + 1) /\ f \in DOMAIN decls
    BY <1>2, <1>3, <1>5, <2>1 DEF DeclsTyped
  <2>3. CASE f # e.file
    BY <1>2, <1>4, <2>1, <2>2, <2>3 DEF OneList
  <2>4. CASE f = e.file
    <3>1. ds \in Seq(Declaration)
      <4> PICK D : D = Seq(Declaration)
        OBVIOUS
      <4>1. renamed \in Seq(D) /\ f \in 1 .. Len(renamed)
        BY <1>2, <1>4, <2>2, LenProperties
      <4>2. renamed[f] \in D
        BY ONLY <4>1, ElementOfSeq
      <4> QED  BY <2>1, <4>2
    <3>2. e.name \in Name
      BY <1>3, EditParts DEF EditSet
    <3>3. Account(RewriteSelf(ds, e.kind, e.name), f, k + 1)
      BY <2>2, <3>1, <3>2, AccountRewritten
    <3> QED  BY <1>2, <2>1, <2>4, <3>3 DEF OneList
  <2> QED  BY <2>3, <2>4
<1> QED  BY <1>1, <1>4, <1>5, EditKeeps

LEMMA PatchStep ==
  PatchInv /\ [PatchNext]_<<vars, patchVars>> => PatchInv'
<1> SUFFICES ASSUME PatchInv, [PatchNext]_<<vars, patchVars>> PROVE PatchInv'
  OBVIOUS
<1>1. CASE Load
  <2>1. Next /\ decls' = decls /\ work' = work
    BY <1>1 DEF Load, patchVars
  <2>2. pc \in {"catalogs", "files"}
    BY <2>1 DEF Next, LoadCatalogs, FailCatalogs, SkipSeen, ParseFile, FailParse, Enqueue,
                Drained, TakesFromQueue
  <2>3. TypeOK /\ SeenFirst /\ ParsedOnce /\ decls = << >> /\ work = << >>
    BY <2>2 DEF PatchInv, Loading, FilesFit
  <2>4. TypeOK' /\ SeenFirst' /\ ParsedOnce'
    BY <2>1, <2>3, TypeStep, OnceStep
  <2> QED  BY <2>1, <2>3, <2>4 DEF PatchInv, Loading, FilesFit, TypeOK
<1>2. CASE StartPatches
  BY <1>2, PatchesStart
<1>3. CASE PassOver
  BY <1>3, PassOverKeeps
<1>4. CASE RemoveDeclarations
  BY <1>4, RemovalKeeps
<1>5. CASE ApplyRedefine
  BY <1>5, RedefinitionKeeps
<1>6. CASE FinishPatches \/ UNCHANGED <<vars, patchVars>>
  <2>1. /\ files' = files /\ resolver' = resolver /\ decls' = decls /\ work' = work
        /\ \/ pc = "patching" /\ work = << >> /\ pc' = "done"
           \/ UNCHANGED vars
    BY <1>6 DEF FinishPatches, patchVars, vars
  <2>2. /\ FilesFit' <=> FilesFit
        /\ AllEdits' = AllEdits /\ Done' = Done
        /\ DocumentsFit' <=> DocumentsFit
    BY <2>1, FilesStay DEF Done
  <2>3. ASSUME ~ Loading PROVE DeclsTyped' /\ WorkIsRest' /\ Accounted'
    <3>1. DeclsTyped /\ WorkIsRest /\ Accounted
      BY <2>3 DEF PatchInv
    <3>2. DeclsTyped'
      BY <2>1, <3>1 DEF DeclsTyped
    <3>3. WorkIsRest'
      BY <2>1, <2>2, <3>1 DEF WorkIsRest, vars
    <3>4. ASSUME DocumentsFit', NEW f \in DOMAIN files' PROVE Account(decls[f], f, Done)'
      <4>1. PICK ds, k : ds = decls[f] /\ k = Done
        OBVIOUS
      <4>2. Account(ds, f, k)
        BY <2>1, <2>2, <3>1, <3>4, <4>1 DEF Accounted
      <4>3. Account(ds, f, k)'
        BY <2>1, <4>2, AccountStays
      <4> QED  BY <2>1, <2>2, <4>1, <4>3
    <3> QED  BY <3>2, <3>3, <3>4 DEF Accounted
  <2>4. Loading' => Loading /\ UNCHANGED vars
    BY <2>1 DEF Loading, vars
  <2>5. ASSUME Loading' PROVE (TypeOK /\ SeenFirst /\ decls = << >> /\ work = << >>)'
    BY <2>1, <2>4, <2>5 DEF PatchInv, TypeOK, SeenFirst, FileKeys, vars
  <2>6. ~ Loading' => ~ Loading
    BY <2>1 DEF Loading, vars
  <2> QED  BY <2>1, <2>2, <2>3, <2>5, <2>6 DEF PatchInv, vars
<1> QED  BY <1>1, <1>2, <1>3, <1>4, <1>5, <1>6 DEF PatchNext

LEMMA PatchInvHolds == PatchSpec => []PatchInv
<1>1. PatchInit => PatchInv
  <2> SUFFICES ASSUME PatchInit PROVE PatchInv
    OBVIOUS
  <2>1. TypeOK /\ SeenFirst /\ ParsedOnce /\ pc = "catalogs"
    BY InputAssumption, EmptySeq DEF PatchInit, Init, TypeOK, SeenFirst, ParsedOnce, FileKeys
  <2> QED  BY <2>1 DEF PatchInit, PatchInv, Loading, FilesFit, TypeOK
<1> QED  BY <1>1, PatchStep, PTL DEF PatchSpec

-----------------------------------------------------------------------------
(* What the patches leave.                                                     *)
Redefined(d, f) == \E e \in Redefinitions : Hits(e, d, f)

Overridden(d, f) == \E e \in Overridings \cup Replacements : Hits(e, d, f)

LEMMA InTheEnd ==
  ASSUME PatchInv, pc = "done", DocumentsFit
  PROVE  /\ FilesFit /\ DeclsTyped /\ WorkIsRest
         /\ \A f \in DOMAIN files : /\ f \in DOMAIN decls
                                    /\ Account(decls[f], f, Done)
         /\ \A f, d : /\ RenamedBy(d, f, Done) <=> Redefined(d, f)
                      /\ RemovedBy(d, f, Done) <=> Overridden(d, f)
<1>1. FilesFit /\ DeclsTyped /\ WorkIsRest /\ Accounted /\ work = << >>
  BY DEF PatchInv, Loading, WorkIsRest
<1>2. AllEdits \in Seq(EditSet) /\ Len(AllEdits) \in Nat /\ DOMAIN AllEdits = 1 .. Len(AllEdits)
  BY <1>1, AllEditsAre, LenProperties DEF EditLists
<1>3. 1 .. Done = DOMAIN AllEdits
  BY <1>1, <1>2, EmptySeq DEF Done
<1>4. ASSUME NEW e \in Overridings \cup Replacements \cup Redefinitions
      PROVE  \E p \in 1 .. Done : AllEdits[p] = e
  BY <1>1, <1>3, AllEditsAre DEF Range
<1>5. ASSUME NEW f, NEW d PROVE RenamedBy(d, f, Done) <=> Redefined(d, f)
  <2>1. ASSUME RenamedBy(d, f, Done) PROVE Redefined(d, f)
    <3>1. PICK p \in DOMAIN AllEdits : AllEdits[p].op = "redefine" /\ Hits(AllEdits[p], d, f)
      BY <1>3, <2>1 DEF RenamedBy
    <3> QED  BY <1>1, <3>1, EditsAreAsked DEF AsksFor, Redefined
  <2>2. ASSUME NEW e \in Redefinitions, Hits(e, d, f) PROVE RenamedBy(d, f, Done)
    <3>1. e.op = "redefine"
      BY <1>1, PatchesAreAsked
    <3> QED  BY <1>4, <2>2, <3>1 DEF RenamedBy
  <2> QED  BY <2>1, <2>2 DEF Redefined
<1>6. ASSUME NEW f, NEW d, RemovedBy(d, f, Done) PROVE Overridden(d, f)
  <2>1. PICK q \in DOMAIN AllEdits : AllEdits[q].op = "remove" /\ Hits(AllEdits[q], d, f)
    BY <1>3, <1>6 DEF RemovedBy, RemovalHits
  <2>2. CASE AllEdits[q] \in Overridings \cup Replacements
    BY <2>1, <2>2 DEF Overridden
  <2>3. ASSUME NEW r \in 1 .. q - 1, AllEdits[r].op = "redefine", SamePatch(AllEdits[r], AllEdits[q])
        PROVE  FALSE
    <3>1. r \in 1 .. Done
      <4>1. r \in 1 .. Len(AllEdits)
        BY <1>2
      <4> QED  BY <1>2, <1>3, <4>1
    <3>2. Hits(AllEdits[r], d, f)
      BY <2>1, <2>3 DEF Hits, SamePatch, Declares, TargetsOfEdit
    <3> QED  BY <1>6, <2>3, <3>1, <3>2 DEF RemovedBy, RenamedBy
  <2> QED  BY <1>1, <2>1, <2>2, <2>3, EditsAreAsked DEF AsksFor
<1>7. ASSUME NEW f, NEW d, NEW e \in Overridings \cup Replacements, Hits(e, d, f)
      PROVE  RemovedBy(d, f, Done)
  <2>1. e.op = "remove"
    BY <1>1, PatchesAreAsked
  <2>2. RemovalHits(d, f, Done)
    BY <1>4, <1>7, <2>1 DEF RemovalHits
  <2>3. ASSUME NEW r \in Redefinitions, Hits(r, d, f) PROVE FALSE
    <3>1. SameName(e, r)
      BY <1>7, <2>3 DEF Hits, Declares, SameName
    <3>2. e \notin Overridings
      BY <1>7, <2>3, <3>1 DEF DocumentsFit, PatchesApart, Hits
    <3>3. e \in Replacements
      BY <1>7, <3>2
    <3>4. e.kind \notin RedefinableKinds /\ r.kind \in RedefinableKinds
      BY <1>1, <3>3, PatchesAreAsked
    <3> QED  BY <3>1, <3>4 DEF SameName
  <2> QED  BY <1>5, <2>2, <2>3 DEF RemovedBy, Redefined
<1>8. \A f \in DOMAIN files : f \in DOMAIN decls /\ Account(decls[f], f, Done)
  BY <1>1 DEF Accounted, DeclsTyped
<1> QED  BY <1>1, <1>5, <1>6, <1>7, <1>8 DEF Overridden

(* A declaration is among the declarations of its own file or of none.        *)
LEMMA OnlyInItsFile ==
  ASSUME PatchInv, pc = "done", DocumentsFit,
         NEW f \in DOMAIN files, NEW d \in Range(Declared(f)),
         NEW g \in DOMAIN decls, NEW x \in Range(decls[g]), x.id = d.id
  PROVE  g = f /\ g \in DOMAIN files /\ From(x, d, f, Done)
<1>1. g \in DOMAIN files
  BY InTheEnd DEF DeclsTyped
<1>2. PICK ds, k : ds = decls[g] /\ k = Done
  OBVIOUS
<1>3. Account(ds, g, k)
  BY <1>1, <1>2, InTheEnd
<1>4. PICK o \in Range(Declared(g)) : From(x, o, g, k)
  BY <1>2, <1>3 DEF Account
<1>5. g = f /\ o = d
  BY <1>1, <1>4, DeclaredApart DEF From
<1> QED  BY <1>1, <1>2, <1>4, <1>5

LEMMA OverriddenIsReplaced ==
  ASSUME FilesFit, NEW d, NEW f
  PROVE  Overridden(d, f) <=> Replaced(d, f)
<1>1. ASSUME NEW g \in DOMAIN files, NEW ref, NEW kinds,
             NEW e \in EditsFor("remove", g, ref, kinds), Hits(e, d, f)
      PROVE  \E c \in Range(ref.body) : /\ c.kind \in kinds /\ Declares(d, c.kind, c.name)
                                        /\ f \in TargetsOfEdit(Edit("remove", g, ref, c))
  BY <1>1 DEF EditsFor, Hits, Edit
<1>2. ASSUME NEW g \in DOMAIN files, NEW ref, NEW kinds,
             NEW c \in Range(ref.body), c.kind \in kinds, Declares(d, c.kind, c.name),
             f \in TargetsOfEdit(Edit("remove", g, ref, c))
      PROVE  \E e \in EditsFor("remove", g, ref, kinds) : Hits(e, d, f)
  BY <1>2 DEF EditsFor, Hits, Edit
<1>3. ASSUME NEW g \in DOMAIN files,
             NEW ref \in Range(files[g].doc.overrides) \cup Range(files[g].doc.redefines),
             NEW c \in Range(ref.body)
      PROVE  c.kind \in Kind
  <2>1. ref.body \in Seq(Declaration)
    BY FileParts, ReferenceParts
  <2>2. c \in Declaration
    BY <2>1, LenProperties, ElementOfSeq DEF Range
  <2> QED  BY <2>2 DEF Declaration
<1> PICK others : others = Kind \ RedefinableKinds
  OBVIOUS
<1>4. ASSUME Overridden(d, f) PROVE Replaced(d, f)
  <2>1. PICK e \in Overridings \cup Replacements : Hits(e, d, f)
    BY <1>4 DEF Overridden
  <2>2. CASE e \in Overridings
    <3>1. PICK g \in DOMAIN files : \E ref \in Range(files[g].doc.overrides) :
                                      e \in EditsFor("remove", g, ref, Kind)
      BY <2>2 DEF Overridings
    <3> QED  BY <1>1, <2>1, <3>1 DEF Replaced
  <2>3. CASE e \in Replacements
    <3>1. PICK g \in DOMAIN files : \E ref \in Range(files[g].doc.redefines) :
                                      e \in EditsFor("remove", g, ref, others)
      BY <2>3 DEF Replacements
    <3>2. PICK ref \in Range(files[g].doc.redefines) : e \in EditsFor("remove", g, ref, others)
      BY <3>1
    <3>3. PICK c \in Range(ref.body) : /\ c.kind \in others /\ Declares(d, c.kind, c.name)
                                       /\ f \in TargetsOfEdit(Edit("remove", g, ref, c))
      BY <1>1, <2>1, <3>2
    <3>4. c.kind \notin RedefinableKinds
      BY <3>3
    <3> QED  BY <3>2, <3>3, <3>4 DEF Replaced
  <2> QED  BY <2>1, <2>2, <2>3
<1>5. ASSUME NEW g \in DOMAIN files, NEW ref \in Range(files[g].doc.overrides),
             NEW c \in Range(ref.body), Declares(d, c.kind, c.name),
             f \in TargetsOfEdit(Edit("remove", g, ref, c))
      PROVE  Overridden(d, f)
  <2>1. PICK e \in EditsFor("remove", g, ref, Kind) : Hits(e, d, f)
    BY <1>2, <1>3, <1>5
  <2>2. e \in Overridings
    BY <2>1 DEF Overridings
  <2> QED  BY <2>1, <2>2 DEF Overridden
<1>6. ASSUME NEW g \in DOMAIN files, NEW ref \in Range(files[g].doc.redefines),
             NEW c \in Range(ref.body), c.kind \notin RedefinableKinds,
             Declares(d, c.kind, c.name), f \in TargetsOfEdit(Edit("remove", g, ref, c))
      PROVE  Overridden(d, f)
  <2>1. c.kind \in others
    BY <1>3, <1>6
  <2>2. PICK e \in EditsFor("remove", g, ref, others) : Hits(e, d, f)
    BY <1>2, <1>6, <2>1
  <2>3. e \in Replacements
    BY <2>2 DEF Replacements
  <2> QED  BY <2>2, <2>3 DEF Overridden
<1> QED  BY <1>4, <1>5, <1>6 DEF Replaced

(* Only what an override names, or the redefinition of an element or an      *)
(* attribute, disappears (NothingElseLost): a redefined type or group is     *)
(* renamed.                                                                    *)
THEOREM PatchesLoseNothingElse == PatchSpec => [](DocumentsFit => NothingElseLost)
<1>1. ASSUME PatchInv, pc = "done", DocumentsFit,
             NEW f \in DOMAIN files, NEW d \in Range(Declared(f))
      PROVE  (\E e \in Declarations : e.id = d.id) <=> ~ Replaced(d, f)
  <2>1. PICK ds, k : ds = decls[f] /\ k = Done
    OBVIOUS
  <2>2. FilesFit /\ f \in DOMAIN decls /\ Account(ds, f, k)
    BY <1>1, <2>1, InTheEnd
  <2>3. Listed(d, ds) <=> ~ Replaced(d, f)
    <3>1. Listed(d, ds) <=> ~ RemovedBy(d, f, k)
      BY <1>1, <2>2 DEF Account
    <3>2. RemovedBy(d, f, k) <=> Overridden(d, f)
      BY <1>1, <2>1, InTheEnd
    <3> QED  BY <2>2, <3>1, <3>2, OverriddenIsReplaced
  <2>4. ASSUME NEW e \in Declarations, e.id = d.id PROVE Listed(d, ds)
    <3>1. PICK g \in DOMAIN decls : e \in Range(decls[g])
      BY DEF Declarations, Range
    <3>2. g = f
      BY <1>1, <2>4, <3>1, OnlyInItsFile
    <3> QED  BY <2>1, <2>4, <3>1, <3>2 DEF Listed
  <2>5. ASSUME Listed(d, ds) PROVE \E e \in Declarations : e.id = d.id
    <3>1. PICK e \in Range(decls[f]) : e.id = d.id
      BY <2>1, <2>5 DEF Listed
    <3>2. e \in Declarations
      BY <2>2, <3>1 DEF Declarations, Range
    <3> QED  BY <3>1, <3>2
  <2> QED  BY <2>3, <2>4, <2>5
<1>2. PatchInv => (DocumentsFit => NothingElseLost)
  BY <1>1 DEF NothingElseLost, Declared
<1> QED  BY <1>2, PatchInvHolds, PTL

(* The patches keep their types, whatever the documents.                       *)
LEMMA PatchInvTypes == PatchInv => PatchTypeOK
<1> SUFFICES ASSUME PatchInv PROVE PatchTypeOK
  OBVIOUS
<1>1. CASE Loading
  <2>1. decls = << >> /\ work = << >>
    BY <1>1 DEF PatchInv
  <2> QED  BY <1>1, <2>1, EmptySeq DEF PatchInv, PatchTypeOK, Loading, Range
<1>2. CASE ~ Loading
  <2>1. FilesFit /\ DeclsTyped /\ WorkIsRest /\ pc \in {"patching", "done"}
    BY <1>2 DEF PatchInv, Loading
  <2>2. \A f \in DOMAIN decls : decls[f] \in Seq(Declaration)
    BY <2>1, ListOf
  <2>3. Len(decls) = Len(files)
    BY <2>1, LenProperties DEF DeclsTyped, FilesFit
  <2>4. ASSUME NEW e \in Range(work) PROVE e.file \in DOMAIN files /\ e.op \in {"remove", "redefine"}
    <3>1. AllEdits \in Seq(EditSet) /\ Len(AllEdits) \in Nat /\ DOMAIN AllEdits = 1 .. Len(AllEdits)
      BY <2>1, AllEditsAre, LenProperties DEF EditLists
    <3>2. Len(work) \in Nat /\ DOMAIN work = 1 .. Len(work) /\ Len(work) <= Len(AllEdits)
      BY <2>1, LenProperties DEF WorkIsRest
    <3>3. PICK i \in 1 .. Len(work) : e = work[i]
      BY <3>2 DEF Range
    <3>4. e = AllEdits[Done + i] /\ Done + i \in DOMAIN AllEdits
      BY <2>1, <3>1, <3>2, <3>3 DEF WorkIsRest, Done
    <3>5. e \in EditSet /\ IsAsked(e)
      BY <2>1, <3>4, EditsAreAsked
    <3> QED  BY <3>5 DEF EditSet, IsAsked
  <2> QED  BY <2>1, <2>2, <2>3, <2>4 DEF PatchTypeOK
<1> QED  BY <1>1, <1>2

THEOREM PatchesTypeCorrect == PatchSpec => []PatchTypeOK
BY PatchInvHolds, PatchInvTypes, PTL

(* Where two files declare one name, a patch settles which of them keeps it.  *)
PatchesSettle ==
  \A f, g \in DOMAIN files : \A d \in Range(Declared(f)), e \in Range(Declared(g)) :
    f # g /\ SameName(d, e) =>
      /\ Overridden(d, f) \/ Redefined(d, f) \/ Overridden(e, g) \/ Redefined(e, g)
      /\ ~ (Redefined(d, f) /\ Redefined(e, g))

(* What is listed in the end, and what it was.                                 *)
LEMMA ListedInTheEnd ==
  ASSUME PatchInv, pc = "done", DocumentsFit,
         NEW f \in DOMAIN decls, NEW x \in Range(decls[f])
  PROVE  /\ f \in DOMAIN files /\ OneEach(decls[f])
         /\ \E d \in Range(Declared(f)) :
              /\ x.id = d.id /\ x.kind = d.kind
              /\ ~ (Overridden(d, f) /\ ~ Redefined(d, f))
              /\ x.name = IF Redefined(d, f) THEN RedefinedBase(d.name) ELSE d.name
<1>1. f \in DOMAIN files
  BY InTheEnd DEF DeclsTyped
<1>2. PICK ds, k : ds = decls[f] /\ k = Done
  OBVIOUS
<1>3. Account(ds, f, k)
  BY <1>1, <1>2, InTheEnd
<1>4. OneEach(ds) /\ \E d \in Range(Declared(f)) : From(x, d, f, k)
  BY <1>2, <1>3 DEF Account, OneEach
<1>5. PICK d \in Range(Declared(f)) : From(x, d, f, k)
  BY <1>4
<1>6. ~ RemovedBy(d, f, k)
  BY <1>2, <1>3, <1>5 DEF Account, From, Listed
<1>7. /\ RenamedBy(d, f, k) <=> Redefined(d, f)
      /\ RemovedBy(d, f, k) <=> Overridden(d, f)
  BY <1>2, InTheEnd
<1>8. x.name = IF Redefined(d, f) THEN RedefinedBase(d.name) ELSE d.name
  BY <1>5, <1>7 DEF From, NameNow
<1> QED  BY <1>1, <1>2, <1>4, <1>5, <1>6, <1>7, <1>8 DEF From

LEMMA RedefinedNamesFree ==
  ASSUME FilesFit, DocumentsFit, NEW f \in DOMAIN files, NEW d \in Range(Declared(f)), Redefined(d, f),
         NEW g \in DOMAIN files, NEW e \in Range(Declared(g)), d.kind = e.kind
  PROVE  e.name # RedefinedBase(d.name)
<1>1. PICK r \in Redefinitions : Hits(r, d, f)
  BY DEF Redefined
<1>2. ~ Declares(e, r.kind, RedefinedBase(r.name))
  BY DEF DocumentsFit, BasesAreFree
<1> QED  BY <1>1, <1>2 DEF Hits, Declares

LEMMA DeclaredNames ==
  ASSUME FilesFit, NEW f \in DOMAIN files, NEW d \in Range(Declared(f))
  PROVE  d \in Declaration /\ d.name \in Name
<1>1. PICK ds : ds = Declared(f)
  OBVIOUS
<1>2. ds \in Seq(Declaration)
  BY <1>1, FileParts
<1>3. d \in Declaration
  BY <1>1, <1>2, LenProperties, ElementOfSeq DEF Range
<1> QED  BY <1>3 DEF Declaration

LEMMA BasesDiffer ==
  ASSUME NEW m \in Name, NEW n \in Name, RedefinedBase(m) = RedefinedBase(n)
  PROVE  m = n
<1>1. m[1] = n[1] /\ m[2] + 1 = n[2] + 1 /\ m[2] \in Nat /\ n[2] \in Nat
  BY DEF RedefinedBase, Name
<1>2. m = <<m[1], m[2]>> /\ n = <<n[1], n[2]>>
  BY DEF Name
<1>3. m[2] = n[2]
  BY <1>1
<1> QED  BY <1>1, <1>2, <1>3

(* No two declarations of one kind and name are left.                          *)
LEMMA OneOfAName ==
  ASSUME PatchInv, pc = "done", DocumentsFit, PatchesSettle,
         NEW f \in DOMAIN decls, NEW x \in Range(decls[f]),
         NEW g \in DOMAIN decls, NEW y \in Range(decls[g]),
         SameName(x, y)
  PROVE  f = g /\ x = y
<1>1. FilesFit /\ f \in DOMAIN files /\ g \in DOMAIN files
  BY InTheEnd, ListedInTheEnd
<1>2. PICK d \in Range(Declared(f)) :
         /\ x.id = d.id /\ x.kind = d.kind
         /\ ~ (Overridden(d, f) /\ ~ Redefined(d, f))
         /\ x.name = IF Redefined(d, f) THEN RedefinedBase(d.name) ELSE d.name
  BY ListedInTheEnd
<1>3. PICK e \in Range(Declared(g)) :
         /\ y.id = e.id /\ y.kind = e.kind
         /\ ~ (Overridden(e, g) /\ ~ Redefined(e, g))
         /\ y.name = IF Redefined(e, g) THEN RedefinedBase(e.name) ELSE e.name
  BY ListedInTheEnd
<1>4. d.kind = e.kind
  BY <1>2, <1>3 DEF SameName
<1>5. Redefined(d, f) <=> Redefined(e, g)
  <2>1. Redefined(d, f) => e.name # RedefinedBase(d.name)
    BY <1>1, <1>4, RedefinedNamesFree
  <2>2. Redefined(e, g) => d.name # RedefinedBase(e.name)
    BY <1>1, <1>4, RedefinedNamesFree
  <2> QED  BY <1>2, <1>3, <2>1, <2>2 DEF SameName
<1>6. SameName(d, e)
  <2>1. d.name \in Name /\ e.name \in Name
    BY <1>1, DeclaredNames
  <2>2. Redefined(d, f) => d.name = e.name
    BY <1>2, <1>3, <1>5, <2>1, BasesDiffer DEF SameName
  <2> QED  BY <1>2, <1>3, <1>4, <1>5, <2>2 DEF SameName
<1>7. f = g
  <2> SUFFICES ASSUME f # g PROVE FALSE
    OBVIOUS
  <2>1. /\ Overridden(d, f) \/ Redefined(d, f) \/ Overridden(e, g) \/ Redefined(e, g)
        /\ ~ (Redefined(d, f) /\ Redefined(e, g))
    BY <1>1, <1>6 DEF PatchesSettle
  <2> QED  BY <1>2, <1>3, <1>5, <2>1
<1>8. d = e
  BY <1>1, <1>6, <1>7, DeclaredApart
<1>9. OneEach(decls[f])
  BY ListedInTheEnd
<1> QED  BY <1>2, <1>3, <1>7, <1>8, <1>9 DEF OneEach

(* No two files are left with a declaration of one kind and name, nor is one  *)
(* file with two of them (NamesStayUnique).                                    *)
THEOREM NamesAreLeftUnique == PatchSpec => [](DocumentsFit /\ PatchesSettle => NamesStayUnique)
<1>1. ASSUME PatchInv, pc = "done", DocumentsFit, PatchesSettle,
             NEW f \in DOMAIN decls, NEW g \in DOMAIN decls,
             NEW i \in DOMAIN decls[f], NEW j \in DOMAIN decls[g],
             Declares(decls[f][i], decls[g][j].kind, decls[g][j].name)
      PROVE  f = g /\ i = j
  <2>1. decls[f][i] \in Range(decls[f]) /\ decls[g][j] \in Range(decls[g])
    BY DEF Range
  <2>2. SameName(decls[f][i], decls[g][j])
    BY <1>1 DEF SameName, Declares
  <2>3. f = g /\ decls[f][i] = decls[g][j]
    BY <1>1, <2>1, <2>2, OneOfAName
  <2>4. OneEach(decls[f])
    BY <1>1, <2>1, ListedInTheEnd
  <2> QED  BY <2>3, <2>4 DEF OneEach, Differ
<1>2. PatchInv => (DocumentsFit /\ PatchesSettle => NamesStayUnique)
  BY <1>1, PatchInvTypes DEF NamesStayUnique
<1> QED  BY <1>2, PatchInvHolds, PTL

-----------------------------------------------------------------------------
(* What the declarations derive from.  A declaration of f that f redefines   *)
(* another with, by one of the first k edits, derives from the other.         *)
Finds(e) == \E t \in TargetsOfEdit(e) : \E o \in Range(Declared(t)) : SameName(o, e)

Rederives(e, d, f) ==
  e.op = "redefine" /\ e.file = f /\ SameName(d, e) /\ Finds(e)

Rederived(d, f, k) == \E p \in 1 .. k : Rederives(AllEdits[p], d, f)

RefsNow(d, f, k) ==
  IF Rederived(d, f, k) /\ d.name \in d.refs
  THEN (d.refs \ {d.name}) \cup {RedefinedBase(d.name)}
  ELSE d.refs

(* What is itself redefined keeps its base, if that is another declaration.   *)
Settled(d, f) == Redefined(d, f) => d.name \notin d.refs

Derives(ds, f, k) ==
  \A x \in Range(ds), d \in Range(Declared(f)) :
    x.id = d.id /\ Settled(d, f) => x.refs = RefsNow(d, f, k)

(* A declaration is redefined by one file.                                    *)
OneRedefiner ==
  \A r, s \in Redefinitions :
    SameName(r, s) /\ TargetsOfEdit(r) \cap TargetsOfEdit(s) # {} => r.file = s.file

DerivationsInv ==
  ~ Loading /\ DocumentsFit /\ OneRedefiner =>
    \A f \in DOMAIN files : Derives(decls[f], f, Done)

LEMMA OneMoreRederived ==
  ASSUME NEW k, NEW e, EditAfter(k, e), NEW d, NEW f
  PROVE  /\ Rederived(d, f, k + 1) <=> Rederived(d, f, k) \/ Rederives(e, d, f)
         /\ ~ Rederives(e, d, f) => RefsNow(d, f, k + 1) = RefsNow(d, f, k)
<1>1. \A p : p \in 1 .. k + 1 <=> p \in 1 .. k \/ p = k + 1
  BY DEF EditAfter
<1>2. e = AllEdits[k + 1]
  BY DEF EditAfter
<1>3. Rederived(d, f, k + 1) <=> Rederived(d, f, k) \/ Rederives(e, d, f)
  BY <1>1, <1>2 DEF Rederived
<1> QED  BY <1>3 DEF RefsNow

LEMMA DerivesAtFirst ==
  ASSUME DocumentsFit, NEW f \in DOMAIN files
  PROVE  Derives(Declared(f), f, 0)
<1>1. \A d : RefsNow(d, f, 0) = d.refs
  BY DEF RefsNow, Rederived
<1>2. \A x, d \in Range(Declared(f)) : x.id = d.id => x = d
  BY DeclaredApart
<1> QED  BY <1>1, <1>2 DEF Derives

(* Removing and renaming change no base.                                      *)
LEMMA DerivesWithin ==
  ASSUME NEW ds, NEW f, NEW k, Derives(ds, f, k), NEW new,
         \A y \in Range(new) : \E x \in Range(ds) : x.id = y.id /\ x.refs = y.refs
  PROVE  Derives(new, f, k)
<1> SUFFICES ASSUME NEW y \in Range(new), NEW d \in Range(Declared(f)), y.id = d.id, Settled(d, f)
             PROVE  y.refs = RefsNow(d, f, k)
  BY DEF Derives
<1>1. PICK x \in Range(ds) : x.id = y.id /\ x.refs = y.refs
  OBVIOUS
<1> QED  BY <1>1 DEF Derives

LEMMA DerivesUntouched ==
  ASSUME NEW k, NEW e, EditAfter(k, e), NEW f, NEW ds, Derives(ds, f, k),
         \A d \in Range(Declared(f)) : Rederives(e, d, f) => Rederived(d, f, k)
  PROVE  Derives(ds, f, k + 1)
<1>1. ASSUME NEW d \in Range(Declared(f)) PROVE RefsNow(d, f, k + 1) = RefsNow(d, f, k)
  BY OneMoreRederived DEF RefsNow
<1> QED  BY <1>1 DEF Derives

(* What is passed over found nothing, or is done already.                     *)
LEMMA PassedIsDone ==
  ASSUME FilesFit, DocumentsFit, OneRedefiner, NEW k, NEW e, EditAfter(k, e),
         NEW f, NEW d, Rederives(e, d, f),
         \A t \in DOMAIN files : Account(decls[t], t, k),
         \A t \in TargetsOfEdit(e) : \A x \in Range(decls[t]) : ~ Declares(x, e.kind, e.name)
  PROVE  Rederived(d, f, k)
<1> PICK t \in TargetsOfEdit(e) : \E o \in Range(Declared(t)) : SameName(o, e)
  BY DEF Rederives, Finds
<1>1. PICK o \in Range(Declared(t)) : SameName(o, e)
  OBVIOUS
<1>2. t \in DOMAIN files /\ Hits(e, o, t) /\ e.op = "redefine"
  BY <1>1, OneTarget DEF Hits, SameName, Declares, Rederives
<1>3. PICK ds : ds = decls[t]
  OBVIOUS
<1>4. Account(ds, t, k)
  BY <1>2, <1>3
<1>5. ~ RemovedBy(o, t, k)
  BY <1>2, NotYetRemoved
<1>6. PICK x \in Range(ds) : x.id = o.id
  BY <1>1, <1>4, <1>5 DEF Account, Listed
<1>7. PICK b \in Range(Declared(t)) : From(x, b, t, k)
  BY <1>4, <1>6 DEF Account
<1>8. b = o
  BY <1>1, <1>2, <1>6, <1>7, DeclaredApart DEF From
<1>9. RenamedBy(o, t, k)
  BY <1>1, <1>2, <1>3, <1>6, <1>7, <1>8, NamedIsHit
<1>10. PICK p \in 1 .. k : AllEdits[p].op = "redefine" /\ Hits(AllEdits[p], o, t)
  BY <1>9 DEF RenamedBy
<1>11. AllEdits \in Seq(EditSet)
  BY AllEditsAre DEF EditLists
<1>12. p \in DOMAIN AllEdits /\ k + 1 \in DOMAIN AllEdits /\ e = AllEdits[k + 1]
  BY <1>10, <1>11, LenProperties DEF EditAfter
<1>13. AllEdits[p] \in Redefinitions /\ e \in Redefinitions
  BY <1>2, <1>10, <1>12, EditsAreAsked DEF AsksFor
<1>14. SameName(AllEdits[p], e) /\ SameName(d, AllEdits[p]) /\ SameName(o, AllEdits[p])
  BY <1>1, <1>10 DEF Rederives, Hits, Declares, SameName
<1>15. t \in TargetsOfEdit(AllEdits[p]) \cap TargetsOfEdit(e)
  BY <1>1, <1>10 DEF Hits
<1>16. AllEdits[p].file = f
  BY <1>13, <1>14, <1>15 DEF OneRedefiner, Rederives
<1>17. Rederives(AllEdits[p], d, f)
  BY <1>1, <1>10, <1>14, <1>15, <1>16 DEF Rederives, Finds
<1> QED  BY <1>10, <1>17 DEF Rederived

LEMMA BaseIsOther ==
  ASSUME NEW name \in Name
  PROVE  RedefinedBase(name) # name
<1>1. name[2] \in Nat /\ RedefinedBase(name)[2] = name[2] + 1
  BY DEF RedefinedBase, Name
<1> QED  BY <1>1

(* The file that redefines rewrites the base of what it declares.             *)
LEMMA DerivesRewritten ==
  ASSUME FilesFit, DocumentsFit, NEW k, NEW e, EditAfter(k, e), e.op = "redefine", Finds(e),
         NEW f \in DOMAIN files, e.file = f, NEW ds \in Seq(Declaration),
         Derives(ds, f, k), Account(ds, f, k + 1)
  PROVE  Derives(RewriteSelf(ds, e.kind, e.name), f, k + 1)
<1> PICK new : new = RewriteSelf(ds, e.kind, e.name)
  OBVIOUS
<1>1. e.name \in Name
  BY EditParts DEF EditSet
<1>2. Rewritten(new, ds, e.kind, e.name)
  BY <1>1, RewrittenParts
<1> SUFFICES ASSUME NEW y \in Range(new), NEW d \in Range(Declared(f)), y.id = d.id, Settled(d, f)
             PROVE  y.refs = RefsNow(d, f, k + 1)
  BY DEF Derives
<1>3. PICK i \in DOMAIN ds : y = new[i]
  BY <1>2 DEF Rewritten, Range
<1>4. PICK x \in Range(ds) : x = ds[i]
  BY DEF Range
<1>5. /\ y.id = x.id
      /\ y.refs = IF Declares(x, e.kind, e.name) /\ e.name \in x.refs
                  THEN (x.refs \ {e.name}) \cup {RedefinedBase(e.name)}
                  ELSE x.refs
  BY <1>2, <1>3, <1>4 DEF Rewritten
<1>6. x.refs = RefsNow(d, f, k)
  BY <1>5 DEF Derives
<1>7. From(x, d, f, k + 1)
  <2>1. PICK o \in Range(Declared(f)) : From(x, o, f, k + 1)
    BY DEF Account
  <2>2. o = d
    BY <1>5, <2>1, DeclaredApart DEF From
  <2> QED  BY <2>1, <2>2
<1>8. d.name \in Name
  BY DeclaredNames
<1>9. CASE d.name \notin d.refs
  <2>1. x.refs = d.refs /\ RefsNow(d, f, k + 1) = d.refs
    BY <1>6, <1>9 DEF RefsNow
  <2>2. ASSUME Declares(x, e.kind, e.name), e.name \in x.refs PROVE FALSE
    <3>1. RenamedBy(d, f, k + 1) /\ e.name = RedefinedBase(d.name) /\ e.kind = d.kind
      BY <1>7, <1>9, <2>1, <2>2 DEF From, NameNow, Declares
    <3>2. ~ RenamedBy(d, f, k)
      BY <3>1, NameFree
    <3>3. Hits(e, d, f)
      BY <3>1, <3>2, OneMoreEdit
    <3> QED  BY <1>8, <3>1, <3>3, BaseIsOther DEF Hits, Declares
  <2> QED  BY <1>5, <2>1, <2>2
<1>10. CASE d.name \in d.refs
  <2>1. ~ Redefined(d, f)
    BY <1>10 DEF Settled
  <2>2. ~ RenamedBy(d, f, k + 1)
    <3> SUFFICES ASSUME RenamedBy(d, f, k + 1) PROVE FALSE
      OBVIOUS
    <3>1. PICK p \in 1 .. k + 1 : AllEdits[p].op = "redefine" /\ Hits(AllEdits[p], d, f)
      BY DEF RenamedBy
    <3>2. AllEdits \in Seq(EditSet)
      BY AllEditsAre DEF EditLists
    <3>3. p \in DOMAIN AllEdits
      BY <3>1, <3>2, LenProperties DEF EditAfter
    <3>4. AllEdits[p] \in Redefinitions
      BY <3>1, <3>3, EditsAreAsked DEF AsksFor
    <3> QED  BY <2>1, <3>1, <3>4 DEF Redefined
  <2>3. Declares(x, e.kind, e.name) <=> Rederives(e, d, f)
    BY <1>7, <2>2 DEF From, NameNow, Declares, Rederives, SameName
  <2>4. RedefinedBase(d.name) # d.name
    BY <1>8, BaseIsOther
  <2>5. CASE Rederived(d, f, k)
    <3>1. d.name \notin x.refs /\ RefsNow(d, f, k + 1) = RefsNow(d, f, k)
      BY <1>6, <1>10, <2>4, <2>5, OneMoreRederived DEF RefsNow
    <3>2. ~ (Declares(x, e.kind, e.name) /\ e.name \in x.refs)
      BY <2>3, <3>1 DEF Rederives, SameName
    <3> QED  BY <1>5, <1>6, <3>1, <3>2
  <2>6. CASE ~ Rederived(d, f, k) /\ Rederives(e, d, f)
    <3>1. x.refs = d.refs /\ e.name = d.name /\ Declares(x, e.kind, e.name)
      BY <1>6, <2>3, <2>6 DEF RefsNow, Rederives, SameName
    <3>2. RefsNow(d, f, k + 1) = (d.refs \ {d.name}) \cup {RedefinedBase(d.name)}
      BY <1>10, <2>6, OneMoreRederived DEF RefsNow
    <3> QED  BY <1>5, <1>10, <3>1, <3>2
  <2>7. CASE ~ Rederived(d, f, k) /\ ~ Rederives(e, d, f)
    <3>1. RefsNow(d, f, k + 1) = RefsNow(d, f, k)
      BY <2>7, OneMoreRederived
    <3> QED  BY <1>5, <1>6, <2>3, <2>7, <3>1
  <2> QED  BY <2>5, <2>6, <2>7
<1> QED  BY <1>9, <1>10

LEMMA DerivesStays ==
  ASSUME files' = files, resolver' = resolver, NEW ds, NEW f, NEW k
  PROVE  /\ Derives(ds, f, k)' <=> Derives(ds, f, k)
         /\ OneRedefiner' <=> OneRedefiner
<1>1. AllEdits' = AllEdits
  BY FilesStay
<1>2. \A g : Declared(g)' = Declared(g)
  BY DEF Declared
<1>3. \A e : TargetsOfEdit(e)' = TargetsOfEdit(e)
  BY DEF TargetsOfEdit
<1>4. Redefinitions' = Redefinitions
  BY DEF Redefinitions
<1>5. OneRedefiner' <=> OneRedefiner
  BY <1>3, <1>4 DEF OneRedefiner
<1>6. \A d : Settled(d, f)' <=> Settled(d, f)
  BY <1>3, <1>4 DEF Settled, Redefined, Hits
<1>7. \A e : Finds(e)' <=> Finds(e)
  BY <1>2, <1>3 DEF Finds
<1>8. \A e, d : Rederives(e, d, f)' <=> Rederives(e, d, f)
  BY <1>7 DEF Rederives
<1>9. \A d : Rederived(d, f, k)' <=> Rederived(d, f, k)
  BY <1>1, <1>8 DEF Rederived
<1>10. \A d : RefsNow(d, f, k)' = RefsNow(d, f, k)
  BY <1>9 DEF RefsNow
<1>11. Derives(ds, f, k)' <=> Derives(ds, f, k)
  BY <1>2, <1>6, <1>10 DEF Derives
<1> QED  BY <1>5, <1>11

LEMMA DerivationsKeep ==
  ASSUME PatchInv, Patching,
         DocumentsFit /\ OneRedefiner => \A f \in DOMAIN files : Derives(decls'[f], f, Done + 1)
  PROVE  DerivationsInv'
<1>1. Done' = Done + 1 /\ files' = files /\ resolver' = resolver /\ (DocumentsFit' <=> DocumentsFit)
  BY NextEdit
<1>2. OneRedefiner' <=> OneRedefiner
  BY <1>1, DerivesStays
<1>3. ASSUME DocumentsFit', OneRedefiner', NEW f \in DOMAIN files' PROVE Derives(decls[f], f, Done)'
  <2>1. PICK ds, k : ds = decls'[f] /\ k = Done + 1
    OBVIOUS
  <2>2. Derives(ds, f, k)
    BY <1>1, <1>2, <1>3, <2>1
  <2>3. Derives(ds, f, k)'
    BY <1>1, <2>2, DerivesStays
  <2> QED  BY <1>1, <2>1, <2>3
<1> QED  BY <1>3 DEF DerivationsInv

LEMMA DerivationsPassed ==
  PatchInv /\ DerivationsInv /\ PassOver => DerivationsInv'
<1> SUFFICES ASSUME PatchInv, DerivationsInv, PassOver PROVE DerivationsInv'
  OBVIOUS
<1> PICK e, k : e = Head(work) /\ k = Done
  OBVIOUS
<1>1. Patching /\ decls' = decls
      /\ \A t \in TargetsOfEdit(e) :
           \A i \in DOMAIN decls[t] : ~ Declares(decls[t][i], e.kind, e.name)
  BY DEF PassOver
<1>2. FilesFit /\ EditAfter(k, e) /\ Accounted /\ ~ Loading
  BY <1>1, NextEdit DEF Loading
<1>3. \A t \in TargetsOfEdit(e) : \A x \in Range(decls[t]) : ~ Declares(x, e.kind, e.name)
  BY <1>1 DEF Range
<1>4. ASSUME DocumentsFit, OneRedefiner, NEW f \in DOMAIN files
      PROVE  Derives(decls'[f], f, k + 1)
  <2>1. Derives(decls[f], f, k) /\ \A t \in DOMAIN files : Account(decls[t], t, k)
    BY <1>2, <1>4 DEF DerivationsInv, Accounted
  <2>2. \A d : Rederives(e, d, f) => Rederived(d, f, k)
    BY <1>2, <1>3, <1>4, <2>1, PassedIsDone
  <2>3. PICK ds : ds = decls[f]
    OBVIOUS
  <2>4. Derives(ds, f, k + 1)
    BY <1>2, <2>1, <2>2, <2>3, DerivesUntouched
  <2> QED  BY <1>1, <2>3, <2>4
<1> QED  BY <1>1, <1>4, DerivationsKeep

LEMMA DerivationsRemoved ==
  PatchInv /\ DerivationsInv /\ RemoveDeclarations => DerivationsInv'
<1> SUFFICES ASSUME PatchInv, DerivationsInv, RemoveDeclarations PROVE DerivationsInv'
  OBVIOUS
<1> PICK e, k : e = Head(work) /\ k = Done
  OBVIOUS
<1>1. Patching /\ e.op = "remove"
      /\ \E t \in TargetsOfEdit(e) :
           decls' = [decls EXCEPT ![t] = WithoutDeclarations(decls[t], e.kind, e.name)]
  BY DEF RemoveDeclarations
<1>2. FilesFit /\ EditAfter(k, e) /\ DeclsTyped /\ ~ Loading
  BY <1>1, NextEdit DEF Loading
<1>3. PICK t \in TargetsOfEdit(e) :
        decls' = [decls EXCEPT ![t] = WithoutDeclarations(decls[t], e.kind, e.name)]
  BY <1>1
<1>4. ASSUME DocumentsFit, OneRedefiner, NEW f \in DOMAIN files
      PROVE  Derives(decls'[f], f, k + 1)
  <2>1. PICK ds, new : ds = decls[f] /\ new = decls'[f]
    OBVIOUS
  <2>2. Derives(ds, f, k) /\ ds \in Seq(Declaration) /\ f \in DOMAIN decls
    BY <1>2, <1>4, <2>1, ListOf DEF DerivationsInv, DeclsTyped
  <2>3. new = ds \/ new = WithoutDeclarations(ds, e.kind, e.name)
    BY <1>3, <2>1, <2>2
  <2>4. Range(new) \subseteq Range(ds)
    <3>1. Range(WithoutDeclarations(ds, e.kind, e.name)) \subseteq Range(ds)
      BY <2>2, RangeOfWithout
    <3> QED  BY <2>3, <3>1
  <2>5. Derives(new, f, k)
    BY <2>2, <2>4, DerivesWithin
  <2>6. Derives(new, f, k + 1)
    BY <1>1, <1>2, <2>5, DerivesUntouched DEF Rederives
  <2> QED  BY <2>1, <2>6
<1> QED  BY <1>1, <1>4, DerivationsKeep

LEMMA RenamingKeepsRefs ==
  ASSUME NEW ds \in Seq(Declaration), OneEach(ds), NEW kind, NEW name \in Name,
         \E x \in Range(ds) : Declares(x, kind, name)
  PROVE  \A y \in Range(RenameFirst(ds, kind, name)) :
           \E x \in Range(ds) : x.id = y.id /\ x.refs = y.refs
<1>1. PICK x \in Range(ds) :
        Range(RenameFirst(ds, kind, name)) = (Range(ds) \ {x}) \cup {Renamed(x, name)}
  BY RangeOfRenameFirst
<1>2. x \in Declaration
  BY LenProperties, ElementOfSeq DEF Range
<1>3. Renamed(x, name).id = x.id /\ Renamed(x, name).refs = x.refs
  BY <1>2, RenamedType
<1> QED  BY <1>1, <1>3

LEMMA DerivationsRedefined ==
  PatchInv /\ DerivationsInv /\ ApplyRedefine => DerivationsInv'
<1> SUFFICES ASSUME PatchInv, DerivationsInv, ApplyRedefine PROVE DerivationsInv'
  OBVIOUS
<1> PICK e, k : e = Head(work) /\ k = Done
  OBVIOUS
<1>1. Patching /\ e.op = "redefine"
  BY RedefinitionIs
<1>2. PICK t \in TargetsOfEdit(e), renamed \in Seq(Seq(Declaration)) :
        /\ RenamedIn(renamed, e, t)
        /\ OneList(decls', renamed, e.file, RewriteSelf(renamed[e.file], e.kind, e.name))
        /\ DocumentsFit => \A f \in DOMAIN files : Account(renamed[f], f, k + 1)
  BY RedefinitionIs
<1>3. /\ FilesFit /\ EditAfter(k, e) /\ DeclsTyped /\ Accounted /\ ~ Loading
      /\ e.name \in Name
  <2>1. FilesFit /\ EditAfter(k, e) /\ DeclsTyped /\ Accounted /\ ~ Loading
    BY <1>1, NextEdit DEF Loading
  <2> QED  BY <2>1, EditParts DEF EditSet
<1>4. DOMAIN renamed = DOMAIN decls /\ t \in DOMAIN decls /\ e.file \in DOMAIN decls
      /\ DOMAIN decls = DOMAIN files
  BY <1>2, <1>3 DEF RenamedIn, OneList, DeclsTyped
<1>5. ASSUME DocumentsFit, OneRedefiner, NEW f \in DOMAIN files
      PROVE  Derives(renamed[f], f, k)
  <2>1. PICK ds, new : ds = decls[f] /\ new = renamed[f]
    OBVIOUS
  <2>2. Derives(ds, f, k) /\ ds \in Seq(Declaration) /\ OneEach(ds)
    BY <1>3, <1>4, <1>5, <2>1, ListOf DEF DerivationsInv, Accounted, Account, OneEach
  <2>3. CASE f # t
    BY <1>2, <1>4, <2>1, <2>2, <2>3 DEF RenamedIn, OneList
  <2>4. CASE f = t
    <3>1. new = RenameFirst(ds, e.kind, e.name) /\ \E x \in Range(ds) : Declares(x, e.kind, e.name)
      BY <1>2, <2>1, <2>4 DEF RenamedIn, OneList
    <3>2. \A y \in Range(new) : \E x \in Range(ds) : x.id = y.id /\ x.refs = y.refs
      BY <1>3, <2>2, <3>1, RenamingKeepsRefs
    <3> QED  BY <2>1, <2>2, <3>2, DerivesWithin
  <2> QED  BY <2>3, <2>4
<1>6. ASSUME DocumentsFit PROVE Finds(e)
  <2>1. PICK ds : ds = decls[t]
    OBVIOUS
  <2>2. Account(ds, t, k) /\ t \in DOMAIN files
    BY <1>3, <1>4, <1>6, <2>1 DEF Accounted
  <2>3. PICK x \in Range(ds) : Declares(x, e.kind, e.name)
    BY <1>2, <2>1 DEF RenamedIn
  <2>4. PICK o \in Range(Declared(t)) : From(x, o, t, k)
    BY <2>2 DEF Account
  <2>5. Hits(e, o, t)
    BY <1>2, <1>3, <1>6, <2>3, <2>4, NamedIsHit
  <2> QED  BY <1>2, <2>5 DEF Finds, Hits, Declares, SameName
<1>7. ASSUME DocumentsFit, OneRedefiner, NEW f \in DOMAIN files
      PROVE  Derives(decls'[f], f, k + 1)
  <2>1. PICK ds : ds = renamed[f]
    OBVIOUS
  <2>2. Derives(ds, f, k) /\ Account(ds, f, k + 1)
    BY <1>2, <1>5, <1>7, <2>1
  <2>3. CASE f # e.file
    <3>1. decls'[f] = ds
      BY <1>2, <1>4, <2>1, <2>3 DEF OneList
    <3>2. Derives(ds, f, k + 1)
      BY <1>3, <2>2, <2>3, DerivesUntouched DEF Rederives
    <3> QED  BY <3>1, <3>2
  <2>4. CASE f = e.file
    <3>1. ds \in Seq(Declaration)
      <4> PICK D : D = Seq(Declaration)
        OBVIOUS
      <4>1. renamed \in Seq(D) /\ f \in 1 .. Len(renamed)
        BY <1>2, <1>4, <1>7, LenProperties
      <4>2. renamed[f] \in D
        BY ONLY <4>1, ElementOfSeq
      <4> QED  BY <2>1, <4>2
    <3>2. Derives(RewriteSelf(ds, e.kind, e.name), f, k + 1)
      BY <1>1, <1>3, <1>6, <1>7, <2>2, <2>4, <3>1, DerivesRewritten
    <3> QED  BY <1>2, <2>1, <2>4, <3>2 DEF OneList
  <2> QED  BY <2>3, <2>4
<1> QED  BY <1>1, <1>7, DerivationsKeep

LEMMA DerivationsStep ==
  PatchInv /\ DerivationsInv /\ [PatchNext]_<<vars, patchVars>> => DerivationsInv'
<1> SUFFICES ASSUME PatchInv, DerivationsInv, [PatchNext]_<<vars, patchVars>>
             PROVE  DerivationsInv'
  OBVIOUS
<1>1. CASE Load
  <2>1. pc' \in {"files", "failed", "parsed"}
    BY <1>1 DEF Load, Next, LoadCatalogs, FailCatalogs, SkipSeen, ParseFile, FailParse, Enqueue,
                Drained, TakesFromQueue
  <2> QED  BY <2>1 DEF DerivationsInv, Loading
<1>2. CASE StartPatches
  <2>1. /\ FilesFit /\ files' = files /\ resolver' = resolver
        /\ decls' = [f \in DOMAIN files |-> Declared(f)] /\ work' = AllEdits
    BY <1>2 DEF PatchInv, StartPatches, AllEdits, Declared
  <2>2. Done' = 0
    <3>1. AllEdits \in Seq(EditSet) /\ Len(AllEdits) \in Nat /\ AllEdits' = AllEdits
      BY <2>1, AllEditsAre, FilesStay, LenProperties DEF EditLists
    <3> QED  BY <2>1, <3>1 DEF Done
  <2>3. ASSUME DocumentsFit', NEW f \in DOMAIN files' PROVE Derives(decls[f], f, Done)'
    <3>1. PICK ds : ds = decls'[f]
      OBVIOUS
    <3>2. DocumentsFit /\ f \in DOMAIN files /\ ds = Declared(f)
      BY <2>1, <2>3, <3>1, FilesStay
    <3>3. Derives(ds, f, 0)
      BY <3>2, DerivesAtFirst
    <3>4. Derives(ds, f, 0)'
      BY <2>1, <3>3, DerivesStays
    <3> QED  BY <2>2, <3>1, <3>4
  <2> QED  BY <2>3 DEF DerivationsInv
<1>3. CASE PassOver
  BY <1>3, DerivationsPassed
<1>4. CASE RemoveDeclarations
  BY <1>4, DerivationsRemoved
<1>5. CASE ApplyRedefine
  BY <1>5, DerivationsRedefined
<1>6. CASE FinishPatches \/ UNCHANGED <<vars, patchVars>>
  <2>1. /\ files' = files /\ resolver' = resolver /\ decls' = decls /\ work' = work
        /\ (~ Loading' => ~ Loading)
    BY <1>6 DEF FinishPatches, patchVars, vars, Loading
  <2>2. /\ AllEdits' = AllEdits /\ Done' = Done
        /\ DocumentsFit' <=> DocumentsFit
    BY <2>1, FilesStay DEF Done
  <2>3. OneRedefiner' <=> OneRedefiner
    BY <2>1, DerivesStays
  <2>4. ASSUME ~ Loading', DocumentsFit', OneRedefiner', NEW f \in DOMAIN files'
        PROVE  Derives(decls[f], f, Done)'
    <3>1. PICK ds, k : ds = decls[f] /\ k = Done
      OBVIOUS
    <3>2. Derives(ds, f, k)
      BY <2>1, <2>2, <2>3, <2>4, <3>1 DEF DerivationsInv
    <3>3. Derives(ds, f, k)'
      BY <2>1, <3>2, DerivesStays
    <3> QED  BY <2>1, <2>2, <3>1, <3>3
  <2> QED  BY <2>4 DEF DerivationsInv
<1> QED  BY <1>1, <1>2, <1>3, <1>4, <1>5, <1>6 DEF PatchNext

LEMMA DerivationsHold == PatchSpec => []DerivationsInv
<1>1. PatchInit => DerivationsInv
  BY DEF PatchInit, Init, DerivationsInv, Loading
<1> QED  BY <1>1, DerivationsStep, PatchInvHolds, PTL DEF PatchSpec

(* What a redefinition asks of the documents: a declaration that derives from *)
(* itself finds the one that it redefines in another file, and no other file  *)
(* redefines that one.                                                          *)
RedefinesFit ==
  /\ OneRedefiner
  /\ \A f \in DOMAIN files : \A ref \in Range(files[f].doc.redefines) : \A c \in Range(ref.body) :
       c.name \in c.refs =>
         /\ c.kind \in RedefinableKinds
         /\ \E g \in TargetsOfEdit(Edit("redefine", f, ref, c)) :
              g # f /\ \E o \in Range(Declared(g)) : SameName(o, c)

(* It has no base besides.                                                      *)
OneBase ==
  \A f \in DOMAIN files : \A ref \in Range(files[f].doc.redefines) : \A c \in Range(ref.body) :
    c.name \in c.refs => c.refs = {c.name}

(* A redefining declaration is not redefined itself, and its base is now the  *)
(* name of the one that it redefines.                                          *)
LEMMA RedefiningIs ==
  ASSUME PatchInv, pc = "done", DocumentsFit, PatchesSettle, RedefinesFit,
         NEW f \in DOMAIN files, NEW ref \in Range(files[f].doc.redefines),
         NEW c \in Range(ref.body), c.name \in c.refs
  PROVE  /\ c \in Range(Declared(f)) /\ ~ Redefined(c, f)
         /\ Rederived(c, f, Done)
         /\ \E e \in Redefinitions : SameName(c, e)
         /\ \E g \in DOMAIN files : /\ g # f
                                    /\ \E o \in Range(Declared(g)) : SameName(o, c) /\ Redefined(o, g)
<1>1. FilesFit
  BY InTheEnd
<1>2. c \in Range(Declared(f))
  BY <1>1, FileParts
<1>3. PICK e : e = Edit("redefine", f, ref, c)
  OBVIOUS
<1>4. e.op = "redefine" /\ e.file = f /\ SameName(c, e)
  BY <1>3 DEF Edit, SameName
<1>5. PICK g \in TargetsOfEdit(e) : g # f /\ \E o \in Range(Declared(g)) : SameName(o, c)
  BY <1>3 DEF RedefinesFit
<1>6. PICK o \in Range(Declared(g)) : SameName(o, c)
  BY <1>5
<1>7. e \in Redefinitions
  <2>1. c.kind \in RedefinableKinds
    BY DEF RedefinesFit
  <2>2. e \in EditsFor("redefine", f, ref, RedefinableKinds)
    BY <1>3, <2>1 DEF EditsFor
  <2> QED  BY <2>2 DEF Redefinitions
<1>8. g \in DOMAIN files
  BY <1>1, OneTarget
<1>9. Redefined(o, g)
  BY <1>4, <1>6, <1>7 DEF Redefined, Hits, Declares, SameName
<1>10. ~ Redefined(c, f)
  BY <1>2, <1>5, <1>6, <1>8, <1>9 DEF PatchesSettle
<1>11. Rederived(c, f, Done)
  <2>1. Rederives(e, c, f)
    BY <1>4, <1>6 DEF Rederives, Finds, SameName
  <2>2. AllEdits \in Seq(EditSet) /\ Len(AllEdits) \in Nat /\ DOMAIN AllEdits = 1 .. Len(AllEdits)
    BY <1>1, AllEditsAre, LenProperties DEF EditLists
  <2>3. work = << >>
    BY InTheEnd DEF WorkIsRest
  <2>4. 1 .. Done = DOMAIN AllEdits
    BY <2>2, <2>3, EmptySeq DEF Done
  <2>5. PICK p \in DOMAIN AllEdits : AllEdits[p] = e
    BY <1>1, <1>7, AllEditsAre DEF Range
  <2> QED  BY <2>1, <2>4, <2>5 DEF Rederived
<1> QED  BY <1>2, <1>4, <1>5, <1>6, <1>7, <1>8, <1>9, <1>10, <1>11

LEMMA RefsInTheEnd ==
  ASSUME PatchInv, DerivationsInv, pc = "done", DocumentsFit, OneRedefiner,
         NEW f \in DOMAIN files, NEW d \in Range(Declared(f)), Settled(d, f),
         NEW x \in Range(decls[f]), x.id = d.id
  PROVE  x.refs = RefsNow(d, f, Done)
BY DEF DerivationsInv, Derives, Loading

(* A declaration that is redefined is left, under its new name.               *)
LEMMA RedefinedIsLeft ==
  ASSUME PatchInv, pc = "done", DocumentsFit,
         NEW f \in DOMAIN files, NEW d \in Range(Declared(f)), Redefined(d, f)
  PROVE  \E x \in Range(decls[f]) : /\ x.id = d.id /\ x.kind = d.kind
                                    /\ x.name = RedefinedBase(d.name)
<1>1. PICK ds, k : ds = decls[f] /\ k = Done
  OBVIOUS
<1>2. Account(ds, f, k) /\ RenamedBy(d, f, k)
  BY <1>1, InTheEnd
<1>3. PICK x \in Range(ds) : x.id = d.id
  BY <1>2 DEF Account, RemovedBy, Listed
<1>4. PICK o \in Range(Declared(f)) : From(x, o, f, k)
  BY <1>2, <1>3 DEF Account
<1>5. o = d
  BY <1>3, <1>4, DeclaredApart DEF From
<1> QED  BY <1>1, <1>2, <1>3, <1>4, <1>5 DEF From, NameNow

(* A redefining declaration that named itself as its base derives from        *)
(* exactly one declaration, the one that it redefines (RedefinesDerive).      *)
THEOREM RedefinesDeriveFromTheirs ==
  PatchSpec => [](DocumentsFit /\ PatchesSettle /\ RedefinesFit /\ OneBase => RedefinesDerive)
<1>1. ASSUME PatchInv, DerivationsInv, pc = "done", DocumentsFit, PatchesSettle,
             RedefinesFit, OneBase,
             NEW f \in DOMAIN files, NEW ref \in Range(files[f].doc.redefines),
             NEW c \in Range(ref.body), c.name \in c.refs,
             NEW d \in Declarations, d.id = c.id
      PROVE  \E old \in DerivesFrom(d) :
               /\ DerivesFrom(d) = {old}
               /\ old.id # d.id
               /\ \E g \in DOMAIN files : \E o \in Range(Declared(g)) :
                    o.id = old.id /\ o.kind = c.kind /\ o.name = c.name
  <2>1. c \in Range(Declared(f)) /\ ~ Redefined(c, f) /\ Rederived(c, f, Done)
    BY <1>1, RedefiningIs
  <2>2. PICK g \in DOMAIN files :
          g # f /\ \E o \in Range(Declared(g)) : SameName(o, c) /\ Redefined(o, g)
    BY <1>1, RedefiningIs
  <2>3. PICK o \in Range(Declared(g)) : SameName(o, c) /\ Redefined(o, g)
    BY <2>2
  <2>4. PICK old \in Range(decls[g]) :
          old.id = o.id /\ old.kind = o.kind /\ old.name = RedefinedBase(o.name)
    BY <1>1, <2>3, RedefinedIsLeft
  <2>5. f \in DOMAIN decls /\ g \in DOMAIN decls
    BY <1>1, InTheEnd
  <2>6. d \in Range(decls[f]) /\ d.kind = c.kind
    <3>1. PICK h \in DOMAIN decls : d \in Range(decls[h])
      BY DEF Declarations, Range
    <3>2. h = f /\ From(d, c, f, Done)
      BY <1>1, <2>1, <3>1, OnlyInItsFile
    <3> QED  BY <3>1, <3>2 DEF From
  <2>7. d.refs = {RedefinedBase(c.name)}
    <3>1. Settled(c, f) /\ OneRedefiner
      BY <1>1, <2>1 DEF Settled, RedefinesFit
    <3>2. d.refs = RefsNow(c, f, Done)
      BY <1>1, <2>1, <2>6, <3>1, RefsInTheEnd
    <3>3. c.refs = {c.name}
      BY <1>1 DEF OneBase
    <3> QED  BY <2>1, <3>2, <3>3 DEF RefsNow
  <2>8. old \in Declarations /\ old \in DerivesFrom(d)
    <3>1. old \in Declarations
      BY <2>5 DEF Declarations, Range
    <3> QED  BY <2>3, <2>4, <2>6, <2>7, <3>1 DEF DerivesFrom, SameName
  <2>9. ASSUME NEW b \in DerivesFrom(d) PROVE b = old
    <3>1. b \in Declarations /\ SameName(b, old)
      BY <2>3, <2>4, <2>6, <2>7 DEF DerivesFrom, SameName
    <3>2. PICK h \in DOMAIN decls : b \in Range(decls[h])
      BY <3>1 DEF Declarations, Range
    <3> QED  BY <1>1, <2>5, <3>1, <3>2, OneOfAName
  <2>10. old.id # d.id
    BY <1>1, <2>1, <2>2, <2>4, DeclaredApart
  <2> QED  BY <2>3, <2>4, <2>8, <2>9, <2>10 DEF SameName
<1>2. PatchInv /\ DerivationsInv =>
        (DocumentsFit /\ PatchesSettle /\ RedefinesFit /\ OneBase => RedefinesDerive)
  BY <1>1 DEF RedefinesDerive, Declared
<1> QED  BY <1>2, PatchInvHolds, DerivationsHold, PTL

(* What keeps derivations from running in circles: only a redefining          *)
(* declaration names itself, no name that a redefine makes is spelled as a    *)
(* base, and without its own name each is based on names that come before.    *)
BasesFit ==
  /\ \A f \in DOMAIN files : \A d \in Range(Declared(f)) :
       d.name \in d.refs => \E ref \in Range(files[f].doc.redefines) : d \in Range(ref.body)
  /\ \A e \in Redefinitions : \A f \in DOMAIN files : \A d \in Range(Declared(f)) :
       d.kind = e.kind => RedefinedBase(e.name) \notin d.refs

Before(rank, o, d) == rank[<<o.kind, o.name>>] < rank[<<d.kind, d.name>>]

Ranks(rank) ==
  \A f, g \in DOMAIN files : \A d \in Range(Declared(f)), o \in Range(Declared(g)) :
    o.kind = d.kind /\ o.name \in d.refs \ {d.name} => Before(rank, o, d)

DocumentsDescend == \E rank \in [Kind \X Name -> Nat] : Ranks(rank)

(* A redefined declaration comes between those before it and the one that     *)
(* redefines it.                                                                *)
Height(rank, d, f) ==
  2 * rank[<<d.kind, d.name>>] + (IF Redefined(d, f) THEN 0 ELSE 1)

LEMMA BasesAreLower ==
  ASSUME PatchInv, DerivationsInv, pc = "done", DocumentsFit, PatchesSettle, RedefinesFit, BasesFit,
         NEW rank \in [Kind \X Name -> Nat], Ranks(rank),
         NEW f \in DOMAIN decls, NEW x \in Range(decls[f]),
         NEW d \in Range(Declared(f)), x.id = d.id,
         NEW g \in DOMAIN decls, NEW y \in Range(decls[g]),
         NEW o \in Range(Declared(g)), y.id = o.id,
         x.kind = y.kind, y.name \in x.refs
  PROVE  Height(rank, o, g) < Height(rank, d, f)
<1>1. FilesFit /\ f \in DOMAIN files /\ g \in DOMAIN files
  BY InTheEnd, ListedInTheEnd
<1>2. /\ x.kind = d.kind
      /\ y.kind = o.kind /\ y.name = IF Redefined(o, g) THEN RedefinedBase(o.name) ELSE o.name
  <2>1. PICK a \in Range(Declared(f)) : x.id = a.id /\ x.kind = a.kind
    BY ListedInTheEnd
  <2>2. PICK b \in Range(Declared(g)) :
          /\ y.id = b.id /\ y.kind = b.kind
          /\ y.name = IF Redefined(b, g) THEN RedefinedBase(b.name) ELSE b.name
    BY ListedInTheEnd
  <2>3. a = d
    <3>1. a.id = d.id
      BY <2>1
    <3> QED  BY <1>1, <3>1, DeclaredApart
  <2>4. b = o
    <3>1. b.id = o.id
      BY <2>2
    <3> QED  BY <1>1, <3>1, DeclaredApart
  <2> QED  BY <2>1, <2>2, <2>3, <2>4
<1>3. /\ d.name \in Name /\ o.name \in Name /\ d.kind \in Kind /\ o.kind = d.kind
      /\ rank[<<d.kind, d.name>>] \in Nat /\ rank[<<o.kind, o.name>>] \in Nat
  <2>1. d \in Declaration /\ o \in Declaration
    BY <1>1, DeclaredNames
  <2>2. <<d.kind, d.name>> \in Kind \X Name /\ <<o.kind, o.name>> \in Kind \X Name
    BY <2>1 DEF Declaration
  <2> QED  BY <1>2, <2>1, <2>2 DEF Declaration
<1>4. d.name \in d.refs => /\ ~ Redefined(d, f) /\ Rederived(d, f, Done)
                           /\ \E e \in Redefinitions : SameName(d, e)
  <2> SUFFICES ASSUME d.name \in d.refs
               PROVE  /\ ~ Redefined(d, f) /\ Rederived(d, f, Done)
                      /\ \E e \in Redefinitions : SameName(d, e)
    OBVIOUS
  <2>1. PICK ref \in Range(files[f].doc.redefines) : d \in Range(ref.body)
    BY <1>1 DEF BasesFit
  <2> QED  BY <1>1, <2>1, RedefiningIs
<1>5. x.refs = RefsNow(d, f, Done)
  <2>1. Settled(d, f) /\ OneRedefiner
    BY <1>4 DEF Settled, RedefinesFit
  <2> QED  BY <1>1, <2>1, RefsInTheEnd
<1>6. ASSUME y.name \in d.refs \ {d.name} PROVE Height(rank, o, g) < Height(rank, d, f)
  <2>1. ~ Redefined(o, g)
    <3> SUFFICES ASSUME Redefined(o, g) PROVE FALSE
      OBVIOUS
    <3>1. PICK e \in Redefinitions : Hits(e, o, g)
      BY DEF Redefined
    <3>2. e.kind = d.kind /\ e.name = o.name
      BY <1>3, <3>1 DEF Hits, Declares
    <3> QED  BY <1>1, <1>2, <1>6, <3>2 DEF BasesFit
  <2>2. o.name \in d.refs \ {d.name}
    BY <1>2, <1>6, <2>1
  <2>3. rank[<<o.kind, o.name>>] < rank[<<d.kind, d.name>>]
    BY <1>1, <1>3, <2>2 DEF Ranks, Before
  <2> QED  BY <1>3, <2>1, <2>3 DEF Height
<1>7. CASE d.name \notin d.refs
  BY <1>5, <1>6, <1>7 DEF RefsNow
<1>8. CASE d.name \in d.refs /\ y.name = RedefinedBase(d.name)
  <2>1. PICK e \in Redefinitions : SameName(d, e)
    BY <1>4, <1>8
  <2>2. o.name # RedefinedBase(d.name)
    BY <1>1, <1>3, <2>1 DEF DocumentsFit, BasesAreFree, Declares, SameName
  <2>3. Redefined(o, g) /\ o.name = d.name
    BY <1>2, <1>3, <1>8, <2>2, BasesDiffer
  <2>4. ~ Redefined(d, f)
    BY <1>4, <1>8
  <2>5. rank[<<o.kind, o.name>>] = rank[<<d.kind, d.name>>]
    BY <1>3, <2>3
  <2> QED  BY <1>3, <2>3, <2>4, <2>5 DEF Height
<1>9. CASE d.name \in d.refs /\ y.name # RedefinedBase(d.name)
  <2>1. y.name \in d.refs \ {d.name}
    BY <1>4, <1>5, <1>9 DEF RefsNow
  <2> QED  BY <1>6, <2>1
<1> QED  BY <1>7, <1>8, <1>9

(* Derivations end: of any declarations one derives from none of them         *)
(* (NoCircularDerivation).                                                     *)
THEOREM DerivationsEnd ==
  PatchSpec => [](DocumentsFit /\ PatchesSettle /\ RedefinesFit /\ BasesFit /\ DocumentsDescend
                    => NoCircularDerivation)
<1>1. ASSUME PatchInv, DerivationsInv, pc = "done", DocumentsFit, PatchesSettle, RedefinesFit,
             BasesFit, DocumentsDescend,
             NEW S \in SUBSET Declarations, S # {}
      PROVE  \E d \in S : DerivesFrom(d) \cap S = {}
  <2>1. PICK rank \in [Kind \X Name -> Nat] : Ranks(rank)
    BY <1>1 DEF DocumentsDescend
  <2> DEFINE At(x, n) == \E f \in DOMAIN decls : \E d \in Range(Declared(f)) :
                           /\ x \in Range(decls[f]) /\ x.id = d.id
                           /\ n = Height(rank, d, f)
             heights == {n \in Nat : \E x \in S : At(x, n)}
  <2>2. ASSUME NEW x \in S PROVE \E n \in Nat : At(x, n)
    <3>1. PICK f \in DOMAIN decls : x \in Range(decls[f])
      BY DEF Declarations, Range
    <3>2. PICK d \in Range(Declared(f)) : x.id = d.id
      BY <1>1, <3>1, ListedInTheEnd
    <3>3. d \in Declaration
      BY <1>1, <3>1, InTheEnd, ListedInTheEnd, DeclaredNames
    <3>4. rank[<<d.kind, d.name>>] \in Nat
      BY <3>3 DEF Declaration
    <3>5. Height(rank, d, f) \in Nat
      BY <3>4 DEF Height
    <3> QED  BY <3>1, <3>2, <3>5
  <2>3. \A x, y \in S : y \in DerivesFrom(x) =>
          \A m, n \in Nat : At(x, m) /\ At(y, n) => n < m
    <3> SUFFICES ASSUME NEW x \in S, NEW y \in S, y \in DerivesFrom(x),
                        NEW m \in Nat, NEW n \in Nat, At(x, m), At(y, n)
                 PROVE  n < m
      OBVIOUS
    <3>1. PICK f \in DOMAIN decls : \E d \in Range(Declared(f)) :
            x \in Range(decls[f]) /\ x.id = d.id /\ m = Height(rank, d, f)
      OBVIOUS
    <3>2. PICK d \in Range(Declared(f)) :
            x \in Range(decls[f]) /\ x.id = d.id /\ m = Height(rank, d, f)
      BY <3>1
    <3>3. PICK g \in DOMAIN decls : \E o \in Range(Declared(g)) :
            y \in Range(decls[g]) /\ y.id = o.id /\ n = Height(rank, o, g)
      OBVIOUS
    <3>4. PICK o \in Range(Declared(g)) :
            y \in Range(decls[g]) /\ y.id = o.id /\ n = Height(rank, o, g)
      BY <3>3
    <3>5. y.kind = x.kind /\ y.name \in x.refs
      BY DEF DerivesFrom
    <3> QED  BY <1>1, <2>1, <3>2, <3>4, <3>5, BasesAreLower
  <2> HIDE DEF At
  <2>4. PICK m \in heights : \A n \in heights : m <= n
    <3>1. heights \in SUBSET Nat /\ heights # {}
      BY <1>1, <2>2
    <3> HIDE DEF heights
    <3> QED  BY <3>1, SmallestIndex
  <2>5. PICK x \in S : At(x, m)
    BY <2>4
  <2>6. ASSUME NEW y \in DerivesFrom(x) \cap S PROVE FALSE
    <3>1. PICK n \in Nat : At(y, n)
      BY <2>2, <2>6
    <3>2. m \in Nat /\ n \in heights /\ n < m
      BY <2>3, <2>4, <2>5, <2>6, <3>1
    <3> QED  BY <2>4, <3>2
  <2> QED  BY <2>5, <2>6
<1>2. PatchInv /\ DerivationsInv =>
        (DocumentsFit /\ PatchesSettle /\ RedefinesFit /\ BasesFit /\ DocumentsDescend
           => NoCircularDerivation)
  BY <1>1 DEF NoCircularDerivation
<1> QED  BY <1>2, PatchInvHolds, DerivationsHold, PTL
=============================================================================
