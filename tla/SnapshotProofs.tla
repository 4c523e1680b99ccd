--------------------------- MODULE SnapshotProofs ---------------------------
(***************************************************************************)
(* Collector implements SnapshotCache: with a single process, as long as   *)
(* no extraction is cut off or fails half way, every operator run that     *)
(* exits 0 lists the complete catalogue of the one image its directory has *)
(* kept since the first download.                                          *)
(***************************************************************************)
EXTENDS ListingProofs, CollectorClaims

-----------------------------------------------------------------------------
(* What is assumed *)

\* An extraction ends with an error or a kill after it has made the cache directory.
CutsOff ==
  \E p \in Procs :
    /\ job[p].kind = "operator" /\ pc[p] \in {"layer", "untar", "fill"}
    /\ pc'[p] \in {"err", "killed"}
    /\ cacheDir(slot(p)) \in DOMAIN tree

OperatorSlots == {s \in Slots : s.kind = "operator"}

\* No reference without a tag has the name of one with a tag: the cache directory
\* of the first would be the parent of that of the second.
Apart ==
  \A s, u \in OperatorSlots : s # u => cacheDir(s) \notin Prefixes(cacheDir(u))

\* There was no operator cache at the start.
NoCacheHeld == \A s \in OperatorSlots : cacheDir(s) \notin DOMAIN Held

-----------------------------------------------------------------------------
(* The inductive invariant *)

Extracting(s) == \E p \in Procs : slot(p) = s /\ pc[p] \in {"layer", "untar", "fill"}

\* The cache of s holds the whole image its layout listed first.
HoldsWhole(s) ==
  first[s] \in Images /\ Reflects(tree, cacheDir(s), first[s], Positions(first[s]), {})

CachesWhole ==
  \A s \in OperatorSlots : cacheDir(s) \in DOMAIN tree /\ ~Extracting(s) => HoldsWhole(s)

\* What a run has listed so far is of that image, whether it found the cache or not.
ListsWhole(p) ==
  job[p].kind = "operator" =>
    /\ pc[p] = "list" =>
         /\ HoldsWhole(slot(p))
         /\ todo[p] \cup {x.op : x \in shown[p]} = OpNames(first[slot(p)])
         /\ \A x \in shown[p] :
              x = [op |-> x.op, got |-> FinalData(first[slot(p)], CatalogOf(x.op))]
    /\ pc[p] = "ok" =>
         first[slot(p)] \in Images /\ shown[p] = Catalogue(first[slot(p)])

SnapshotInv == CachesWhole /\ (\A p \in Procs : ListsWhole(p)) /\ AllDenoted
-----------------------------------------------------------------------------
(* Cache directories and the paths other steps touch *)

\* Where the cache directory of an operator slot is.
LEMMA CacheShape ==
  ASSUME NEW s \in OperatorSlots
  PROVE  /\ s \in Slots /\ s.kind = "operator" /\ toDir(s) = cacheDir(s)
         /\ cacheDir(s) \in Path /\ cacheDir(s) # <<>>
         /\ Len(cacheDir(s)) \in Nat /\ Len(cacheDir(s)) > 2
         /\ cacheDir(s)[1] = "working-dir" /\ cacheDir(s)[2] = "hold-operators"
<1>1. s \in Slots /\ s.kind = "operator" /\ toDir(s) = cacheDir(s)
  BY DEF OperatorSlots, toDir
<1>2. cacheDir(s) \in Path
  BY <1>1, DirsArePaths
<1>3. PICK r \in Refs : s.key = imageIndexDir(r)
  BY <1>1 DEF Slots
<1>4. r.name \in Segment /\ (r.tag # "" => r.tag \in Segment)
  BY RefsAssumption
<1>5. s.key = <<r.name>> \/ (s.key = <<r.name, r.tag>> /\ r.tag \in Segment)
  BY <1>3, <1>4 DEF imageIndexDir
<1>6. s.key \in Path
  BY <1>4, <1>5, ShortPath
<1>7. s.key # <<>>
  BY <1>5
<1>8. Len(s.key) \in Nat /\ Len(s.key) > 0
  BY <1>6, <1>7 DEF Path
<1>9. cacheDir(s) = <<"working-dir", "hold-operators">> \o s.key
  BY <1>1 DEF cacheDir, extractDir, workingDir
<1>10. Len(cacheDir(s)) = Len(s.key) + 2 /\ cacheDir(s)[1] = "working-dir"
       /\ cacheDir(s)[2] = "hold-operators"
  BY <1>6, <1>8, <1>9 DEF Path
<1>11. QED
  BY <1>1, <1>2, <1>8, <1>10

\* A path that differs from the cache directory in its first two segments, or is no
\* longer than that, is not below it.
LEMMA NotThere ==
  ASSUME NEW s \in OperatorSlots, NEW q \in Path,
         Len(q) < 3 \/ q[1] # "working-dir" \/ q[2] # "hold-operators"
  PROVE  cacheDir(s) \notin Prefixes(q)
<1> SUFFICES ASSUME cacheDir(s) \in Prefixes(q) PROVE FALSE
  OBVIOUS
<1>1. Len(cacheDir(s)) \in 1..Len(q) /\ \A k \in 1..Len(cacheDir(s)) : cacheDir(s)[k] = q[k]
  BY PrefixFacts
<1>2. Len(q) \in Nat
  BY DEF Path
<1>3. QED
  BY <1>1, <1>2, CacheShape

LEMMA RunDirsElsewhere ==
  ASSUME NEW s \in OperatorSlots
  PROVE  /\ \A n \in 1..4 : cacheDir(s) \notin Prefixes(runDirs[n])
         /\ cacheDir(s) \notin Prefixes(logsFile)
         /\ \A q \in Path : cacheDir(s) \in Prefixes(q) => logsDir \notin Prefixes(q)
<1>1. ASSUME NEW n \in 1..4 PROVE cacheDir(s) \notin Prefixes(runDirs[n])
  <2>1. runDirs[n] \in Path
    BY RunDirsArePaths
  <2>2. n = 1 \/ n = 2 \/ n = 3 \/ n = 4
    OBVIOUS
  <2>3. runDirs[n] \in { <<workingDir>>, <<"logs">>, <<workingDir, imageDir("release")>>,
                        <<workingDir, imageDir("operator")>> }
    BY <2>2 DEF runDirs, logsDir
  <2>4. Len(runDirs[n]) < 3
    <3>1. \A a, b : Len(<<a>>) < 3 /\ Len(<<a, b>>) < 3
      OBVIOUS
    <3>2. QED
      BY <2>3, <3>1, Zenon
  <2>5. QED
    BY <2>1, <2>4, NotThere
<1>2. cacheDir(s) \notin Prefixes(logsFile)
  <2>1. logsFile \in Path
    BY ShortPath, SegmentAssumption DEF logsFile
  <2>2. Len(logsFile) = 2
    BY DEF logsFile
  <2>3. QED
    BY <2>1, <2>2, NotThere
<1>3. ASSUME NEW q \in Path, cacheDir(s) \in Prefixes(q), logsDir \in Prefixes(q) PROVE FALSE
  <2>1. q[1] = "working-dir"
    BY <1>3, PrefixFacts, CacheShape
  <2>2. logsDir[1] = "logs" /\ Len(logsDir) = 1
    BY DEF logsDir
  <2>3. q[1] = "logs"
    BY <1>3, <2>2, PrefixFacts
  <2>4. QED
    BY <2>1, <2>3
<1>4. QED
  BY <1>1, <1>2, <1>3

LEMMA CopyDirElsewhere ==
  ASSUME NEW s \in OperatorSlots, NEW u \in Slots
  PROVE  cacheDir(s) \notin Prefixes(copyDir(u))
<1>1. copyDir(u) \in Path
  BY DirsArePaths
<1>2. imageDir(u.kind) # "hold-operators"
  BY DEF imageDir
<1>3. u.key \in Path
  <2>1. PICK r \in Refs : u.key = imageIndexDir(r)
    BY DEF Slots
  <2>2. r.name \in Segment /\ (r.tag # "" => r.tag \in Segment)
    BY RefsAssumption
  <2>3. QED
    BY <2>1, <2>2, ShortPath DEF imageIndexDir
<1>4. <<workingDir, imageDir(u.kind)>> \in Path
  BY SegmentAssumption, ShortPath DEF Slots
<1>5. copyDir(u)[2] = imageDir(u.kind)
  BY <1>3, <1>4, ConcatFacts DEF copyDir
<1>6. QED
  BY <1>1, <1>2, <1>5, NotThere

\* Nor does the extraction for another directory name touch it.
LEMMA TargetElsewhere ==
  ASSUME NEW s \in OperatorSlots, NEW u \in Slots, u # s, Apart, NEW f \in Path
  PROVE  cacheDir(s) \notin Prefixes(toDir(u) \o f)
<1> DEFINE c == cacheDir(s)
           q == toDir(u) \o f
<1> SUFFICES ASSUME c \in Prefixes(q) PROVE FALSE
  OBVIOUS
<1>1. toDir(u) \in Path
  BY DirsArePaths
<1>2. /\ q \in Path /\ Len(q) = Len(toDir(u)) + Len(f)
      /\ Len(toDir(u)) \in Nat /\ Len(f) \in Nat
      /\ \A k \in 1..Len(toDir(u)) : q[k] = toDir(u)[k]
  BY <1>1, ConcatFacts
<1>3. c \in Path /\ Len(c) \in Nat /\ Len(c) > 2 /\ c[1] = "working-dir"
  BY CacheShape
<1> HIDE DEF q
<1>4. Len(c) \in 1..Len(q) /\ \A k \in 1..Len(c) : c[k] = q[k]
  BY <1>2, PrefixFacts
<1> HIDE DEF c
<1>5. CASE u.kind = "operator"
  <2>1. u \in OperatorSlots
    BY <1>5 DEF OperatorSlots
  <2>2. toDir(u) = cacheDir(u) /\ Len(cacheDir(u)) > 2
    BY <2>1, CacheShape
  <2>3. CASE Len(c) <= Len(toDir(u))
    <3>1. Len(c) \in 1..Len(toDir(u)) /\ \A k \in 1..Len(c) : c[k] = toDir(u)[k]
      BY <1>2, <1>3, <1>4, <2>3
    <3>2. c \in Prefixes(toDir(u))
      BY <1>1, <1>3, <3>1, PrefixFrom
    <3>3. QED
      BY <2>1, <2>2, <3>2 DEF Apart, c
  <2>4. CASE Len(c) > Len(toDir(u))
    <3>1. Len(toDir(u)) \in 1..Len(c) /\ \A k \in 1..Len(toDir(u)) : toDir(u)[k] = c[k]
      BY <1>2, <1>3, <1>4, <2>2, <2>4
    <3>2. toDir(u) \in Prefixes(c)
      BY <1>1, <1>3, <3>1, PrefixFrom
    <3>3. QED
      BY <2>1, <2>2, <3>2 DEF Apart, c
  <2>5. QED
    BY <1>2, <1>3, <2>3, <2>4
<1>6. CASE u.kind # "operator"
  <2>1. PICK r \in Refs : u.key = imageIndexDir(r)
    BY DEF Slots
  <2>2. r.name \in Segment /\ (r.tag # "" => r.tag \in Segment)
        /\ joined(r.name) \in Segment /\ joined(r.name) # "working-dir"
    <3>1. joined(r.name) \in Segment \ {workingDir}
      BY RefsAssumption
    <3>2. QED
      BY <3>1, RefsAssumption DEF workingDir
  <2>3. u.key = <<r.name>> \/ (u.key = <<r.name, r.tag>> /\ r.tag \in Segment)
    BY <2>1, <2>2 DEF imageIndexDir
  <2>4. Head(u.key) = r.name /\ u.key # <<>>
    BY <2>3
  <2>5. u.key \in Path
    BY <2>2, <2>3, ShortPath
  <2>6. Tail(u.key) \in Path
    BY <2>4, <2>5 DEF Path
  <2>7. toDir(u) = <<joined(r.name)>> \o Tail(u.key)
    BY <1>6, <2>4 DEF toDir
  <2>8. toDir(u)[1] = joined(r.name) /\ Len(toDir(u)) > 0
    <3> DEFINE h == <<joined(r.name)>>
               t == Tail(u.key)
    <3>1. h \in Path
      BY <2>2, ShortPath
    <3>2. Len(h) = 1 /\ h[1] = joined(r.name)
      OBVIOUS
    <3>3. toDir(u) = h \o t /\ t \in Path
      BY <2>6, <2>7
    <3> HIDE DEF h, t
    <3>4. /\ Len(h \o t) = Len(h) + Len(t) /\ Len(t) \in Nat
          /\ \A k \in 1..Len(h) : (h \o t)[k] = h[k]
      BY <3>1, <3>3, ConcatFacts
    <3>5. QED
      BY <3>2, <3>3, <3>4
  <2>9. q[1] = joined(r.name)
    BY <1>2, <2>8
  <2>10. q[1] = "working-dir"
    BY <1>3, <1>4
  <2>11. QED
    BY <2>2, <2>9, <2>10
<1>7. QED
  BY <1>5, <1>6
\* Two trees have the same below c, and the second has c only if the first has.
SameBelow(t, u, c) ==
  /\ c \in DOMAIN u => c \in DOMAIN t
  /\ \A a \in DOMAIN t \cup DOMAIN u : Below(c, a) => a \in DOMAIN t /\ a \in DOMAIN u /\ u[a] = t[a]

LEMMA ReflectsSame ==
  ASSUME NEW t, NEW u, NEW c \in Path, c # <<>>, NEW m \in Images, SameBelow(t, u, c),
         Reflects(t, c, m, Positions(m), {})
  PROVE  Reflects(u, c, m, Positions(m), {})
<1>1. Explained(u, c, m, Positions(m), {})
  BY DEF Reflects, Explained, SameBelow
<1>2. ASSUME NEW w \in Positions(m), EntryAt(m, w) \in Selected(m), EntryAt(m, w).name # <<>>
      PROVE  c \o EntryAt(m, w).name \in DOMAIN u
  <2>1. EntryAt(m, w).name \in Path
    BY EntriesAt DEF Entry
  <2>2. Below(c, c \o EntryAt(m, w).name)
    BY <1>2, <2>1, ConcatBelow
  <2>3. c \o EntryAt(m, w).name \in DOMAIN t
    BY <1>2 DEF Reflects, Present
  <2>4. QED
    BY <2>2, <2>3 DEF SameBelow
<1>3. Present(u, c, m, Positions(m))
  BY <1>2 DEF Present
<1>4. Latest(u, c, m, Positions(m), {})
  BY DEF Reflects, Latest, SameBelow
<1>5. QED
  BY <1>1, <1>3, <1>4 DEF Reflects

LEMMA SameAfterMkdirAll ==
  ASSUME NEW t, NEW c, NEW q \in Path, c \notin Prefixes(q)
  PROVE  SameBelow(t, MkdirAll(t, q), c)
<1>1. \A a \in Prefixes(q) : ~Below(c, a)
  BY PrefixTransitive DEF Below
<1>2. QED
  BY <1>1 DEF SameBelow, MkdirAll, Make

LEMMA SameAfterPut ==
  ASSUME NEW t, NEW c \in Path, c # <<>>, NEW q, NEW d, c \notin Prefixes(q)
  PROVE  SameBelow(t, Put(t, q, d), c)
<1>1. c # q /\ ~Below(c, q)
  BY PrefixOfItself DEF Below
<1>2. QED
  BY <1>1 DEF SameBelow, Put

LEMMA SameAfterClean ==
  ASSUME NEW t, IsTree(t), NEW s \in OperatorSlots
  PROVE  SameBelow(t, RemoveAll(t, logsDir), cacheDir(s))
<1>1. \A a \in DOMAIN t : Below(cacheDir(s), a) => logsDir \notin Prefixes(a)
  BY RunDirsElsewhere DEF IsTree, Below
<1>2. QED
  BY <1>1 DEF SameBelow, RemoveAll

\* Only an extraction for the same directory name touches a cache.
LEMMA OthersUntouched ==
  ASSUME TypeOK, Control, LocalNames, Apart, NEW s \in OperatorSlots, ~Extracting(s), [Next]_vars
  PROVE  SameBelow(tree, tree', cacheDir(s))
<1> USE DEF store, Go
<1> DEFINE c == cacheDir(s)
<1>1. c \in Path /\ c # <<>> /\ IsTree(tree)
  BY CacheShape DEF TypeOK
<1>2. SameBelow(tree, tree, c)
  BY DEF SameBelow
<1> HIDE DEF c
<1>3. ASSUME NEW p \in Procs, Prepare(p) PROVE SameBelow(tree, tree', c)
  <2>1. CASE RunClean(p)
    BY <1>1, <2>1, SameAfterClean DEF RunClean, c
  <2>2. CASE RunMakeDir(p)
    <3>1. cursor[p].layer \in 1..4
      BY <2>2 DEF RunMakeDir, Control, Located
    <3>2. runDirs[cursor[p].layer] \in Path /\ c \notin Prefixes(runDirs[cursor[p].layer])
      BY <3>1, RunDirsArePaths, RunDirsElsewhere DEF c
    <3>3. QED
      BY <1>2, <2>2, <3>2, SameAfterMkdirAll DEF RunMakeDir
  <2>3. CASE CreateLog(p)
    <3>1. c \notin Prefixes(logsFile)
      BY RunDirsElsewhere DEF c
    <3>2. QED
      BY <1>1, <1>2, <2>3, <3>1, SameAfterPut DEF CreateLog
  <2>4. CASE StatCache(p)
    BY <1>2, <2>4 DEF StatCache
  <2>5. CASE MakeCopyDir(p)
    <3>1. copyDir(slot(p)) \in Path /\ c \notin Prefixes(copyDir(slot(p)))
      BY SlotIsSlot, DirsArePaths, CopyDirElsewhere DEF c
    <3>2. QED
      BY <1>2, <2>5, <3>1, SameAfterMkdirAll DEF MakeCopyDir
  <2>6. QED
    BY <1>3, <2>1, <2>2, <2>3, <2>4, <2>5 DEF Prepare
<1>4. ASSUME NEW p \in Procs, pc[p] \in {"untar", "fill"},
             cursor[p].entry \in DOMAIN layers(p)[cursor[p].layer].entries
      PROVE  target(p) \in Path /\ c \notin Prefixes(target(p))
  <2>1. target(p) \in Path /\ entry(p).name \in Path
    BY <1>4, TargetIsPath DEF Entry
  <2>2. slot(p) \in Slots /\ slot(p) # s
    BY <1>4, SlotIsSlot DEF Extracting
  <2>3. QED
    BY <1>4, <2>1, <2>2, LocalEntry, TargetElsewhere DEF c
<1>5. ASSUME NEW p \in Procs, Extract(p) PROVE SameBelow(tree, tree', c)
  <2>1. CASE UntarDir(p)
    <3>1. tree' = tree \/ tree' = MkdirAll(tree, target(p))
      BY <2>1, LocalEntry DEF UntarDir, AtEntry
    <3>2. target(p) \in Path /\ c \notin Prefixes(target(p))
      BY <1>4, <2>1 DEF UntarDir, AtEntry
    <3>3. QED
      BY <1>2, <3>1, <3>2, SameAfterMkdirAll
  <2>2. CASE UntarCreate(p)
    BY <1>1, <1>4, <2>2, SameAfterPut DEF UntarCreate, AtEntry
  <2>3. CASE UntarFill(p)
    <3>1. pc[p] = "fill" /\ \E d : tree' = Put(tree, target(p), d)
      BY <2>3 DEF UntarFill
    <3>2. c \notin Prefixes(target(p))
      BY <1>4, <3>1 DEF Control, Located, layers
    <3>3. QED
      BY <1>1, <3>1, <3>2, SameAfterPut
  <2>4. CASE ~(UntarDir(p) \/ UntarCreate(p) \/ UntarFill(p))
    <3>1. UNCHANGED tree
      BY <1>5, <2>4 DEF Extract, OpenLayer, OpenLayerFails, Extracted, CloseLayer, SkipEntry, UntarFails
    <3>2. QED
      BY <1>2, <3>1
  <2>5. QED
    BY <2>1, <2>2, <2>3, <2>4
<1>6. ASSUME NEW p \in Procs, Kill(p) \/ IOError(p) \/ CopyRetry(p) \/ Copy(p) \/ Locate(p) \/ List(p)
      PROVE UNCHANGED tree
  BY <1>6 DEF Kill, IOError, CopyRetry, Copy, OpenLayout, OpenLayoutFails, Pull, PutImage, PutManifest,
              CommitTruncate, CommitWrite, Locate, ReadIndex, ReadIndexFails, ReadManifest,
              StatLabel, List, ReadConfigs, ReadConfigsFails, ListCatalog, ListDone, ReadSchema
<1>7. ASSUME NEW p \in Procs, NEW kind \in Kinds \cup {"other"}, NEW r \in Refs,
             Start(p, kind, r) \/ Reject(p, kind, r)
      PROVE UNCHANGED tree
  BY <1>7 DEF Start, Reject
<1>8. ASSUME NEW r \in Refs, NEW m \in Images, Push(r, m) PROVE UNCHANGED tree
  BY <1>8 DEF Push
<1>9. CASE UNCHANGED vars
  BY <1>2, <1>9 DEF vars, c
<1>10. QED
  BY <1>2, <1>3, <1>5, <1>6, <1>7, <1>8, <1>9 DEF Next, Step, Finished, c

\* A cache that is whole stays so, unless its own extraction is at work.
LEMMA WholeStays ==
  ASSUME TypeOK, Control, LocalNames, Apart, NEW s \in OperatorSlots, ~Extracting(s), [Next]_vars, HoldsWhole(s)
  PROVE  HoldsWhole(s)'
<1>1. first[s] \in Images /\ first'[s] = first[s]
  BY FirstStays, CacheShape, NodesAssumption DEF HoldsWhole
<1>2. cacheDir(s) \in Path /\ cacheDir(s) # <<>>
  BY CacheShape
<1>3. SameBelow(tree, tree', cacheDir(s))
  BY OthersUntouched
<1>4. Reflects(tree', cacheDir(s), first[s], Positions(first[s]), {})
  BY <1>1, <1>2, <1>3, ReflectsSame DEF HoldsWhole
<1>5. QED
  BY <1>1, <1>4 DEF HoldsWhole
-----------------------------------------------------------------------------
(* Every step keeps the invariant *)

\* The ways out of an extraction.
LEMMA ExtractionEnds ==
  ASSUME TypeOK, [Next]_vars, NEW only, Procs = {only}, pc[only] \in {"layer", "untar", "fill"}
  PROVE  /\ UNCHANGED job
         /\ \/ pc'[only] \in {"layer", "untar", "fill"}
            \/ pc'[only] \in {"err", "killed"} /\ UNCHANGED tree
            \/ Extracted(only)
<1> USE DEF Go, store, local
<1>1. CASE Extract(only)
  BY <1>1 DEF TypeOK, Extract, OpenLayer, OpenLayerFails, CloseLayer, Extracted, SkipEntry, UntarDir,
              UntarCreate, UntarFill, UntarFails, AtEntry
<1>2. CASE Kill(only) \/ IOError(only)
  BY <1>2 DEF TypeOK, Kill, IOError
<1>3. CASE UNCHANGED vars \/ \E r \in Refs, m \in Images : Push(r, m)
  BY <1>3 DEF vars, Push
<1>4. ~Prepare(only) /\ ~Copy(only) /\ ~CopyRetry(only)
  BY DEF Prepare, RunClean, RunMakeDir, CreateLog, StatCache, MakeCopyDir, Copy, OpenLayout,
         OpenLayoutFails, Pull, PutImage, PutManifest, CommitTruncate, CommitWrite, CopyRetry
<1>5. ~Locate(only) /\ ~List(only)
  BY DEF Locate, ReadIndex, ReadIndexFails, ReadManifest, StatLabel, List, ReadConfigs,
         ReadConfigsFails, ListCatalog, ListDone, ReadSchema
<1>6. \A kind, r : ~Start(only, kind, r) /\ ~Reject(only, kind, r)
  BY DEF Start, Reject, Ended
<1>7. QED
  BY <1>1, <1>2, <1>3, <1>4, <1>5, <1>6 DEF Next, Step, Finished

LEMMA NextCachesWhole ==
  ASSUME TypeOK, Control, LocalNames, Oldest, FreshInv, CachesWhole, Apart, [Next]_vars,
         [~CutsOff]_vars, NEW only, Procs = {only}
  PROVE  CachesWhole'
<1> SUFFICES ASSUME NEW s \in OperatorSlots, cacheDir(s) \in DOMAIN tree', ~Extracting(s)'
             PROVE  HoldsWhole(s)'
  BY DEF CachesWhole
<1>1. CASE ~Extracting(s)
  <2>1. cacheDir(s) \in DOMAIN tree
    BY <1>1, OthersUntouched DEF SameBelow
  <2>2. QED
    BY <1>1, <2>1, WholeStays DEF CachesWhole
<1>2. CASE Extracting(s)
  <2>1. slot(only) = s /\ pc[only] \in {"layer", "untar", "fill"} /\ only \in Procs
    BY <1>2 DEF Extracting
  <2>2. job[only].kind = "operator"
    BY <2>1, CacheShape DEF slot, SlotOf
  <2>3. UNCHANGED job /\ slot(only)' = s
    BY <2>1, ExtractionEnds DEF slot
  <2>4. pc'[only] \notin {"layer", "untar", "fill"}
    BY <2>1, <2>3 DEF Extracting
  <2>5. CASE pc'[only] \in {"err", "killed"} /\ UNCHANGED tree
    <3>1. CutsOff
      BY <2>1, <2>2, <2>5 DEF CutsOff
    <3>2. ~UNCHANGED vars
      BY <2>1, <2>4 DEF vars
    <3>3. QED
      BY <3>1, <3>2
  <2>6. CASE Extracted(only)
    <3>1. /\ pc[only] = "layer" /\ UNCHANGED <<tree, first>>
          /\ cursor[only].layer \notin DOMAIN Layers[img[only]]
      BY <2>6 DEF Extracted, Go, store, layers
    <3>2. img[only] = first[s] /\ img[only] \in Images
      BY <2>1, <3>1 DEF Oldest, HoldsFirst, Control, Located
    <3>3. /\ cursor[only].layer \in Nat \ {0}
          /\ Reflects(tree, cacheDir(s), img[only], Upto(img[only], cursor[only].layer, 1), {})
      BY <2>1, <2>2, <3>1 DEF FreshInv, FreshRun, Untarring, Behind
    <3>4. Upto(img[only], cursor[only].layer, 1) = Positions(img[only])
      BY <3>1, <3>2, <3>3, UptoEnd
    <3>5. QED
      BY <3>1, <3>2, <3>3, <3>4 DEF HoldsWhole
  <2>7. QED
    BY <2>1, <2>4, <2>5, <2>6, ExtractionEnds
<1>3. QED
  BY <1>1, <1>2

\* A step that begins or goes on with a listing, or none.
LEMMA ListingSteps ==
  ASSUME TypeOK, [Next]_vars, NEW only, Procs = {only}, pc'[only] \in {"list", "ok"}
  PROVE  \/ ReadConfigs(only) \/ ListCatalog(only) \/ ListDone(only) \/ ReadSchema(only)
         \/ UNCHANGED <<pc, job, todo, shown>>
<1> USE DEF Go, store, local
<1>1. ~Prepare(only)
  BY DEF TypeOK, Prepare, RunClean, RunMakeDir, CreateLog, StatCache, MakeCopyDir, listing
<1>2. ~Copy(only) /\ ~CopyRetry(only)
  BY DEF TypeOK, Copy, OpenLayout, OpenLayoutFails, Pull, PutImage, PutManifest, CommitTruncate,
         CommitWrite, CopyRetry
<1>3. ~Locate(only)
  BY DEF TypeOK, Locate, ReadIndex, ReadIndexFails, ReadManifest, StatLabel, listing
<1>4. ~Extract(only)
  BY DEF TypeOK, Extract, OpenLayer, OpenLayerFails, CloseLayer, Extracted, SkipEntry, UntarDir,
         UntarCreate, UntarFill, UntarFails, AtEntry, listing
<1>5. ~Kill(only) /\ ~IOError(only) /\ ~ReadConfigsFails(only)
  BY DEF TypeOK, Kill, IOError, ReadConfigsFails
<1>6. \A kind, r : ~Start(only, kind, r) /\ ~Reject(only, kind, r)
  BY DEF TypeOK, Start, Reject
<1>7. CASE UNCHANGED vars \/ \E r \in Refs, m \in Images : Push(r, m)
  BY <1>7 DEF vars, Push
<1>8. QED
  BY <1>1, <1>2, <1>3, <1>4, <1>5, <1>6, <1>7 DEF Next, Step, List, Finished

LEMMA NextListsWhole ==
  ASSUME TypeOK, Control, LocalNames, FreshInv, CachesWhole, Apart, [Next]_vars,
         NEW only, Procs = {only}, ListsWhole(only)
  PROVE  ListsWhole(only)'
<1> USE DEF Go, store, local
<1> DEFINE s == slot(only)
           m == first[s]
           c == cacheDir(s)
<1> SUFFICES ASSUME job'[only].kind = "operator", pc'[only] \in {"list", "ok"}
             PROVE  ListsWhole(only)'
  BY DEF ListsWhole
<1>1. /\ only \in Procs /\ Rooted(tree) /\ IsTree(tree) /\ UNCHANGED job
      /\ slot(only)' = s /\ job[only].kind = "operator"
  BY ListingSteps DEF TypeOK, FreshInv, ReadConfigs, ListCatalog, ListDone, ReadSchema, slot
<1>2. s \in OperatorSlots /\ c \in Path /\ c # <<>> /\ configsDir(s) = Append(c, "configs")
  BY <1>1, SlotIsSlot, OperatorNames DEF OperatorSlots, slot, SlotOf
<1>3. m \in Images => first'[s] = m
  BY <1>2, FirstStays, NodesAssumption DEF OperatorSlots
<1>4. ASSUME HoldsWhole(s), pc[only] \in {"readdir", "list"} PROVE HoldsWhole(s)'
  <2>1. \A u \in OperatorSlots : u = s => HoldsWhole(u)'
    <3> SUFFICES ASSUME NEW u \in OperatorSlots, u = s PROVE HoldsWhole(u)'
      OBVIOUS
    <3>1. HoldsWhole(u) /\ ~Extracting(u)
      BY <1>4 DEF Extracting
    <3>2. QED
      BY <3>1, WholeStays
  <2>2. QED
    BY <1>1, <1>2, <2>1 DEF HoldsWhole
<1>5. CASE ReadConfigs(only)
  <2>1. /\ pc[only] = "readdir" /\ pc'[only] = "list" /\ shown' = shown
        /\ todo'[only] = ReadDirNames(tree, configsDir(s)) /\ configsDir(s) \in DOMAIN tree
    BY <1>1, <1>5 DEF TypeOK, ReadConfigs, IsDir
  <2>2. shown[only] = {}
    BY <1>1, <2>1 DEF FreshInv, FreshRun, Unlisted, Steps
  <2>3. cacheDir(s) \in DOMAIN tree
    <3>1. Append(c, "configs") = c \o <<"configs">>
      BY <1>2, SegmentAssumption DEF Path
    <3>2. <<"configs">> \in Path /\ <<"configs">> # <<>>
      BY SegmentAssumption, ShortPath
    <3>3. Below(c, configsDir(s))
      BY <1>2, <3>1, <3>2, ConcatBelow
    <3>4. QED
      BY <1>1, <2>1, <3>3 DEF Rooted, IsDir, Below
  <2>4. HoldsWhole(s)
    BY <1>2, <2>1, <2>3 DEF CachesWhole, Extracting
  <2>5. ReadDirNames(tree, Append(c, "configs")) = OpNames(m)
    BY <1>1, <1>2, <2>4, NamesAreOpNames DEF HoldsWhole
  <2>6. todo'[only] \cup {x.op : x \in shown'[only]} = OpNames(m)
    BY <1>2, <2>1, <2>2, <2>5
  <2>7. HoldsWhole(s)' /\ first'[s] = m
    BY <1>3, <1>4, <2>1, <2>4 DEF HoldsWhole
  <2>8. QED
    BY <1>1, <2>1, <2>2, <2>6, <2>7 DEF ListsWhole
<1>6. CASE ListCatalog(only)
  <2>1. PICK o \in todo[only] :
          /\ pc[only] = "list" /\ pc'[only] = "list" /\ todo'[only] = todo[only] \ {o}
          /\ \E d \in Listed(configsDir(s) \o <<o, "catalog.json">>) :
               shown'[only] = shown[only] \cup {[op |-> o, got |-> d]}
    BY <1>1, <1>6 DEF TypeOK, ListCatalog
  <2>2. PICK d \in Listed(configsDir(s) \o <<o, "catalog.json">>) :
          shown'[only] = shown[only] \cup {[op |-> o, got |-> d]}
    BY <2>1
  <2>3. /\ HoldsWhole(s)
        /\ todo[only] \cup {x.op : x \in shown[only]} = OpNames(m)
        /\ \A x \in shown[only] : x = [op |-> x.op, got |-> FinalData(m, CatalogOf(x.op))]
    BY <1>1, <2>1 DEF ListsWhole
  <2>4. o \in Segment
    BY <1>1 DEF TypeOK
  <2>5. d = FinalData(m, CatalogOf(o))
    BY <1>1, <1>2, <2>2, <2>3, <2>4, ListedIsFinal DEF HoldsWhole
  <2>6. [op |-> o, got |-> d].op = o /\ [op |-> o, got |-> d].got = d
    OBVIOUS
  <2>7. {x.op : x \in shown'[only]} = {x.op : x \in shown[only]} \cup {o}
    BY <2>2, <2>6
  <2>8. todo'[only] \cup {x.op : x \in shown'[only]} = OpNames(m)
    BY <2>1, <2>3, <2>7
  <2>9. \A x \in shown'[only] : x = [op |-> x.op, got |-> FinalData(m, CatalogOf(x.op))]
    BY <2>2, <2>3, <2>5, <2>6
  <2>10. HoldsWhole(s)' /\ first'[s] = m
    BY <1>3, <1>4, <2>1, <2>3 DEF HoldsWhole
  <2>11. QED
    BY <1>1, <2>1, <2>8, <2>9, <2>10 DEF ListsWhole
<1>7. CASE ListDone(only)
  <2>1. pc[only] = "list" /\ pc'[only] = "ok" /\ todo[only] = {} /\ shown' = shown
    BY <1>1, <1>7 DEF TypeOK, ListDone
  <2>2. /\ HoldsWhole(s) /\ {x.op : x \in shown[only]} = OpNames(m)
        /\ \A x \in shown[only] : x = [op |-> x.op, got |-> FinalData(m, CatalogOf(x.op))]
    BY <1>1, <2>1 DEF ListsWhole
  <2>3. Catalogue(m) = {[op |-> o, got |-> FinalData(m, CatalogOf(o))] : o \in OpNames(m)}
    BY DEF Catalogue, OpNames, CatalogOf
  <2>4. ASSUME NEW x \in shown[only] PROVE x \in Catalogue(m)
    BY <2>2, <2>3
  <2>5. ASSUME NEW o \in OpNames(m)
        PROVE  [op |-> o, got |-> FinalData(m, CatalogOf(o))] \in shown[only]
    <3>1. PICK x \in shown[only] : x.op = o
      BY <2>2
    <3>2. x = [op |-> x.op, got |-> FinalData(m, CatalogOf(x.op))]
      BY <2>2
    <3>3. QED
      BY <3>1, <3>2
  <2>6. shown[only] = Catalogue(m)
    BY <2>3, <2>4, <2>5
  <2>7. m \in Images /\ first'[s] = m
    BY <1>3, <2>2 DEF HoldsWhole
  <2>8. QED
    BY <1>1, <2>1, <2>6, <2>7 DEF ListsWhole
<1>8. CASE ReadSchema(only)
  BY <1>1, <1>8 DEF ReadSchema, FreshInv, FreshRun, Unlisted
<1>9. CASE UNCHANGED <<pc, job, todo, shown>>
  <2>1. m \in Images
    BY <1>1, <1>9 DEF ListsWhole, HoldsWhole
  <2>2. pc[only] = "list" => HoldsWhole(s)'
    BY <1>1, <1>4, <1>9 DEF ListsWhole
  <2>3. QED
    BY <1>1, <1>3, <1>9, <2>1, <2>2 DEF ListsWhole
<1>10. QED
  BY <1>5, <1>6, <1>7, <1>8, <1>9, ListingSteps

-----------------------------------------------------------------------------
(* The refinement *)

\* Steps that the abstract cache does not see.
LEMMA UnseenSteps ==
  ASSUME TypeOK, FreshInv, NEW only, Procs = {only},
         Step(only) \/ CopyRetry(only) \/ IOError(only) \/ Kill(only),
         ~CommitWrite(only), ~ListDone(only)
  PROVE  UNCHANGED Cache!vars
<1> USE DEF Go, local, store
<1>1. only \in Procs /\ (pc[only] = "schema" => job[only].kind # "operator")
  BY DEF FreshInv, FreshRun, Unlisted
<1>2. UNCHANGED <<registry, first>>
  BY DEF Step, Prepare, RunClean, RunMakeDir, CreateLog, StatCache, MakeCopyDir,
         Copy, OpenLayout, OpenLayoutFails, Pull, PutImage, PutManifest, CommitTruncate,
         Locate, ReadIndex, ReadIndexFails, ReadManifest, StatLabel,
         Extract, OpenLayer, OpenLayerFails, CloseLayer, Extracted, SkipEntry, UntarDir,
         UntarCreate, UntarFill, UntarFails,
         List, ReadConfigs, ReadConfigsFails, ListCatalog, ReadSchema, CopyRetry, IOError, Kill
<1>3. pc[only] # "ok"
  BY CollectorAssumption
  DEF Step, Prepare, RunClean, RunMakeDir, CreateLog, StatCache, MakeCopyDir,
         Copy, OpenLayout, OpenLayoutFails, Pull, PutImage, PutManifest, CommitTruncate,
         Locate, ReadIndex, ReadIndexFails, ReadManifest, StatLabel,
         Extract, OpenLayer, OpenLayerFails, CloseLayer, Extracted, SkipEntry, UntarDir,
         UntarCreate, UntarFill, UntarFails, AtEntry,
         List, ReadConfigs, ReadConfigsFails, ListCatalog, ReadSchema, CopyRetry, IOError, Kill,
         Steps, Fallible
<1>4. pc'[only] = "ok" => UNCHANGED job /\ job[only].kind # "operator"
  <2>1. ~Prepare(only) \/ pc'[only] # "ok"
    BY <1>1 DEF TypeOK, Prepare, RunClean, RunMakeDir, CreateLog, StatCache, MakeCopyDir, listing
  <2>2. ~Copy(only) \/ CommitWrite(only) \/ pc'[only] # "ok"
    BY <1>1 DEF TypeOK, Copy, OpenLayout, OpenLayoutFails, Pull, PutImage, PutManifest, CommitTruncate
  <2>3. ~Locate(only) \/ pc'[only] # "ok"
    BY <1>1 DEF TypeOK, Locate, ReadIndex, ReadIndexFails, ReadManifest, StatLabel, listing
  <2>4. ~Extract(only) \/ pc'[only] # "ok"
    BY <1>1, <1>3 DEF TypeOK, Extract, OpenLayer, OpenLayerFails, CloseLayer, Extracted, SkipEntry,
         UntarDir, UntarCreate, UntarFill, UntarFails, AtEntry, listing
  <2>5. ~(CopyRetry(only) \/ IOError(only) \/ Kill(only)) \/ pc'[only] # "ok"
    BY <1>1 DEF TypeOK, CopyRetry, IOError, Kill
  <2>6. List(only) /\ ~ListDone(only) /\ pc'[only] = "ok" => ReadSchema(only)
    BY <1>1 DEF TypeOK, List, ReadConfigs, ReadConfigsFails, ListCatalog
  <2>7. ReadSchema(only) => pc[only] = "schema" /\ UNCHANGED job
    BY DEF ReadSchema
  <2>8. QED
    BY <1>1, <2>1, <2>2, <2>3, <2>4, <2>5, <2>6, <2>7 DEF Step
<1>5. told(only) = None /\ told(only)' = None
  BY <1>3, <1>4 DEF told
<1>6. QED
  BY <1>2, <1>5 DEF Cache!vars

\* Every step of the command is a step of the abstract cache, or none.
LEMMA Simulation ==
  ASSUME TypeOK, Control, Stored, FreshInv, AllDenoted, [Next]_vars, NEW only, Procs = {only},
         ListsWhole(only)'
  PROVE  [Cache!Next]_(Cache!vars)
<1> USE DEF Go, local, store
<1>1. only \in Procs /\ slot(only) \in Slots
  BY SlotIsSlot
<1>2. ASSUME NEW r \in Refs, NEW m \in Images, Push(r, m) PROVE Cache!Next
  <2>1. \A p \in Procs : told(p)' = told(p)
    BY <1>2 DEF Push, told, slot
  <2>2. Cache!Publish(r, m)
    BY <1>2, <2>1 DEF Push, Cache!Publish
  <2>3. QED
    BY <2>2 DEF Cache!Next
<1>3. CASE CommitWrite(only)
  <2> DEFINE s == slot(only)
             m == Head(idx[only])
  <2>1. told(only) = None /\ told(only)' = None
    BY <1>1, <1>3 DEF TypeOK, CommitWrite, told
  <2>2. registry' = registry /\ first' = [first EXCEPT ![s] = IF @ = None THEN m ELSE @]
    BY <1>3 DEF CommitWrite
  <2>3. idx[only] \in Seq(Images) /\ idx[only] # <<>> /\ pc[only] = "write"
    BY <1>1, <1>3 DEF TypeOK, Control, Located, CommitWrite
  <2>4. 1 \in DOMAIN idx[only] /\ m = idx[only][1] /\ m \in Images
    BY <2>3
  <2>5. m \in blobs[s]
    BY <1>1, <2>3, <2>4 DEF Stored
  <2>6. DenotedFor(s, m)
    BY <1>1, <2>5 DEF AllDenoted
  <2>7. CASE first[s] # None
    BY <2>1, <2>2, <2>7 DEF TypeOK, Cache!vars
  <2>8. CASE first[s] = None
    <3>1. PICK r \in Refs : imageIndexDir(r) = s.key /\ \E n \in DOMAIN registry[r] : registry[r][n] = m
      BY <2>6 DEF DenotedFor
    <3>2. first' = [first EXCEPT ![s] = m]
      BY <1>1, <2>2, <2>8 DEF TypeOK
    <3>3. Cache!Take(s, r, m)
      BY <1>1, <2>1, <2>2, <2>8, <3>1, <3>2 DEF Cache!Take, Cache!Denoted
    <3>4. QED
      BY <1>1, <2>4, <3>3 DEF Cache!Next
  <2>9. QED
    BY <2>7, <2>8
<1>4. CASE ListDone(only)
  <2>1. /\ pc[only] = "list" /\ pc'[only] = "ok" /\ UNCHANGED <<registry, first, job, shown>>
        /\ slot(only)' = slot(only)
    BY <1>1, <1>4 DEF TypeOK, ListDone, slot
  <2>2. told(only) = None
    BY <2>1 DEF told
  <2>3. CASE job[only].kind # "operator"
    <3>1. told(only)' = None
      BY <2>1, <2>3 DEF told
    <3>2. QED
      BY <2>1, <2>2, <3>1 DEF Cache!vars
  <2>4. CASE job[only].kind = "operator"
    <3>1. first[slot(only)] \in Images /\ shown[only] = Catalogue(first[slot(only)])
      BY <1>1, <2>1, <2>4 DEF ListsWhole
    <3>2. told(only)' = [cache |-> slot(only), shown |-> Catalogue(first[slot(only)])]
      BY <2>1, <2>4, <3>1 DEF told
    <3>3. first[slot(only)] # None
      BY <3>1, NodesAssumption
    <3>4. Cache!Answer(only, slot(only))
      BY <1>1, <2>1, <3>1, <3>2, <3>3 DEF Cache!Answer
    <3>5. QED
      BY <1>1, <3>4 DEF Cache!Next
  <2>5. QED
    BY <2>3, <2>4
<1>5. ASSUME NEW kind, NEW r, Start(only, kind, r) \/ Reject(only, kind, r) PROVE Cache!Next
  <2>1. pc'[only] # "ok" /\ UNCHANGED <<registry, first>>
    BY <1>1, <1>5 DEF TypeOK, Start, Reject
  <2>2. told(only)' = None
    BY <2>1 DEF told
  <2>3. Cache!Ask(only)
    BY <2>1, <2>2 DEF Cache!Ask
  <2>4. QED
    BY <1>1, <2>3 DEF Cache!Next
<1>6. CASE /\ Step(only) \/ CopyRetry(only) \/ IOError(only) \/ Kill(only)
           /\ ~CommitWrite(only) /\ ~ListDone(only)
  BY <1>6, UnseenSteps
<1>7. CASE UNCHANGED vars \/ Finished
  <2>1. UNCHANGED <<registry, first, pc, job, shown>>
    BY <1>7 DEF vars, Finished
  <2>2. told(only)' = told(only)
    BY <2>1 DEF told, slot
  <2>3. QED
    BY <2>1, <2>2 DEF Cache!vars
<1>8. QED
  BY <1>2, <1>3, <1>4, <1>5, <1>6, <1>7 DEF Next

\* Runs that do not overlap, from a directory without operator caches and with no
\* extraction cut off: the command is a cache that takes one snapshot per directory
\* name, of an image a reference of that name has denoted, and every operator run
\* that exits 0, whether it filled the cache or found it, lists that snapshot's
\* complete catalogue (list-images.go:59-150); for any references, any images with
\* no ".." in the names of their entries, tags that move, retries, and kills and
\* faults at any other step.
THEOREM CollectorIsSnapshotCache ==
  ASSUME NEW only, Procs = {only}, LocalNames, Apart, NoCacheHeld
  PROVE  Spec /\ [][~CutsOff]_vars => ListsOneSnapshot
<1> DEFINE I == /\ IInv /\ Indexed /\ Stored /\ Oldest /\ MissStillHolds /\ FreshInv
                /\ SnapshotInv
<1>1. Init => I
  <2> SUFFICES ASSUME Init PROVE I
    OBVIOUS
  <2>1. IInv /\ Indexed /\ Stored
    BY InitIInv, InitStored
  <2>2. Oldest /\ MissStillHolds
    BY DEF Init, Oldest, HeadIsFirst, HoldsFirst, MissStillHolds
  <2>3. FreshInv
    BY InitFresh
  <2>4. CachesWhole
    BY DEF Init, CachesWhole, NoCacheHeld
  <2>5. ListsWhole(only) /\ AllDenoted
    BY DEF Init, ListsWhole, AllDenoted
  <2>6. QED
    BY <2>1, <2>2, <2>3, <2>4, <2>5 DEF SnapshotInv
<1>2. Init => Cache!Init
  <2> SUFFICES ASSUME Init PROVE Cache!Init
    OBVIOUS
  <2>1. told(only) = None
    BY DEF Init, told
  <2>2. registry \in [Refs -> {<<m>> : m \in Images}]
    BY CollectorAssumption DEF Init
  <2>3. QED
    BY <2>1, <2>2 DEF Init, Cache!Init
<1>3. I /\ [Next]_vars /\ [~CutsOff]_vars => I' /\ [Cache!Next]_(Cache!vars)
  <2> SUFFICES ASSUME I, [Next]_vars, [~CutsOff]_vars PROVE I' /\ [Cache!Next]_(Cache!vars)
    OBVIOUS
  <2>1. IInv' /\ Indexed' /\ Stored' /\ Oldest' /\ MissStillHolds' /\ FreshInv'
    BY NextTypeOK, NextControl, NextStored, NextOldest, NextMiss, NextFresh DEF IInv
  <2>2. CachesWhole'
    BY NextCachesWhole DEF IInv, SnapshotInv
  <2>3. ListsWhole(only)'
    BY NextListsWhole DEF IInv, SnapshotInv
  <2>4. AllDenoted'
    BY NextDenoted DEF IInv, SnapshotInv
  <2>5. [Cache!Next]_(Cache!vars)
    BY <2>3, Simulation DEF IInv, SnapshotInv
  <2>6. QED
    BY <2>1, <2>2, <2>3, <2>4, <2>5 DEF SnapshotInv
<1> HIDE DEF I
<1>4. QED
  BY <1>1, <1>2, <1>3, PTL DEF Spec, ListsOneSnapshot, Cache!Spec
=============================================================================
