--------------------------- MODULE CollectorProofs ---------------------------
(***************************************************************************)
(* Theorems about Collector, for any number of overlapping runs, any       *)
(* registry and any images.  The inductive invariant is TypeOK with        *)
(* Control: what a run's variables mean at each of its steps.              *)
(***************************************************************************)
EXTENDS Collector, SequenceTheorems, WellFoundedInduction, TLAPS

-----------------------------------------------------------------------------
(* Paths and trees *)

\* Short sequences of segments are paths, and so are concatenations.
LEMMA ConcatPath ==
  ASSUME NEW a \in Path, NEW b \in Path
  PROVE  a \o b \in Path
BY DEF Path

LEMMA ShortPath ==
  ASSUME NEW a \in Segment, NEW b \in Segment
  PROVE  <<a>> \in Path /\ <<a, b>> \in Path
BY DEF Path

\* The directories a run works in are paths.
LEMMA DirsArePaths ==
  ASSUME NEW s \in Slots
  PROVE  /\ copyDir(s) \in Path /\ cacheDir(s) \in Path /\ toDir(s) \in Path
         /\ configsDir(s) \in Path /\ artifactsFile(s) \in Path
<1>1. s.kind \in Kinds /\ s.key \in Path /\ Tail(s.key) \in Path
      /\ joined(Head(s.key)) \in Segment
  <2>1. PICK r \in Refs : s.key = imageIndexDir(r)
    BY DEF Slots
  <2>2. r.name \in Segment /\ joined(r.name) \in Segment /\ (r.tag # "" => r.tag \in Segment)
    BY RefsAssumption
  <2>3. s.key = <<r.name>> \/ (s.key = <<r.name, r.tag>> /\ r.tag \in Segment)
    BY <2>1, <2>2 DEF imageIndexDir
  <2>4. s.key \in Path
    BY <2>2, <2>3, ShortPath
  <2>5. s.key # <<>> /\ Head(s.key) = r.name
    BY <2>3
  <2>6. Tail(s.key) \in Path
    BY <2>4, <2>5 DEF Path
  <2>7. s.kind \in Kinds
    BY DEF Slots
  <2>8. QED
    BY <2>2, <2>4, <2>5, <2>6, <2>7
<1>2. extractDir(s.kind) \in Segment /\ imageDir(s.kind) \in Segment /\ workingDir \in Segment
      /\ "configs" \in Segment /\ "release-manifests" \in Segment
      /\ "image-references" \in Segment
  BY <1>1, SegmentAssumption
<1>3. copyDir(s) \in Path
  BY <1>1, <1>2, ShortPath, ConcatPath DEF copyDir
<1>4. cacheDir(s) \in Path
  BY <1>1, <1>2, ShortPath, ConcatPath DEF cacheDir
<1>5. toDir(s) \in Path
  BY <1>1, <1>4, ShortPath, ConcatPath DEF toDir
<1>6. configsDir(s) \in Path
  BY <1>2, <1>4 DEF configsDir, Path
<1>7. artifactsFile(s) \in Path
  BY <1>2, <1>4, ShortPath, ConcatPath DEF artifactsFile
<1>8. QED
  BY <1>3, <1>4, <1>5, <1>6, <1>7

LEMMA RunDirsArePaths ==
  ASSUME NEW n \in 1..4
  PROVE  runDirs[n] \in Path
<1>1. /\ workingDir \in Segment /\ "logs" \in Segment
      /\ imageDir("release") \in Segment /\ imageDir("operator") \in Segment
  BY SegmentAssumption DEF Kinds
<1>2. n = 1 \/ n = 2 \/ n = 3 \/ n = 4
  OBVIOUS
<1>3. runDirs[n] \in { <<workingDir>>, <<"logs">>, <<workingDir, imageDir("release")>>,
                      <<workingDir, imageDir("operator")>> }
  BY <1>2 DEF runDirs, logsDir
<1>4. QED
  BY <1>1, <1>3, ShortPath

-----------------------------------------------------------------------------
(* Where the name of a tar entry leads *)

\* A set of numbers that is not empty has a least one.
LEMMA SmallestOf ==
  ASSUME NEW S \in SUBSET Nat, S # {}
  PROVE  \E n \in S : \A m \in S : n <= m
<1>1. \E n \in S : \A m \in S : ~(<<m, n>> \in OpToRel(<, Nat))
  BY WFMin, NatLessThanWellFounded, Zenon
<1>2. PICK n \in S : \A m \in S : ~(m < n)
  BY <1>1, Zenon DEF OpToRel
<1>3. QED
  BY <1>2

\* Each step of the walk takes one segment of the name.
LEMMA WalkSteps ==
  ASSUME NEW q, NEW name \in Path
  PROVE  /\ Walk(q, name)[0] = q
         /\ \A k \in 1..Len(name) :
              Walk(q, name)[k] = IF name[k] = ".." THEN Front(Walk(q, name)[k - 1])
                                 ELSE Append(Walk(q, name)[k - 1], name[k])
<1> DEFINE Is(f, n) ==
      f = [k \in 0..n |-> IF k = 0 THEN q
                          ELSE IF name[k] = ".." THEN Front(f[k - 1])
                          ELSE Append(f[k - 1], name[k])]
<1>1. \A n \in Nat : \E f : Is(f, n)
  <2> DEFINE Bad == {n \in Nat : ~\E f : Is(f, n)}
  <2> SUFFICES ASSUME Bad # {} PROVE FALSE
    OBVIOUS
  <2>1. PICK n \in Bad : \A m \in Bad : n <= m
    BY SmallestOf
  <2>2. CASE n = 0
    <3>1. Is([k \in 0..0 |-> q], 0)
      OBVIOUS
    <3>2. QED
      BY <2>1, <2>2, <3>1
  <2>3. CASE n # 0
    <3>1. n \in Nat /\ n - 1 \in Nat
      BY <2>1, <2>3
    <3> HIDE DEF Bad
    <3>2. n - 1 \notin Bad
      BY <2>1, <3>1
    <3> USE DEF Bad
    <3>8. PICK g : Is(g, n - 1)
      BY <3>1, <3>2
    <3> DEFINE f == [k \in 0..n |-> IF k = 0 THEN q
                                    ELSE IF name[k] = ".." THEN Front(g[k - 1])
                                    ELSE Append(g[k - 1], name[k])]
    <3>3. \A k \in 0..(n - 1) : f[k] = g[k]
      <4>1. \A k \in 0..(n - 1) : k \in 0..n
        BY <3>1
      <4>2. \A k \in 0..(n - 1) : g[k] = IF k = 0 THEN q
                                          ELSE IF name[k] = ".." THEN Front(g[k - 1])
                                          ELSE Append(g[k - 1], name[k])
        BY <3>8, Zenon
      <4>3. QED
        BY <4>1, <4>2
    <3>4. \A k \in 0..n : k # 0 => k - 1 \in 0..(n - 1)
      BY <2>1
    <3>5. f = [k \in 0..n |-> IF k = 0 THEN q
                              ELSE IF name[k] = ".." THEN Front(f[k - 1])
                              ELSE Append(f[k - 1], name[k])]
      BY <3>3, <3>4
    <3> HIDE DEF f
    <3>6. Is(f, n)
      BY <3>5
    <3>7. QED
      BY <2>1, <3>6
  <2>4. QED
    BY <2>2, <2>3
<1>2. Len(name) \in Nat
  BY DEF Path
<1>3. \E f : Is(f, Len(name))
  BY <1>1, <1>2
<1>4. Is(Walk(q, name), Len(name))
  BY <1>3, Zenon DEF Walk
<1>5. \A k \in 0..Len(name) :
        Walk(q, name)[k] = IF k = 0 THEN q
                           ELSE IF name[k] = ".." THEN Front(Walk(q, name)[k - 1])
                           ELSE Append(Walk(q, name)[k - 1], name[k])
  BY <1>4, Zenon
<1>6. 0 \in 0..Len(name) /\ \A k \in 1..Len(name) : k \in 0..Len(name) /\ k # 0
  BY <1>2
<1>7. QED
  BY <1>5, <1>6

\* A path without its last segment is a path.
LEMMA FrontIsPath ==
  ASSUME NEW q \in Path
  PROVE  Front(q) \in Path
BY DEF Front, Path

\* The walk goes from path to path.
LEMMA WalkIsPath ==
  ASSUME NEW q \in Path, NEW name \in Path
  PROVE  \A k \in 0..Len(name) : Walk(q, name)[k] \in Path
<1> DEFINE Bad == {k \in 0..Len(name) : Walk(q, name)[k] \notin Path}
<1> SUFFICES ASSUME Bad # {} PROVE FALSE
  OBVIOUS
<1>1. Len(name) \in Nat /\ \A k \in 1..Len(name) : name[k] \in Segment
  BY DEF Path
<1>2. PICK k \in Bad : \A j \in Bad : k <= j
  <2>1. Bad \in SUBSET Nat
    BY <1>1
  <2>2. QED
    BY <2>1, SmallestOf
<1>3. k # 0
  BY <1>2, WalkSteps
<1>4. k \in 1..Len(name) /\ k - 1 \in 0..Len(name) /\ k - 1 \notin Bad
  BY <1>1, <1>2, <1>3
<1>5. Walk(q, name)[k - 1] \in Path
  BY <1>4
<1>6. Append(Walk(q, name)[k - 1], name[k]) \in Path
  BY <1>1, <1>4, <1>5 DEF Path
<1>7. Walk(q, name)[k] \in Path
  BY <1>4, <1>5, <1>6, WalkSteps, FrontIsPath
<1>8. QED
  BY <1>2, <1>7

LEMMA AppendToConcat ==
  ASSUME NEW q \in Seq(Segment), NEW c \in Seq(Segment), NEW d \in Segment
  PROVE  Append(q \o c, d) = q \o Append(c, d)
<1>1. <<d>> \in Seq(Segment) /\ q \o c \in Seq(Segment)
  OBVIOUS
<1>2. Append(q \o c, d) = (q \o c) \o <<d>> /\ Append(c, d) = c \o <<d>>
  BY <1>1, AppendIsConcat
<1>3. (q \o c) \o <<d>> = q \o (c \o <<d>>)
  BY <1>1, ConcatAssociative
<1>4. QED
  BY <1>2, <1>3

\* A name without ".." leads straight down.
LEMMA WalkIsLocal ==
  ASSUME NEW q \in Path, NEW name \in Path, Local(name)
  PROVE  \A k \in 0..Len(name) : Walk(q, name)[k] = q \o SubSeq(name, 1, k)
<1> DEFINE Bad == {k \in 0..Len(name) : Walk(q, name)[k] # q \o SubSeq(name, 1, k)}
<1> SUFFICES ASSUME Bad # {} PROVE FALSE
  OBVIOUS
<1>1. Len(name) \in Nat /\ name \in Seq(Segment) /\ q \in Seq(Segment)
  BY DEF Path
<1>2. PICK k \in Bad : \A j \in Bad : k <= j
  <2>1. Bad \in SUBSET Nat
    BY <1>1
  <2>2. QED
    BY <2>1, SmallestOf
<1>3. k # 0
  <2>1. q \o SubSeq(name, 1, 0) = q
    BY <1>1
  <2>2. QED
    BY <1>2, <2>1, WalkSteps
<1>4. k \in 1..Len(name) /\ k - 1 \in 0..Len(name) /\ k - 1 \notin Bad
  BY <1>1, <1>2, <1>3
<1>5. Walk(q, name)[k] = Append(q \o SubSeq(name, 1, k - 1), name[k])
  <2>1. Walk(q, name)[k - 1] = q \o SubSeq(name, 1, k - 1)
    BY <1>4
  <2>2. name[k] # ".."
    BY <1>1, <1>4 DEF Local
  <2>3. Walk(q, name)[k] = IF name[k] = ".." THEN Front(Walk(q, name)[k - 1])
                           ELSE Append(Walk(q, name)[k - 1], name[k])
    BY <1>4, WalkSteps
  <2> HIDE DEF Bad
  <2>4. QED
    BY <2>1, <2>2, <2>3
<1>6. Append(q \o SubSeq(name, 1, k - 1), name[k]) = q \o SubSeq(name, 1, k)
  <2>1. SubSeq(name, 1, k) = Append(SubSeq(name, 1, k - 1), name[k])
    BY <1>1, <1>4
  <2>2. SubSeq(name, 1, k - 1) \in Seq(Segment) /\ name[k] \in Segment
    BY <1>1, <1>4
  <2>3. Append(q \o SubSeq(name, 1, k - 1), name[k]) = q \o Append(SubSeq(name, 1, k - 1), name[k])
    BY <1>1, <2>2, AppendToConcat
  <2>4. QED
    BY <2>1, <2>3
<1>7. QED
  BY <1>2, <1>5, <1>6

\* Where a name leads is a path, and so is everything on the way.
LEMMA TrailIsPaths ==
  ASSUME NEW q \in Path, NEW name \in Path
  PROVE  Resolve(q, name) \in Path /\ Trail(q, name) \subseteq Path
<1>1. Len(name) \in 0..Len(name)
  BY DEF Path
<1>2. \A a \in Path : Prefixes(a) \subseteq Path
  BY DEF Prefixes, Path
<1>3. QED
  BY <1>1, <1>2, WalkIsPath DEF Resolve, Trail

\* Without ".." a name leads to the place below q that it spells.
LEMMA LocalLeadsBelow ==
  ASSUME NEW q \in Path, NEW name \in Path, Local(name)
  PROVE  /\ Resolve(q, name) = q \o name
         /\ Trail(q, name) = Prefixes(q \o name)
<1>1. Len(name) \in Nat /\ name \in Seq(Segment) /\ q \in Seq(Segment)
  BY DEF Path
<1>2. \A k \in 0..Len(name) : Walk(q, name)[k] = q \o SubSeq(name, 1, k)
  BY WalkIsLocal
<1>3. Len(name) \in 0..Len(name) /\ SubSeq(name, 1, Len(name)) = name
  BY <1>1
<1>4. Walk(q, name)[Len(name)] = q \o name
  BY <1>2, <1>3
<1>5. ASSUME NEW k \in 0..Len(name) PROVE Prefixes(q \o SubSeq(name, 1, k)) \subseteq Prefixes(q \o name)
  <2> DEFINE a == q \o SubSeq(name, 1, k)
             b == q \o name
  <2>1. SubSeq(name, 1, k) \in Seq(Segment) /\ Len(SubSeq(name, 1, k)) = k
        /\ \A i \in 1..k : SubSeq(name, 1, k)[i] = name[i]
    BY <1>1
  <2>2. Len(a) = Len(q) + k /\ Len(b) = Len(q) + Len(name) /\ Len(q) \in Nat
        /\ a \in Seq(Segment) /\ b \in Seq(Segment)
    BY <1>1, <2>1
  <2>3. \A i \in 1..Len(a) : a[i] = b[i]
    BY <1>1, <2>1
  <2> HIDE DEF a, b
  <2>4. ASSUME NEW n \in 1..Len(a) PROVE n \in 1..Len(b) /\ SubSeq(a, 1, n) = SubSeq(b, 1, n)
    <3>1. n \in 1..Len(b)
      BY <1>1, <2>2
    <3>2. /\ Len(SubSeq(a, 1, n)) = n /\ Len(SubSeq(b, 1, n)) = n
          /\ SubSeq(a, 1, n) \in Seq(Segment) /\ SubSeq(b, 1, n) \in Seq(Segment)
          /\ \A i \in 1..n : SubSeq(a, 1, n)[i] = a[i] /\ SubSeq(b, 1, n)[i] = b[i]
      BY <2>2, <3>1
    <3>3. SubSeq(a, 1, n) = SubSeq(b, 1, n)
      BY <2>2, <2>3, <3>2
    <3>4. QED
      BY <3>1, <3>3
  <2>5. Prefixes(a) \subseteq Prefixes(b)
    BY <2>4 DEF Prefixes
  <2>6. QED
    BY <2>5 DEF a, b
<1>6. Trail(q, name) = Prefixes(q \o name)
  BY <1>2, <1>3, <1>4, <1>5 DEF Trail
<1>7. QED
  BY <1>4, <1>6 DEF Resolve

-----------------------------------------------------------------------------
(* The operations on the tree *)

\* Directories, Create and RemoveAll keep the tree a tree.
LEMMA MakeTree ==
  ASSUME NEW t, IsTree(t), NEW D \in SUBSET Path
  PROVE  IsTree(Make(t, D))
BY DEF IsTree, Make, Node

LEMMA MkdirAllTree ==
  ASSUME NEW t, IsTree(t), NEW q \in Path
  PROVE  IsTree(MkdirAll(t, q))
<1>1. Prefixes(q) \subseteq Path
  BY DEF Prefixes, Path
<1>2. QED
  BY <1>1, MakeTree DEF MkdirAll

LEMMA PutTree ==
  ASSUME NEW t, IsTree(t), NEW q \in Path, NEW d \in Node
  PROVE  IsTree(Put(t, q, d))
BY DEF IsTree, Put

LEMMA RemoveAllTree ==
  ASSUME NEW t, IsTree(t), NEW q
  PROVE  IsTree(RemoveAll(t, q))
BY DEF IsTree, RemoveAll

\* The names in a directory are file names.
LEMMA NamesAreSegments ==
  ASSUME NEW t, IsTree(t), NEW q \in Path
  PROVE  ReadDirNames(t, q) \subseteq Segment
<1> SUFFICES ASSUME NEW a \in DOMAIN t, Len(a) = Len(q) + 1
             PROVE  a[Len(q) + 1] \in Segment
  BY DEF ReadDirNames
<1>1. a \in Seq(Segment) /\ Len(q) \in Nat
  BY DEF IsTree, Path
<1>2. QED
  BY <1>1

\* A layer's entries have names that are paths and contents that are data.
LEMMA EntriesAreTyped ==
  ASSUME NEW m \in Images, NEW l \in DOMAIN Layers[m],
         NEW n \in DOMAIN Layers[m][l].entries
  PROVE  /\ Layers[m][l].entries[n] \in Entry
         /\ Layers[m][l].entries[n] \in Entries(m)
<1>1. Layers[m] \in Seq(Layer)
  BY ImagesAssumption
<1>2. Layers[m][l] \in Layer
  BY <1>1
<1>3. Layers[m][l].entries \in Seq(Entry)
  BY <1>2 DEF Layer
<1>4. Layers[m][l].entries[n] \in Entry
  BY <1>3
<1>5. QED
  BY <1>4 DEF Entries

-----------------------------------------------------------------------------
(* The inductive invariant *)

\* What the variables of a run mean at each of its steps.
Located(p) ==
  /\ pc[p] = "clean" => cursor[p].layer = 1
  /\ pc[p] = "mkdir" => cursor[p].layer \in 1..4
  /\ pc[p] \in {"put", "seal", "commit", "write", "manifest", "label", "layer", "untar",
                "fill"} => img[p] \in Images
  /\ pc[p] \in {"commit", "write"} => idx[p] # <<>>
  /\ pc[p] \in {"untar", "fill"} => cursor[p].layer \in DOMAIN Layers[img[p]]
  /\ pc[p] = "fill" =>
       /\ cursor[p].entry \in DOMAIN Layers[img[p]][cursor[p].layer].entries
       /\ entry(p).type = "reg"

Control == \A p \in Procs : Located(p)

IInv == TypeOK /\ Control

LEMMA InitIInv == Init => IInv
<1> SUFFICES ASSUME Init PROVE IInv
  OBVIOUS
<1>1. TypeOK
  <2>1. registry \in [Refs -> Seq(Images) \ {<<>>}]
    BY CollectorAssumption DEF Init
  <2>2. IsTree(tree)
    BY CollectorAssumption DEF Init
  <2>3. job \in [Procs -> Jobs]
    <3>1. PICK r \in Refs : TRUE
      BY CollectorAssumption
    <3>2. [kind |-> "operator", ref |-> r] \in Jobs
      BY DEF Jobs, Kinds
    <3>3. (CHOOSE j \in Jobs : TRUE) \in Jobs
      BY <3>2
    <3>4. QED
      BY <3>3 DEF Init
  <2>4. attempt \in [Procs -> 0..MaxRetry] /\ left \in Bounds
    BY CollectorAssumption DEF Init
  <2>5. QED
    BY <2>1, <2>2, <2>3, <2>4 DEF Init, TypeOK, Ended
<1>2. Control
  BY DEF Init, Control, Located
<1>3. QED
  BY <1>1, <1>2 DEF IInv

\* The place an entry is extracted to is a path.
LEMMA TargetIsPath ==
  ASSUME TypeOK, Control, NEW p \in Procs, pc[p] \in {"untar", "fill"},
         cursor[p].entry \in DOMAIN layers(p)[cursor[p].layer].entries
  PROVE  /\ target(p) \in Path /\ trail(p) \subseteq Path
         /\ entry(p) \in Entry /\ entry(p) \in Entries(img[p])
<1>1. img[p] \in Images /\ cursor[p].layer \in DOMAIN Layers[img[p]]
  BY DEF Control, Located
<1>2. entry(p) \in Entry /\ entry(p) \in Entries(img[p])
  BY <1>1, EntriesAreTyped DEF layers, entry
<1>3. slot(p) \in Slots
  BY DEF TypeOK, Jobs, slot, SlotOf, Slots
<1>4. toDir(slot(p)) \in Path
  BY <1>3, DirsArePaths
<1>5. entry(p).name \in Path
  BY <1>2 DEF Entry
<1>6. QED
  BY <1>2, <1>4, <1>5, TrailIsPaths DEF target, trail

\* What the steps of untar do for a name without "..".
LEMMA LocalEntry ==
  ASSUME TypeOK, Control, LocalNames, NEW p \in Procs, pc[p] \in {"untar", "fill"},
         cursor[p].entry \in DOMAIN layers(p)[cursor[p].layer].entries
  PROVE  /\ target(p) = toDir(slot(p)) \o entry(p).name
         /\ makeable(p) => entry(p).name = <<>> \/ CanMkdirAll(tree, target(p))
         /\ Make(tree, trail(p)) = MkdirAll(tree, target(p))
         /\ creatable(p) => CanCreate(tree, target(p))
<1>1. img[p] \in Images /\ entry(p) \in Entry /\ entry(p) \in Entries(img[p])
  BY TargetIsPath DEF Control, Located
<1>2. entry(p).name \in Path /\ Local(entry(p).name)
  BY <1>1 DEF LocalNames, Entry
<1>3. slot(p) \in Slots
  BY DEF TypeOK, Jobs, slot, SlotOf, Slots
<1>4. toDir(slot(p)) \in Path
  BY <1>3, DirsArePaths
<1>5. /\ Resolve(toDir(slot(p)), entry(p).name) = toDir(slot(p)) \o entry(p).name
      /\ Trail(toDir(slot(p)), entry(p).name) = Prefixes(toDir(slot(p)) \o entry(p).name)
  BY <1>2, <1>4, LocalLeadsBelow
<1>6. target(p) = toDir(slot(p)) \o entry(p).name
  BY <1>5 DEF target
<1>7. trail(p) = Prefixes(target(p))
  BY <1>5, <1>6 DEF trail
<1>8. QED
  BY <1>6, <1>7 DEF makeable, creatable, MkdirAll, CanMkdirAll

LEMMA SlotIsSlot ==
  ASSUME TypeOK, NEW p \in Procs
  PROVE  slot(p) \in Slots
BY DEF TypeOK, Jobs, slot, SlotOf, Slots

\* addManifest lists the image it is given and what was listed before.
LEMMA AddManifestLists ==
  ASSUME NEW ms \in Seq(Images), NEW m \in Images
  PROVE  /\ addManifest(ms, m) \in Seq(Images) \ {<<>>}
         /\ \A n \in DOMAIN addManifest(ms, m) :
              addManifest(ms, m)[n] = m \/ \E k \in DOMAIN ms : addManifest(ms, m)[n] = ms[k]
<1>1. CASE \E n \in DOMAIN ms : ms[n] = m
  BY <1>1 DEF addManifest
<1>2. CASE ~\E n \in DOMAIN ms : ms[n] = m
  <2>1. addManifest(ms, m) = Append(ms, m)
    BY <1>2 DEF addManifest
  <2>2. /\ Append(ms, m) \in Seq(Images) /\ Append(ms, m) # <<>>
        /\ Len(Append(ms, m)) = Len(ms) + 1
        /\ \A n \in 1..Len(ms) : Append(ms, m)[n] = ms[n]
        /\ Append(ms, m)[Len(ms) + 1] = m
    BY AppendProperties
  <2>3. QED
    BY <2>1, <2>2
<1>3. QED
  BY <1>1, <1>2

\* What is left of the budget stays a natural number.
LEMMA SpendBounds ==
  ASSUME TypeOK, NEW f \in {"runs", "pushes", "kills", "faults"}, Spend(f)
  PROVE  left' \in Bounds
<1>1. left \in [runs : Nat, pushes : Nat, kills : Nat, faults : Nat]
  BY DEF TypeOK, Bounds
<1>2. left[f] \in Nat /\ left[f] > 0
  BY <1>1 DEF Spend
<1>3. left[f] - 1 \in Nat
  BY <1>2
<1>4. QED
  BY <1>1, <1>3 DEF Spend, Bounds

\* Moving the cursor of a run keeps its type.
LEMMA CursorMoves ==
  ASSUME TypeOK, NEW p \in Procs
  PROVE  /\ [cursor EXCEPT ![p].layer = @ + 1] \in [Procs -> [layer : Nat, entry : Nat]]
         /\ [cursor EXCEPT ![p].entry = @ + 1] \in [Procs -> [layer : Nat, entry : Nat]]
         /\ [cursor EXCEPT ![p].entry = 1] \in [Procs -> [layer : Nat, entry : Nat]]
<1>1. cursor \in [Procs -> [layer : Nat, entry : Nat]]
  BY DEF TypeOK
<1>2. [cursor EXCEPT ![p].layer = @ + 1] \in [Procs -> [layer : Nat, entry : Nat]]
  BY <1>1
<1>3. [cursor EXCEPT ![p].entry = @ + 1] \in [Procs -> [layer : Nat, entry : Nat]]
  BY <1>1
<1>4. [cursor EXCEPT ![p].entry = 1] \in [Procs -> [layer : Nat, entry : Nat]]
  BY <1>1
<1>5. QED
  BY <1>2, <1>3, <1>4

\* Every step keeps the types.
LEMMA NextTypeOK ==
  ASSUME TypeOK, Control, [Next]_vars
  PROVE  TypeOK'
<1> USE DEF Go, local, store
<1>1. ASSUME NEW r \in Refs, NEW m \in Images, Push(r, m) PROVE TypeOK'
  <2>1. registry[r] \in Seq(Images)
    BY DEF TypeOK
  <2>2. Append(registry[r], m) \in Seq(Images) \ {<<>>}
    BY <2>1, AppendProperties
  <2>3. registry' \in [Refs -> Seq(Images) \ {<<>>}]
    BY <1>1, <2>2 DEF TypeOK, Push
  <2>4. QED
    BY <1>1, <2>3, SpendBounds DEF TypeOK, Push
<1>2. ASSUME NEW p \in Procs, Kill(p) \/ IOError(p) PROVE TypeOK'
  BY <1>2, SpendBounds DEF TypeOK, Kill, IOError, Ended
<1>3. ASSUME NEW p \in Procs, CopyRetry(p) PROVE TypeOK'
  BY <1>3, CollectorAssumption DEF TypeOK, CopyRetry, Steps
<1>4. ASSUME NEW p \in Procs, NEW kind \in Kinds \cup {"other"}, NEW r \in Refs, Start(p, kind, r)
      PROVE TypeOK'
  <2>1. kind \in Kinds /\ job' \in [Procs -> Jobs]
    BY <1>4 DEF TypeOK, Start, Validate, Jobs
  <2>2. left' \in Bounds
    BY <1>4, SpendBounds DEF Start
  <2>3. attempt' \in [Procs -> 0..MaxRetry]
    BY <1>4, CollectorAssumption DEF TypeOK, Start
  <2>4. cursor' \in [Procs -> [layer : Nat, entry : Nat]]
    BY <1>4 DEF TypeOK, Start
  <2>5. pc' \in [Procs -> Steps \cup Ended]
    BY <1>4 DEF TypeOK, Start, Steps
  <2>6. QED
    BY <1>4, <2>1, <2>2, <2>3, <2>4, <2>5 DEF TypeOK, Start
<1>5. ASSUME NEW p \in Procs, NEW kind \in Kinds \cup {"other"}, NEW r \in Refs, Reject(p, kind, r)
      PROVE TypeOK'
  BY <1>5, SpendBounds DEF TypeOK, Reject, Ended
<1>6. ASSUME NEW p \in Procs, RunClean(p) PROVE TypeOK'
  BY <1>6, RemoveAllTree DEF TypeOK, RunClean, Steps
<1>7. ASSUME NEW p \in Procs, RunMakeDir(p) PROVE TypeOK'
  <2>1. cursor[p].layer \in 1..4
    BY <1>7 DEF RunMakeDir, Control, Located
  <2>2. IsTree(tree')
    BY <1>7, <2>1, RunDirsArePaths, MkdirAllTree DEF TypeOK, RunMakeDir
  <2>3. cursor' \in [Procs -> [layer : Nat, entry : Nat]]
    BY <1>7, CursorMoves DEF RunMakeDir
  <2>4. pc' \in [Procs -> Steps \cup Ended]
    BY <1>7 DEF TypeOK, RunMakeDir, Steps, Ended
  <2>5. QED
    BY <1>7, <2>2, <2>3, <2>4 DEF TypeOK, RunMakeDir
<1>8. ASSUME NEW p \in Procs, CreateLog(p) PROVE TypeOK'
  BY <1>8, PutTree, ShortPath, SegmentAssumption DEF TypeOK, CreateLog, Steps, logsFile, Node
<1>9. ASSUME NEW p \in Procs, StatCache(p) PROVE TypeOK'
  BY <1>9 DEF TypeOK, StatCache, Steps, listing
<1>10. ASSUME NEW p \in Procs, MakeCopyDir(p) PROVE TypeOK'
  BY <1>10, MkdirAllTree, SlotIsSlot, DirsArePaths DEF TypeOK, MakeCopyDir, Steps, Ended
<1>11. ASSUME NEW p \in Procs, OpenLayout(p) PROVE TypeOK'
  BY <1>11, SlotIsSlot DEF TypeOK, OpenLayout, Steps
<1>12. ASSUME NEW p \in Procs, OpenLayoutFails(p) \/ ReadIndexFails(p) \/ OpenLayerFails(p)
                               \/ UntarFails(p) \/ ReadConfigsFails(p)
       PROVE TypeOK'
  BY <1>12 DEF TypeOK, OpenLayoutFails, ReadIndexFails, OpenLayerFails, UntarFails,
               ReadConfigsFails, Ended
<1>13. ASSUME NEW p \in Procs, Pull(p) PROVE TypeOK'
  BY <1>13 DEF TypeOK, Pull, Steps, Jobs
<1>14. ASSUME NEW p \in Procs, PutImage(p) PROVE TypeOK'
  BY <1>14, SlotIsSlot DEF TypeOK, PutImage, Steps, Control, Located
<1>15. ASSUME NEW p \in Procs, CommitTruncate(p) PROVE TypeOK'
  BY <1>15, SlotIsSlot DEF TypeOK, CommitTruncate, Steps
<1>16. ASSUME NEW p \in Procs, CommitWrite(p) PROVE TypeOK'
  BY <1>16, SlotIsSlot DEF TypeOK, CommitWrite, Steps, Control, Located
<1>17. ASSUME NEW p \in Procs, ReadIndex(p) PROVE TypeOK'
  BY <1>17, SlotIsSlot DEF TypeOK, ReadIndex, Steps
<1>18. ASSUME NEW p \in Procs, ReadManifest(p) \/ Extracted(p) \/ ListDone(p) PROVE TypeOK'
  BY <1>18 DEF TypeOK, ReadManifest, Extracted, ListDone, Steps, Ended, listing
<1>19. ASSUME NEW p \in Procs, StatLabel(p) \/ OpenLayer(p) \/ CloseLayer(p) \/ SkipEntry(p)
       PROVE TypeOK'
  <2>1. cursor' \in [Procs -> [layer : Nat, entry : Nat]]
    <3>1. CASE StatLabel(p)
      BY <3>1 DEF TypeOK, StatLabel
    <3>2. CASE OpenLayer(p)
      BY <3>2, CursorMoves DEF OpenLayer
    <3>3. CASE CloseLayer(p)
      BY <3>3, CursorMoves DEF CloseLayer
    <3>4. CASE SkipEntry(p)
      BY <3>4, CursorMoves DEF SkipEntry, NextEntry
    <3>5. QED
      BY <1>19, <3>1, <3>2, <3>3, <3>4
  <2>2. pc' \in [Procs -> Steps \cup Ended]
    BY <1>19, ZenonT(40) DEF TypeOK, StatLabel, OpenLayer, CloseLayer, SkipEntry, Steps, listing
  <2>3. QED
    BY <1>19, <2>1, <2>2 DEF TypeOK, StatLabel, OpenLayer, CloseLayer, SkipEntry
<1>20. ASSUME NEW p \in Procs, UntarDir(p) PROVE TypeOK'
  <2>1. trail(p) \subseteq Path
    BY <1>20, TargetIsPath DEF UntarDir, AtEntry
  <2>2. IsTree(tree) /\ IsTree(Make(tree, trail(p)))
    BY <2>1, MakeTree DEF TypeOK
  <2>3. IsTree(tree')
    BY <1>20, <2>2 DEF UntarDir
  <2>4. cursor' \in [Procs -> [layer : Nat, entry : Nat]]
    BY <1>20, CursorMoves DEF UntarDir, NextEntry
  <2>5. QED
    BY <1>20, <2>3, <2>4 DEF TypeOK, UntarDir
<1>21. ASSUME NEW p \in Procs, UntarCreate(p) PROVE TypeOK'
  BY <1>21, TargetIsPath, PutTree DEF TypeOK, UntarCreate, AtEntry, Steps, Node
<1>22. ASSUME NEW p \in Procs, UntarFill(p) PROVE TypeOK'
  BY <1>22, TargetIsPath, PutTree DEF TypeOK, UntarFill, NextEntry, Steps, Node, Written, Control, Located, Entry, layers
<1>23. ASSUME NEW p \in Procs, ReadConfigs(p) PROVE TypeOK'
  BY <1>23, SlotIsSlot, DirsArePaths, NamesAreSegments DEF TypeOK, ReadConfigs, Steps
<1>24. ASSUME NEW p \in Procs, ListCatalog(p) PROVE TypeOK'
  BY <1>24 DEF TypeOK, ListCatalog, Listed, IsTree, Node, IsDir
<1>25. ASSUME NEW p \in Procs, ReadSchema(p) PROVE TypeOK'
  BY <1>25, SegmentAssumption DEF TypeOK, ReadSchema, Steps, Ended
<1>26. ASSUME NEW p \in Procs, PutManifest(p) PROVE TypeOK'
  BY <1>26, SlotIsSlot, AddManifestLists DEF TypeOK, PutManifest, Steps, Control, Located
<1>27. CASE UNCHANGED vars
  BY <1>27 DEF TypeOK, vars
<1>28. QED
  BY <1>1, <1>2, <1>3, <1>4, <1>5, <1>6, <1>7, <1>8, <1>9, <1>10, <1>11, <1>12, <1>13,
     <1>14, <1>15, <1>16, <1>17, <1>18, <1>19, <1>20, <1>21, <1>22, <1>23, <1>24, <1>25,
     <1>26, <1>27
  DEF Next, Step, Prepare, Copy, Locate, Extract, List, Finished

\* A reference always denotes an image.
LEMMA CurrentIsImage ==
  ASSUME TypeOK, NEW r \in Refs
  PROVE  registry[r][Len(registry[r])] \in Images
BY DEF TypeOK

\* Every step keeps what the variables of a run mean.
LEMMA NextControl ==
  ASSUME TypeOK, Control, [Next]_vars
  PROVE  Control'
<1> USE DEF Control, Located, Go, local, store, layers, entry
<1>1. ASSUME NEW r \in Refs, NEW m \in Images, Push(r, m) PROVE Control'
  BY <1>1 DEF TypeOK, Push
<1>2. ASSUME NEW p \in Procs, Kill(p) \/ IOError(p) PROVE Control'
  BY <1>2 DEF TypeOK, Kill, IOError
<1>3. ASSUME NEW p \in Procs, CopyRetry(p) PROVE Control'
  BY <1>3 DEF TypeOK, CopyRetry
<1>4. ASSUME NEW p \in Procs, NEW kind \in Kinds \cup {"other"}, NEW r \in Refs, Start(p, kind, r)
      PROVE Control'
  BY <1>4 DEF TypeOK, Start
<1>5. ASSUME NEW p \in Procs, NEW kind \in Kinds \cup {"other"}, NEW r \in Refs, Reject(p, kind, r)
      PROVE Control'
  BY <1>5 DEF TypeOK, Reject
<1>6. ASSUME NEW p \in Procs, Prepare(p) PROVE Control'
  <2>1. CASE RunClean(p)
    BY <2>1, SMTT(30) DEF TypeOK, RunClean
  <2>2. CASE RunMakeDir(p)
    BY <2>2, SMTT(30) DEF TypeOK, RunMakeDir, runDirs
  <2>3. CASE CreateLog(p)
    BY <2>3 DEF TypeOK, CreateLog
  <2>4. CASE StatCache(p)
    BY <2>4 DEF TypeOK, StatCache, listing
  <2>5. CASE MakeCopyDir(p)
    BY <2>5 DEF TypeOK, MakeCopyDir
  <2>6. QED
    BY <1>6, <2>1, <2>2, <2>3, <2>4, <2>5 DEF Prepare
<1>7. ASSUME NEW p \in Procs, Copy(p) PROVE Control'
  <2>1. CASE OpenLayout(p) \/ OpenLayoutFails(p)
    BY <2>1, ZenonT(40) DEF TypeOK, OpenLayout, OpenLayoutFails
  <2>2. CASE Pull(p)
    <3>1. registry[job[p].ref][Len(registry[job[p].ref])] \in Images
      BY CurrentIsImage DEF TypeOK, Jobs
    <3>2. QED
      BY <2>2, <3>1 DEF TypeOK, Pull
  <2>3. CASE PutManifest(p)
    <3>1. addManifest(idx[p], img[p]) # <<>>
      BY <2>3, AddManifestLists DEF TypeOK, PutManifest
    <3>2. QED
      BY <2>3, <3>1 DEF TypeOK, PutManifest
  <2>4. CASE CommitTruncate(p) \/ CommitWrite(p)
    BY <2>4, ZenonT(40) DEF TypeOK, CommitTruncate, CommitWrite
  <2>5. CASE PutImage(p)
    BY <2>5 DEF TypeOK, PutImage
  <2>6. QED
    BY <1>7, <2>1, <2>2, <2>3, <2>4, <2>5 DEF Copy
<1>8. ASSUME NEW p \in Procs, Locate(p) PROVE Control'
  <2>1. CASE ReadIndex(p)
    BY <2>1, SlotIsSlot, SMTT(30) DEF TypeOK, ReadIndex
  <2>2. CASE ReadIndexFails(p) \/ ReadManifest(p)
    BY <2>2, ZenonT(40) DEF TypeOK, ReadIndexFails, ReadManifest
  <2>3. CASE StatLabel(p)
    BY <2>3 DEF TypeOK, StatLabel, listing
  <2>4. QED
    BY <1>8, <2>1, <2>2, <2>3 DEF Locate
<1>9. ASSUME NEW p \in Procs, Extract(p) PROVE Control'
  <2>1. CASE OpenLayer(p)
    BY <2>1, SMTT(30) DEF TypeOK, OpenLayer
  <2>2. CASE OpenLayerFails(p) \/ UntarFails(p)
    BY <2>2 DEF TypeOK, OpenLayerFails, UntarFails, AtEntry
  <2>3. CASE Extracted(p)
    BY <2>3 DEF TypeOK, Extracted, listing
  <2>4. CASE CloseLayer(p)
    BY <2>4 DEF TypeOK, CloseLayer
  <2>5. CASE SkipEntry(p) \/ UntarDir(p)
    <3>1. pc[p] = "untar" /\ UNCHANGED <<pc, img, idx>> /\ NextEntry(p)
      BY <2>5 DEF SkipEntry, UntarDir, AtEntry
    <3>2. cursor'[p].layer = cursor[p].layer /\ \A q \in Procs \ {p} : cursor'[q] = cursor[q]
      BY <3>1 DEF TypeOK, NextEntry
    <3>3. QED
      BY <3>1, <3>2
  <2>6. CASE UntarCreate(p)
    BY <2>6 DEF TypeOK, UntarCreate, AtEntry
  <2>7. CASE UntarFill(p)
    BY <2>7, ZenonT(40) DEF TypeOK, UntarFill, NextEntry
  <2>8. QED
    BY <1>9, <2>1, <2>2, <2>3, <2>4, <2>5, <2>6, <2>7 DEF Extract
<1>10. ASSUME NEW p \in Procs, List(p) PROVE Control'
  BY <1>10, SMTT(30) DEF TypeOK, List, ReadConfigs, ReadConfigsFails, ListCatalog, ListDone, ReadSchema
<1>11. CASE UNCHANGED vars
  BY <1>11 DEF vars
<1>12. QED
  BY <1>1, <1>2, <1>3, <1>4, <1>5, <1>6, <1>7, <1>8, <1>9, <1>10, <1>11
  DEF Next, Step, Finished

\* The type of every variable, at every step of every run.
THEOREM TypeCorrect == Spec => []TypeOK
<1>1. IInv /\ [Next]_vars => IInv'
  BY NextTypeOK, NextControl DEF IInv
<1>2. IInv => TypeOK
  BY DEF IInv
<1>3. QED
  BY InitIInv, <1>1, <1>2, PTL DEF Spec

-----------------------------------------------------------------------------
(* index.json and the blobs *)

\* What a run is about to commit, and what it extracts, is in the layout.
Stored ==
  \A p \in Procs :
    /\ pc[p] \in {"pull", "put", "seal", "commit", "write"} =>
         \A n \in DOMAIN idx[p] : idx[p][n] \in blobs[slot(p)]
    /\ pc[p] \in {"seal", "manifest", "label", "layer", "untar", "fill"} =>
         img[p] \in blobs[slot(p)]

\* IndexClosed with the slots and the runs it speaks of.
Indexed ==
  \A s \in Slots : index[s] # Torn => \A n \in DOMAIN index[s] : index[s][n] \in blobs[s]

LEMMA NextStored ==
  ASSUME TypeOK, Control, Indexed, Stored, [Next]_vars
  PROVE  Indexed' /\ Stored'
<1> USE DEF Indexed, Stored, Go, local, store, slot
<1>1. ASSUME NEW r \in Refs, NEW m \in Images, Push(r, m) PROVE Indexed' /\ Stored'
  BY <1>1 DEF TypeOK, Push
<1>2. ASSUME NEW p \in Procs, Kill(p) \/ IOError(p) PROVE Indexed' /\ Stored'
  BY <1>2 DEF TypeOK, Kill, IOError
<1>3. ASSUME NEW p \in Procs, CopyRetry(p) PROVE Indexed' /\ Stored'
  BY <1>3 DEF TypeOK, CopyRetry
<1>4. ASSUME NEW p \in Procs, NEW kind \in Kinds \cup {"other"}, NEW r \in Refs,
             Start(p, kind, r) \/ Reject(p, kind, r)
      PROVE Indexed' /\ Stored'
  BY <1>4, ZenonT(40) DEF TypeOK, Start, Reject
<1>5. ASSUME NEW p \in Procs, Prepare(p) PROVE Indexed' /\ Stored'
  BY <1>5, ZenonT(40) DEF TypeOK, Prepare, RunClean, RunMakeDir, CreateLog, StatCache, MakeCopyDir, listing
<1>6. ASSUME NEW p \in Procs, Copy(p) PROVE Indexed' /\ Stored'
  <2> slot(p) \in Slots
    BY SlotIsSlot
  <2>1. CASE OpenLayout(p)
    BY <2>1 DEF TypeOK, OpenLayout
  <2>2. CASE OpenLayoutFails(p)
    BY <2>2 DEF TypeOK, OpenLayoutFails
  <2>3. CASE Pull(p)
    BY <2>3 DEF TypeOK, Pull
  <2>4. CASE PutManifest(p)
    <3>1. /\ \A q \in Procs \ {p} : idx'[q] = idx[q] /\ pc'[q] = pc[q]
          /\ pc[p] = "seal" /\ pc'[p] = "commit" /\ UNCHANGED <<job, img, index, blobs>>
          /\ idx'[p] = addManifest(idx[p], img[p])
      BY <2>4 DEF TypeOK, PutManifest
    <3>2. \A n \in DOMAIN idx'[p] :
            idx'[p][n] = img[p] \/ \E k \in DOMAIN idx[p] : idx'[p][n] = idx[p][k]
      BY <3>1, AddManifestLists DEF TypeOK, Control, Located
    <3>3. \A n \in DOMAIN idx'[p] : idx'[p][n] \in blobs[slot(p)]
      BY <3>1, <3>2
    <3>4. Indexed'
      BY <3>1
    <3>5. Stored'
      BY <3>1, <3>3
    <3>6. QED
      BY <3>4, <3>5
  <2>5. CASE CommitTruncate(p)
    BY <2>5 DEF TypeOK, CommitTruncate
  <2>6. CASE CommitWrite(p)
    BY <2>6 DEF TypeOK, CommitWrite
  <2>7. CASE PutImage(p)
    BY <2>7 DEF TypeOK, PutImage
  <2>8. QED
    BY <1>6, <2>1, <2>2, <2>3, <2>4, <2>5, <2>6, <2>7 DEF Copy
<1>7. ASSUME NEW p \in Procs, Locate(p) PROVE Indexed' /\ Stored'
  <2> slot(p) \in Slots
    BY SlotIsSlot
  <2>1. CASE ReadIndex(p)
    BY <2>1 DEF TypeOK, ReadIndex
  <2>2. CASE ReadIndexFails(p) \/ ReadManifest(p) \/ StatLabel(p)
    BY <2>2, ZenonT(40) DEF TypeOK, ReadIndexFails, ReadManifest, StatLabel, listing
  <2>3. QED
    BY <1>7, <2>1, <2>2 DEF Locate
<1>8. ASSUME NEW p \in Procs, Extract(p) PROVE Indexed' /\ Stored'
  <2>1. CASE OpenLayer(p) \/ OpenLayerFails(p) \/ Extracted(p) \/ CloseLayer(p)
    BY <2>1, ZenonT(40) DEF TypeOK, OpenLayer, OpenLayerFails, Extracted, CloseLayer, listing
  <2>2. CASE SkipEntry(p) \/ UntarDir(p) \/ UntarCreate(p) \/ UntarFill(p) \/ UntarFails(p)
    BY <2>2 DEF TypeOK, SkipEntry, UntarDir, UntarCreate, UntarFill, UntarFails, AtEntry
  <2>3. QED
    BY <1>8, <2>1, <2>2 DEF Extract
<1>9. ASSUME NEW p \in Procs, List(p) PROVE Indexed' /\ Stored'
  BY <1>9, ZenonT(40) DEF TypeOK, List, ReadConfigs, ReadConfigsFails, ListCatalog, ListDone, ReadSchema
<1>10. CASE UNCHANGED vars
  BY <1>10 DEF vars
<1>11. QED
  BY <1>1, <1>2, <1>3, <1>4, <1>5, <1>6, <1>7, <1>8, <1>9, <1>10 DEF Next, Step, Finished

LEMMA InitStored == Init => Indexed /\ Stored
BY DEF Init, Indexed, Stored

\* However many runs share the layout, and wherever they are cut off, index.json
\* never names an image whose blobs are not there, and a run that has read it
\* finds the manifest: the copy puts before it commits.
THEOREM IndexIsClosed == Spec => []IndexClosed
<1> DEFINE I == IInv /\ Indexed /\ Stored
<1>1. Init => I
  BY InitIInv, InitStored
<1>2. I /\ [Next]_vars => I'
  BY NextTypeOK, NextControl, NextStored DEF IInv
<1>3. I => IndexClosed
  BY DEF IInv, Indexed, Stored, IndexClosed
<1> HIDE DEF I
<1>4. QED
  BY <1>1, <1>2, <1>3, PTL DEF Spec

-----------------------------------------------------------------------------
(* Where the images of a layout come from *)

\* Whatever is put in a layout was pulled from a reference of its directory name.
AllDenoted ==
  /\ \A s \in Slots : \A m \in blobs[s] : DenotedFor(s, m)
  /\ \A p \in Procs : pc[p] = "put" => DenotedFor(slot(p), img[p])

\* Only a push changes what a reference has denoted.
LEMMA RegistryOnlyGrows ==
  ASSUME [Next]_vars
  PROVE  UNCHANGED registry \/ \E r \in Refs, m \in Images : Push(r, m)
<1>1. ASSUME NEW p \in Procs, Prepare(p) PROVE UNCHANGED registry
  BY <1>1 DEF Prepare, RunClean, RunMakeDir, CreateLog, StatCache, MakeCopyDir
<1>2. ASSUME NEW p \in Procs, Copy(p) \/ CopyRetry(p) PROVE UNCHANGED registry
  BY <1>2 DEF Copy, OpenLayout, OpenLayoutFails, Pull, PutImage, PutManifest, CommitTruncate,
              CommitWrite, CopyRetry
<1>3. ASSUME NEW p \in Procs, Locate(p) PROVE UNCHANGED registry
  BY <1>3 DEF Locate, ReadIndex, ReadIndexFails, ReadManifest, StatLabel
<1>4. ASSUME NEW p \in Procs, Extract(p) PROVE UNCHANGED registry
  BY <1>4 DEF Extract, OpenLayer, OpenLayerFails, CloseLayer, Extracted, SkipEntry, UntarDir,
              UntarCreate, UntarFill, UntarFails
<1>5. ASSUME NEW p \in Procs, List(p) \/ Kill(p) \/ IOError(p) PROVE UNCHANGED registry
  BY <1>5 DEF List, ReadConfigs, ReadConfigsFails, ListCatalog, ListDone, ReadSchema, Kill, IOError
<1>6. ASSUME NEW p \in Procs, NEW kind, NEW r, Start(p, kind, r) \/ Reject(p, kind, r)
      PROVE  UNCHANGED registry
  BY <1>6 DEF Start, Reject
<1>7. CASE UNCHANGED vars \/ Finished
  BY <1>7 DEF vars, Finished
<1>8. QED
  BY <1>1, <1>2, <1>3, <1>4, <1>5, <1>6, <1>7 DEF Next, Step

\* Only PutImage adds to a layout.
LEMMA BlobSteps ==
  ASSUME TypeOK, [Next]_vars, NEW s \in Slots, NEW m \in blobs'[s]
  PROVE  m \in blobs[s] \/ \E p \in Procs : pc[p] = "put" /\ slot(p) = s /\ m = img[p]
<1> USE DEF store
<1>1. ASSUME NEW p \in Procs, Prepare(p) PROVE UNCHANGED blobs
  BY <1>1 DEF Prepare, RunClean, RunMakeDir, CreateLog, StatCache, MakeCopyDir
<1>2. ASSUME NEW p \in Procs, PutImage(p)
      PROVE  m \in blobs[s] \/ (pc[p] = "put" /\ slot(p) = s /\ m = img[p])
  BY <1>2, SlotIsSlot DEF TypeOK, PutImage, Go
<1>3. ASSUME NEW p \in Procs, Copy(p) \/ CopyRetry(p) PROVE UNCHANGED blobs \/ PutImage(p)
  BY <1>3 DEF Copy, OpenLayout, OpenLayoutFails, Pull, PutManifest, CommitTruncate, CommitWrite,
              CopyRetry
<1>4. ASSUME NEW p \in Procs, Locate(p) PROVE UNCHANGED blobs
  BY <1>4 DEF Locate, ReadIndex, ReadIndexFails, ReadManifest, StatLabel
<1>5. ASSUME NEW p \in Procs, Extract(p) PROVE UNCHANGED blobs
  BY <1>5 DEF Extract, OpenLayer, OpenLayerFails, CloseLayer, Extracted, SkipEntry, UntarDir,
              UntarCreate, UntarFill, UntarFails
<1>6. ASSUME NEW p \in Procs, List(p) \/ Kill(p) \/ IOError(p) PROVE UNCHANGED blobs
  BY <1>6 DEF List, ReadConfigs, ReadConfigsFails, ListCatalog, ListDone, ReadSchema, Kill, IOError
<1>7. ASSUME NEW p \in Procs, NEW kind, NEW r, Start(p, kind, r) \/ Reject(p, kind, r)
      PROVE  UNCHANGED blobs
  BY <1>7 DEF Start, Reject
<1>8. CASE UNCHANGED vars \/ Finished \/ \E r \in Refs, x \in Images : Push(r, x)
  BY <1>8 DEF vars, Finished, Push
<1>9. QED
  BY <1>1, <1>2, <1>3, <1>4, <1>5, <1>6, <1>7, <1>8 DEF Next, Step

\* A run comes to put an image by pulling it.
LEMMA PutSteps ==
  ASSUME TypeOK, [Next]_vars, NEW p \in Procs, pc'[p] = "put"
  PROVE  /\ UNCHANGED job[p]
         /\ \/ \E q \in Procs : Pull(q)
            \/ pc[p] = "put" /\ UNCHANGED img[p]
<1> USE DEF Go, local, store
<1>1. ASSUME NEW q \in Procs, Prepare(q) PROVE UNCHANGED job[p] /\ pc[p] = "put" /\ UNCHANGED img[p]
  BY <1>1 DEF TypeOK, Prepare, RunClean, RunMakeDir, CreateLog, StatCache, MakeCopyDir, listing
<1>2. ASSUME NEW q \in Procs, Pull(q) PROVE UNCHANGED job[p]
  BY <1>2 DEF TypeOK, Pull
<1>3. ASSUME NEW q \in Procs, Copy(q) \/ CopyRetry(q), ~Pull(q)
      PROVE  UNCHANGED job[p] /\ pc[p] = "put" /\ UNCHANGED img[p]
  BY <1>3 DEF TypeOK, Copy, OpenLayout, OpenLayoutFails, PutImage, PutManifest, CommitTruncate,
              CommitWrite, CopyRetry
<1>4. ASSUME NEW q \in Procs, Locate(q) PROVE UNCHANGED job[p] /\ pc[p] = "put" /\ UNCHANGED img[p]
  BY <1>4 DEF TypeOK, Locate, ReadIndex, ReadIndexFails, ReadManifest, StatLabel, listing
<1>5. ASSUME NEW q \in Procs, Extract(q) PROVE UNCHANGED job[p] /\ pc[p] = "put" /\ UNCHANGED img[p]
  BY <1>5 DEF TypeOK, Extract, OpenLayer, OpenLayerFails, CloseLayer, Extracted, SkipEntry, UntarDir,
              UntarCreate, UntarFill, UntarFails, AtEntry, listing
<1>6. ASSUME NEW q \in Procs, List(q) \/ Kill(q) \/ IOError(q)
      PROVE  UNCHANGED job[p] /\ pc[p] = "put" /\ UNCHANGED img[p]
  BY <1>6 DEF TypeOK, List, ReadConfigs, ReadConfigsFails, ListCatalog, ListDone, ReadSchema, Kill,
              IOError
<1>7. ASSUME NEW q \in Procs, NEW kind, NEW r, Start(q, kind, r) \/ Reject(q, kind, r)
      PROVE  UNCHANGED job[p] /\ pc[p] = "put" /\ UNCHANGED img[p]
  BY <1>7 DEF TypeOK, Start, Reject
<1>8. CASE UNCHANGED vars \/ Finished \/ \E r \in Refs, x \in Images : Push(r, x)
  BY <1>8 DEF vars, Finished, Push
<1>9. QED
  BY <1>1, <1>2, <1>3, <1>4, <1>5, <1>6, <1>7, <1>8 DEF Next, Step

\* What a reference has denoted is not forgotten.
LEMMA HistoryKept ==
  ASSUME TypeOK, [Next]_vars, NEW s \in Slots, NEW m, DenotedFor(s, m)
  PROVE  DenotedFor(s, m)'
<1>1. PICK r \in Refs : imageIndexDir(r) = s.key /\ \E n \in DOMAIN registry[r] : registry[r][n] = m
  BY DEF DenotedFor
<1>2. PICK n \in DOMAIN registry[r] : registry[r][n] = m
  BY <1>1
<1>3. ASSUME NEW v \in Refs, NEW x \in Images, Push(v, x)
      PROVE  n \in DOMAIN registry'[r] /\ registry'[r][n] = m
  <2>1. registry[r] \in Seq(Images) /\ n \in 1..Len(registry[r])
    BY <1>2 DEF TypeOK
  <2>2. registry'[r] = registry[r] \/ registry'[r] = Append(registry[r], x)
    BY <1>3 DEF TypeOK, Push
  <2>3. n \in DOMAIN Append(registry[r], x) /\ Append(registry[r], x)[n] = registry[r][n]
    BY <1>3, <2>1, AppendProperties
  <2>4. QED
    BY <1>2, <2>2, <2>3
<1>4. UNCHANGED registry \/ \E v \in Refs, x \in Images : Push(v, x)
  BY RegistryOnlyGrows
<1>5. n \in DOMAIN registry'[r] /\ registry'[r][n] = m
  BY <1>2, <1>3, <1>4
<1>6. QED
  BY <1>1, <1>5 DEF DenotedFor

LEMMA NextDenoted ==
  ASSUME TypeOK, Control, AllDenoted, [Next]_vars
  PROVE  AllDenoted'
<1> USE DEF Go, local, store
<1>1. ASSUME NEW p \in Procs, NEW q \in Procs, Pull(q), pc'[p] = "put"
      PROVE  DenotedFor(slot(p), img'[p])
  <2>1. CASE p = q
    <3>1. img'[p] = registry[job[p].ref][Len(registry[job[p].ref])]
      BY <1>1, <2>1 DEF TypeOK, Pull
    <3>2. job[p].ref \in Refs /\ slot(p).key = imageIndexDir(job[p].ref)
      BY DEF TypeOK, Jobs, slot, SlotOf
    <3>3. Len(registry[job[p].ref]) \in DOMAIN registry[job[p].ref]
      BY <3>2 DEF TypeOK
    <3>4. QED
      BY <3>1, <3>2, <3>3 DEF DenotedFor
  <2>2. CASE p # q
    BY <1>1, <2>2 DEF TypeOK, Pull, AllDenoted
  <2>3. QED
    BY <2>1, <2>2
<1>2. ASSUME NEW p \in Procs, pc'[p] = "put"
      PROVE  DenotedFor(slot(p), img'[p]) /\ UNCHANGED job[p]
  BY <1>1, <1>2, PutSteps DEF AllDenoted
<1>3. ASSUME NEW s \in Slots, NEW m \in blobs'[s] PROVE DenotedFor(s, m)
  BY <1>3, BlobSteps DEF AllDenoted
<1>4. ASSUME NEW p \in Procs, pc'[p] = "put" PROVE DenotedFor(slot(p), img[p])'
  <2>1. slot(p) \in Slots /\ slot(p)' = slot(p)
    BY <1>2, <1>4, SlotIsSlot DEF slot
  <2>2. \A s \in Slots : \A m : DenotedFor(s, m) => DenotedFor(s, m)'
    BY HistoryKept
  <2>3. \A m : DenotedFor(slot(p), m) => \E r \in Refs : imageIndexDir(r) = slot(p).key
                    /\ \E n \in DOMAIN registry'[r] : registry'[r][n] = m
    BY <2>1, <2>2 DEF DenotedFor
  <2>4. QED
    BY <1>2, <1>4, <2>1, <2>3 DEF DenotedFor
<1>5. \A s \in Slots : \A m \in blobs'[s] : DenotedFor(s, m)'
  BY <1>3, HistoryKept
<1>6. QED
  BY <1>4, <1>5 DEF AllDenoted

-----------------------------------------------------------------------------
(* Where every file comes from *)

\* The blobs of a layout are never taken away.
LEMMA BlobsGrow ==
  ASSUME TypeOK, [Next]_vars
  PROVE  \A s \in Slots : blobs[s] \subseteq blobs'[s]
<1> USE DEF store
<1>1. ASSUME NEW p \in Procs, Copy(p) PROVE \A s \in Slots : blobs[s] \subseteq blobs'[s]
  BY <1>1, SlotIsSlot
  DEF TypeOK, Copy, OpenLayout, OpenLayoutFails, Pull, PutImage, PutManifest, CommitTruncate,
      CommitWrite
<1>2. ASSUME NEW p \in Procs, Kill(p) \/ IOError(p) \/ CopyRetry(p) \/ Prepare(p)
      PROVE UNCHANGED blobs
  BY <1>2 DEF Kill, IOError, CopyRetry, Prepare, RunClean, RunMakeDir, CreateLog, StatCache,
              MakeCopyDir
<1>3. ASSUME NEW p \in Procs, Locate(p) \/ Extract(p) \/ List(p) PROVE UNCHANGED blobs
  BY <1>3 DEF Locate, ReadIndex, ReadIndexFails, ReadManifest, StatLabel, Extract, OpenLayer,
              OpenLayerFails, Extracted, CloseLayer, SkipEntry, UntarDir, UntarCreate,
              UntarFill, UntarFails, List, ReadConfigs, ReadConfigsFails, ListCatalog,
              ListDone, ReadSchema
<1>4. ASSUME NEW p \in Procs, NEW kind \in Kinds \cup {"other"}, NEW r \in Refs,
             Start(p, kind, r) \/ Reject(p, kind, r)
      PROVE UNCHANGED blobs
  BY <1>4 DEF Start, Reject
<1>5. ASSUME NEW r \in Refs, NEW m \in Images, Push(r, m) PROVE UNCHANGED blobs
  BY <1>5 DEF Push
<1>6. CASE UNCHANGED vars
  BY <1>6 DEF vars
<1>7. QED
  BY <1>1, <1>2, <1>3, <1>4, <1>5, <1>6 DEF Next, Step, Finished

\* A step leaves the tree alone, makes directories, empties a file, removes, or
\* fills the file of the entry it is at.
LEMMA TreeSteps ==
  ASSUME [Next]_vars
  PROVE  \/ UNCHANGED tree
         \/ \E q : tree' = Make(tree, q) \/ tree' = Put(tree, q, Torn)
                   \/ tree' = RemoveAll(tree, q)
         \/ \E p \in Procs : UntarFill(p)
<1> USE DEF store
<1>1. ASSUME NEW p \in Procs, Prepare(p)
      PROVE  \/ UNCHANGED tree
             \/ \E q : tree' = Make(tree, q) \/ tree' = Put(tree, q, Torn)
                       \/ tree' = RemoveAll(tree, q)
  BY <1>1 DEF Prepare, RunClean, RunMakeDir, CreateLog, StatCache, MakeCopyDir, MkdirAll
<1>2. ASSUME NEW p \in Procs, Extract(p)
      PROVE  \/ UNCHANGED tree
             \/ \E q : tree' = Make(tree, q) \/ tree' = Put(tree, q, Torn)
             \/ UntarFill(p)
  BY <1>2 DEF Extract, OpenLayer, OpenLayerFails, Extracted, CloseLayer, SkipEntry, UntarDir,
              UntarCreate, UntarFails
<1>3. ASSUME NEW p \in Procs, Kill(p) \/ IOError(p) \/ CopyRetry(p) \/ Copy(p) \/ Locate(p) \/ List(p)
      PROVE UNCHANGED tree
  BY <1>3 DEF Kill, IOError, CopyRetry, Copy, OpenLayout, OpenLayoutFails, Pull, PutImage, PutManifest,
              CommitTruncate, CommitWrite, Locate, ReadIndex, ReadIndexFails, ReadManifest,
              StatLabel, List, ReadConfigs, ReadConfigsFails, ListCatalog, ListDone, ReadSchema
<1>4. ASSUME NEW p \in Procs, NEW kind \in Kinds \cup {"other"}, NEW r \in Refs,
             Start(p, kind, r) \/ Reject(p, kind, r)
      PROVE UNCHANGED tree
  BY <1>4 DEF Start, Reject
<1>5. ASSUME NEW r \in Refs, NEW m \in Images, Push(r, m) PROVE UNCHANGED tree
  BY <1>5 DEF Push
<1>6. CASE UNCHANGED vars
  BY <1>6 DEF vars
<1>7. QED
  BY <1>1, <1>2, <1>3, <1>4, <1>5, <1>6 DEF Next, Step, Finished

\* Making directories, emptying and removing adds no content.
LEMMA NoNewContent ==
  ASSUME NEW q, NEW a,
         \/ tree' = Make(tree, q) \/ tree' = Put(tree, q, Torn) \/ tree' = RemoveAll(tree, q),
         a \in DOMAIN tree', tree'[a] \in Data
  PROVE  a \in DOMAIN tree /\ tree'[a] = tree[a]
<1>1. DirNode \notin Data /\ Torn \notin Data
  BY NodesAssumption
<1>2. CASE tree' = Make(tree, q)
  BY <1>1, <1>2 DEF Make
<1>3. CASE tree' = Put(tree, q, Torn)
  BY <1>1, <1>3 DEF Put
<1>4. CASE tree' = RemoveAll(tree, q)
  BY <1>4 DEF RemoveAll
<1>5. QED
  BY <1>2, <1>3, <1>4

\* A file is open only for an entry that the label selects.
Selecting == \A p \in Procs : pc[p] = "fill" => wanted(p)

\* A run comes to fill a file by creating it.
LEMMA FillSteps ==
  ASSUME TypeOK, [Next]_vars, NEW p \in Procs, pc'[p] = "fill"
  PROVE  /\ UNCHANGED <<job[p], img[p], cursor[p]>>
         /\ UntarCreate(p) \/ pc[p] = "fill"
<1> USE DEF Go, local, store
<1> DEFINE Same == UNCHANGED <<job[p], img[p], cursor[p]>>
<1>1. ASSUME NEW q \in Procs, Prepare(q) PROVE Same /\ pc[p] = "fill"
  BY <1>1 DEF TypeOK, Prepare, RunClean, RunMakeDir, CreateLog, StatCache, MakeCopyDir, listing
<1>2. ASSUME NEW q \in Procs, Copy(q) \/ CopyRetry(q) PROVE Same /\ pc[p] = "fill"
  BY <1>2 DEF TypeOK, Copy, OpenLayout, OpenLayoutFails, Pull, PutImage, PutManifest,
              CommitTruncate, CommitWrite, CopyRetry
<1>3. ASSUME NEW q \in Procs, Locate(q) PROVE Same /\ pc[p] = "fill"
  BY <1>3 DEF TypeOK, Locate, ReadIndex, ReadIndexFails, ReadManifest, StatLabel, listing
<1>4. ASSUME NEW q \in Procs, UntarCreate(q) PROVE Same /\ (UntarCreate(p) \/ pc[p] = "fill")
  BY <1>4 DEF TypeOK, UntarCreate
<1>5. ASSUME NEW q \in Procs, Extract(q), ~UntarCreate(q) PROVE Same /\ pc[p] = "fill"
  BY <1>5 DEF TypeOK, Extract, OpenLayer, OpenLayerFails, CloseLayer, Extracted, SkipEntry,
              UntarDir, UntarFill, UntarFails, AtEntry, NextEntry, listing
<1>6. ASSUME NEW q \in Procs, List(q) \/ Kill(q) \/ IOError(q) PROVE Same /\ pc[p] = "fill"
  BY <1>6 DEF TypeOK, List, ReadConfigs, ReadConfigsFails, ListCatalog, ListDone, ReadSchema,
              Kill, IOError
<1>7. ASSUME NEW q \in Procs, NEW kind, NEW r, Start(q, kind, r) \/ Reject(q, kind, r)
      PROVE  Same /\ pc[p] = "fill"
  BY <1>7 DEF TypeOK, Start, Reject
<1>8. CASE UNCHANGED vars \/ Finished \/ \E r \in Refs, x \in Images : Push(r, x)
  BY <1>8 DEF vars, Finished, Push
<1>9. QED
  BY <1>1, <1>2, <1>3, <1>4, <1>5, <1>6, <1>7, <1>8 DEF Next, Step

LEMMA NextSelecting ==
  ASSUME TypeOK, Selecting, [Next]_vars
  PROVE  Selecting'
<1> SUFFICES ASSUME NEW p \in Procs, pc'[p] = "fill" PROVE wanted(p)'
  BY DEF Selecting
<1>1. UNCHANGED <<job[p], img[p], cursor[p]>> /\ (UntarCreate(p) \/ pc[p] = "fill")
  BY FillSteps
<1>2. wanted(p)
  BY <1>1 DEF UntarCreate, Selecting
<1>3. QED
  BY <1>1, <1>2 DEF wanted, entry, label, layers, slot

\* What untar fills a file with is what the entry it is at has.
LEMMA FillIsFile ==
  ASSUME TypeOK, Control, Selecting, NEW p \in Procs, UntarFill(p), tree'[target(p)] \in Data
  PROVE  FileOf(slot(p), img[p], target(p), tree'[target(p)])
<1>1. pc[p] = "fill" /\ \E d \in Written(tree[target(p)], entry(p).data) :
                          tree' = Put(tree, target(p), d)
  BY DEF UntarFill, Go
<1>2. tree'[target(p)] = entry(p).data
  BY <1>1, NodesAssumption DEF Put, Written
<1>3. entry(p).type = "reg" /\ entry(p) \in Entries(img[p]) /\ entry(p).name \in Path
  BY <1>1, TargetIsPath DEF Control, Located, layers, Entry
<1>4. Matches(entry(p), labelOf(slot(p), img[p]))
  BY <1>1 DEF Selecting, wanted, label
<1>5. Local(entry(p).name) => target(p) = toDir(slot(p)) \o entry(p).name
  BY <1>3, SlotIsSlot, DirsArePaths, LocalLeadsBelow DEF target
<1>6. QED
  BY <1>2, <1>3, <1>4, <1>5 DEF FileOf

LEMMA NextProvenance ==
  ASSUME TypeOK, Control, Stored, AllDenoted, Selecting, Provenance, [Next]_vars
  PROVE  Provenance'
<1> DEFINE Kept(a, d) == a \in DOMAIN Held /\ d = Held[a]
           Known(a, d) == Kept(a, d) \/ \E s \in Slots : \E m \in blobs[s] :
                                          DenotedFor(s, m) /\ FileOf(s, m, a, d)
           After(a, d) == Kept(a, d) \/ \E s \in Slots : \E m \in blobs'[s] :
                                          DenotedFor(s, m)' /\ FileOf(s, m, a, d)
<1>1. ASSUME NEW a, NEW d, Known(a, d) PROVE After(a, d)
  <2>1. CASE Kept(a, d)
    BY <2>1
  <2>2. CASE \E s \in Slots : \E m \in blobs[s] : DenotedFor(s, m) /\ FileOf(s, m, a, d)
    <3>1. PICK s \in Slots : \E m \in blobs[s] : DenotedFor(s, m) /\ FileOf(s, m, a, d)
      BY <2>2
    <3>2. PICK m \in blobs[s] : DenotedFor(s, m) /\ FileOf(s, m, a, d)
      BY <3>1
    <3>3. m \in blobs'[s] /\ DenotedFor(s, m)'
      BY <3>2, BlobsGrow, HistoryKept
    <3>4. QED
      BY <3>2, <3>3
  <2>3. QED
    BY <1>1, <2>1, <2>2
<1>2. ASSUME NEW a \in DOMAIN tree, tree[a] \in Data PROVE Known(a, tree[a])
  BY <1>2 DEF Provenance
<1>3. ASSUME NEW p \in Procs, UntarFill(p), tree'[target(p)] \in Data
      PROVE  Known(target(p), tree'[target(p)])
  <2>1. pc[p] = "fill" /\ \E d \in Written(tree[target(p)], entry(p).data) :
                            tree' = Put(tree, target(p), d)
    BY <1>3 DEF UntarFill, Go
  <2>2. FileOf(slot(p), img[p], target(p), tree'[target(p)])
    BY <1>3, FillIsFile
  <2>3. slot(p) \in Slots /\ img[p] \in blobs[slot(p)] /\ DenotedFor(slot(p), img[p])
    BY <2>1, SlotIsSlot DEF Stored, AllDenoted
  <2>4. QED
    BY <2>2, <2>3
<1> HIDE DEF Known
<1>4. ASSUME NEW a \in DOMAIN tree', tree'[a] \in Data PROVE Known(a, tree'[a])
  <2>1. CASE a \in DOMAIN tree /\ tree'[a] = tree[a]
    BY <1>2, <1>4, <2>1
  <2>2. CASE UNCHANGED tree
    BY <1>4, <2>1, <2>2
  <2>3. CASE \E q : tree' = Make(tree, q) \/ tree' = Put(tree, q, Torn) \/ tree' = RemoveAll(tree, q)
    BY <1>4, <2>1, <2>3, NoNewContent
  <2>4. CASE \E p \in Procs : UntarFill(p)
    <3>1. PICK p \in Procs : UntarFill(p)
      BY <2>4
    <3>2. \E d : tree' = Put(tree, target(p), d)
      BY <3>1 DEF UntarFill
    <3>3. a # target(p) => a \in DOMAIN tree /\ tree'[a] = tree[a]
      BY <1>4, <3>2 DEF Put
    <3>4. QED
      BY <1>3, <1>4, <2>1, <3>1, <3>3
  <2>5. QED
    BY <2>2, <2>3, <2>4, TreeSteps
<1>5. \A a \in DOMAIN tree' : tree'[a] \in Data => After(a, tree'[a])
  BY <1>1, <1>4
<1>6. QED
  BY <1>5 DEF Provenance

\* Whatever overlaps, is cut off, retried or pushed, and whatever names the entries
\* have, a complete file in the working tree was left by the mirror tool or is a
\* selected file of an image that a reference has denoted; and it is in that
\* reference's directory, under its own name, unless its name has a "..".
THEOREM ContentHasProvenance == Spec => []Provenance
<1> DEFINE I == IInv /\ Indexed /\ Stored /\ AllDenoted /\ Selecting /\ Provenance
<1>1. Init => I
  BY InitIInv, InitStored DEF Init, AllDenoted, Selecting, Provenance
<1>2. I /\ [Next]_vars => I'
  BY NextTypeOK, NextControl, NextStored, NextDenoted, NextSelecting, NextProvenance DEF IInv
<1>3. I => Provenance
  OBVIOUS
<1> HIDE DEF I
<1>4. QED
  BY <1>1, <1>2, <1>3, PTL DEF Spec
=============================================================================
