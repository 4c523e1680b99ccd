-------------------------- MODULE OneTerminalProofs --------------------------
(***************************************************************************)
(* What holds when runs follow one another in a directory but never        *)
(* overlap: theorems about Collector with a single process, for any images *)
(* and references, pushes, cuts, faults and retries.                       *)
(***************************************************************************)
EXTENDS CollectorProofs

-----------------------------------------------------------------------------
(* The first image of a layout is the one that is extracted *)

\* index.json is absent, cut, or lists first the first image it ever listed.
HeadIsFirst ==
  \A s \in Slots :
    /\ index[s] = <<>> => first[s] = None
    /\ index[s] \notin {<<>>, Torn} => first[s] = Head(index[s])

\* The index a run will commit extends the one there is; what it extracts is the
\* first image.
HoldsFirst ==
  \A p \in Procs :
    /\ pc[p] \in {"pull", "put", "seal"} /\ idx[p] = <<>> => first[slot(p)] = None
    /\ pc[p] \in {"pull", "put", "seal", "commit", "write"} /\ idx[p] # <<>>
         => first[slot(p)] \in {None, Head(idx[p])}
    /\ pc[p] \in {"manifest", "label", "layer", "untar", "fill"} => img[p] = first[slot(p)]

Oldest == HeadIsFirst /\ HoldsFirst

\* addManifest keeps the head of a list that has one.
LEMMA AddManifestHead ==
  ASSUME NEW ms \in Seq(Images), NEW m \in Images, ms # <<>>
  PROVE  Head(addManifest(ms, m)) = Head(ms)
<1>1. CASE \E n \in DOMAIN ms : ms[n] = m
  BY <1>1 DEF addManifest
<1>2. CASE ~\E n \in DOMAIN ms : ms[n] = m
  <2>1. addManifest(ms, m) = Append(ms, m)
    BY <1>2 DEF addManifest
  <2>2. 1 \in 1..Len(ms)
    OBVIOUS
  <2>3. Append(ms, m)[1] = ms[1]
    BY <2>2, AppendProperties
  <2>4. QED
    BY <2>1, <2>3
<1>3. QED
  BY <1>1, <1>2

LEMMA NextOldest ==
  ASSUME TypeOK, Control, Oldest, [Next]_vars, NEW only, Procs = {only}
  PROVE  Oldest'
<1> USE DEF Oldest, HeadIsFirst, HoldsFirst, Go, local, store, slot
<1>1. ASSUME NEW r \in Refs, NEW m \in Images, Push(r, m) PROVE Oldest'
  BY <1>1 DEF TypeOK, Push
<1>2. ASSUME NEW p \in Procs, Kill(p) \/ IOError(p) PROVE Oldest'
  BY <1>2 DEF TypeOK, Kill, IOError
<1>3. ASSUME NEW p \in Procs, CopyRetry(p) PROVE Oldest'
  BY <1>3 DEF TypeOK, CopyRetry
<1>4. ASSUME NEW p \in Procs, NEW kind \in Kinds \cup {"other"}, NEW r \in Refs,
             Start(p, kind, r) \/ Reject(p, kind, r)
      PROVE Oldest'
  BY <1>4 DEF TypeOK, Start, Reject, Ended
<1>5. ASSUME NEW p \in Procs, Prepare(p) PROVE Oldest'
  BY <1>5 DEF TypeOK, Prepare, RunClean, RunMakeDir, CreateLog, StatCache, MakeCopyDir, listing
<1>6. ASSUME NEW p \in Procs, Copy(p) PROVE Oldest'
  <2> slot(p) \in Slots
    BY SlotIsSlot
  <2>1. CASE OpenLayout(p)
    BY <2>1 DEF TypeOK, OpenLayout
  <2>2. CASE OpenLayoutFails(p)
    BY <2>2 DEF TypeOK, OpenLayoutFails
  <2>3. CASE Pull(p)
    BY <2>3 DEF TypeOK, Pull
  <2>4. CASE PutManifest(p)
    <3>1. pc[p] = "seal" /\ pc'[p] = "commit" /\ UNCHANGED <<job, img, index, first>>
          /\ idx'[p] = addManifest(idx[p], img[p])
      BY <2>4 DEF TypeOK, PutManifest
    <3>2. idx[p] # <<>> => Head(idx'[p]) = Head(idx[p])
      BY <3>1, AddManifestHead DEF TypeOK, Control, Located
    <3>3. \A q \in Procs : q = p
      OBVIOUS
    <3>4. idx[p] = <<>> => first[slot(p)] = None
      BY <3>1
    <3>5. idx[p] # <<>> => first[slot(p)] \in {None, Head(idx'[p])}
      BY <3>1, <3>2
    <3>6. QED
      BY <3>1, <3>3, <3>4, <3>5
  <2>5. CASE CommitTruncate(p)
    <3>1. /\ pc[p] = "commit" /\ pc'[p] = "write" /\ UNCHANGED <<job, img, idx, first>>
          /\ \A q \in Procs : q = p
      BY <2>5 DEF TypeOK, CommitTruncate
    <3>2. index'[slot(p)] = Torn /\ \A s \in Slots \ {slot(p)} : index'[s] = index[s]
      BY <2>5 DEF TypeOK, CommitTruncate
    <3>3. Torn # <<>>
      <4>1. <<>> \in Seq(Images)
        OBVIOUS
      <4>2. QED
        BY <4>1, NodesAssumption
    <3>4. HeadIsFirst'
      BY <3>1, <3>2, <3>3
    <3>5. HoldsFirst'
      BY <3>1
    <3>6. QED
      BY <3>4, <3>5
  <2>6. CASE CommitWrite(p)
    <3>1. pc[p] = "write" /\ idx[p] # <<>> /\ first[slot(p)] \in {None, Head(idx[p])}
      BY <2>6 DEF CommitWrite, Control, Located
    <3>2. /\ index'[slot(p)] = idx[p] /\ first'[slot(p)] = Head(idx[p])
          /\ \A s \in Slots \ {slot(p)} : index'[s] = index[s] /\ first'[s] = first[s]
      BY <2>6, <3>1 DEF TypeOK, CommitWrite
    <3>3. HeadIsFirst'
      BY <3>1, <3>2
    <3>4. \A q \in Procs : pc'[q] \notin {"pull", "put", "seal", "commit", "write", "manifest",
                                          "label", "layer", "untar", "fill"}
      BY <2>6 DEF TypeOK, CommitWrite
    <3>5. HoldsFirst'
      BY <3>4
    <3>6. QED
      BY <3>3, <3>5
  <2>7. CASE PutImage(p)
    BY <2>7 DEF TypeOK, PutImage
  <2>8. QED
    BY <1>6, <2>1, <2>2, <2>3, <2>4, <2>5, <2>6, <2>7 DEF Copy
<1>7. ASSUME NEW p \in Procs, Locate(p) PROVE Oldest'
  <2> slot(p) \in Slots
    BY SlotIsSlot
  <2>1. CASE ReadIndex(p)
    BY <2>1 DEF TypeOK, ReadIndex
  <2>2. CASE ReadIndexFails(p) \/ ReadManifest(p) \/ StatLabel(p)
    BY <2>2 DEF TypeOK, ReadIndexFails, ReadManifest, StatLabel, listing
  <2>3. QED
    BY <1>7, <2>1, <2>2 DEF Locate
<1>8. ASSUME NEW p \in Procs, Extract(p) PROVE Oldest'
  <2>1. CASE OpenLayer(p) \/ OpenLayerFails(p) \/ Extracted(p) \/ CloseLayer(p)
    BY <2>1 DEF TypeOK, OpenLayer, OpenLayerFails, Extracted, CloseLayer, listing
  <2>2. CASE SkipEntry(p) \/ UntarDir(p) \/ UntarCreate(p) \/ UntarFill(p) \/ UntarFails(p)
    BY <2>2 DEF TypeOK, SkipEntry, UntarDir, UntarCreate, UntarFill, UntarFails, AtEntry
  <2>3. QED
    BY <1>8, <2>1, <2>2 DEF Extract
<1>9. ASSUME NEW p \in Procs, List(p) PROVE Oldest'
  BY <1>9 DEF TypeOK, List, ReadConfigs, ReadConfigsFails, ListCatalog, ListDone, ReadSchema
<1>10. CASE UNCHANGED vars
  BY <1>10 DEF vars
<1>11. QED
  BY <1>1, <1>2, <1>3, <1>4, <1>5, <1>6, <1>7, <1>8, <1>9, <1>10 DEF Next, Step, Finished

\* The first image of a layout, once there is one, is never another.
LEMMA FirstStays ==
  ASSUME TypeOK, [Next]_vars
  PROVE  \A s \in Slots : first[s] # None => first'[s] = first[s]
<1> USE DEF store
<1>1. ASSUME NEW p \in Procs, Copy(p) PROVE \A s \in Slots : first[s] # None => first'[s] = first[s]
  BY <1>1, SlotIsSlot
  DEF TypeOK, Copy, OpenLayout, OpenLayoutFails, Pull, PutImage, PutManifest, CommitTruncate,
      CommitWrite
<1>2. ASSUME NEW p \in Procs, Kill(p) \/ IOError(p) \/ CopyRetry(p) \/ Prepare(p)
      PROVE UNCHANGED first
  BY <1>2 DEF Kill, IOError, CopyRetry, Prepare, RunClean, RunMakeDir, CreateLog, StatCache,
              MakeCopyDir
<1>3. ASSUME NEW p \in Procs, Locate(p) \/ Extract(p) \/ List(p) PROVE UNCHANGED first
  BY <1>3 DEF Locate, ReadIndex, ReadIndexFails, ReadManifest, StatLabel, Extract, OpenLayer,
              OpenLayerFails, Extracted, CloseLayer, SkipEntry, UntarDir, UntarCreate,
              UntarFill, UntarFails, List, ReadConfigs, ReadConfigsFails, ListCatalog,
              ListDone, ReadSchema
<1>4. ASSUME NEW p \in Procs, NEW kind \in Kinds \cup {"other"}, NEW r \in Refs,
             Start(p, kind, r) \/ Reject(p, kind, r)
      PROVE UNCHANGED first
  BY <1>4 DEF Start, Reject
<1>5. ASSUME NEW r \in Refs, NEW m \in Images, Push(r, m) PROVE UNCHANGED first
  BY <1>5 DEF Push
<1>6. CASE UNCHANGED vars
  BY <1>6 DEF vars
<1>7. QED
  BY <1>1, <1>2, <1>3, <1>4, <1>5, <1>6 DEF Next, Step, Finished

LEMMA NextOneImage ==
  ASSUME TypeOK, Control, Selecting, Oldest, OneImagePerCache, [Next]_vars
  PROVE  OneImagePerCache'
<1> DEFINE Known(a, d) == \/ a \in DOMAIN Held /\ d = Held[a]
                          \/ \E s \in Slots : first'[s] # None /\ FileOf(s, first'[s], a, d)
<1> SUFFICES ASSUME NEW a \in DOMAIN tree', tree'[a] \in Data
             PROVE  Known(a, tree'[a])
  BY DEF OneImagePerCache, FileOf
<1>1. ASSUME a \in DOMAIN tree, tree'[a] = tree[a] PROVE Known(a, tree'[a])
  BY <1>1, FirstStays DEF OneImagePerCache
<1>2. CASE UNCHANGED tree
  BY <1>1, <1>2
<1>3. CASE \E q : tree' = Make(tree, q) \/ tree' = Put(tree, q, Torn) \/ tree' = RemoveAll(tree, q)
  BY <1>1, <1>3, NoNewContent
<1>4. CASE \E p \in Procs : UntarFill(p)
  <2>1. PICK p \in Procs : UntarFill(p)
    BY <1>4
  <2>2. pc[p] = "fill" /\ UNCHANGED first
        /\ \E d \in Written(tree[target(p)], entry(p).data) : tree' = Put(tree, target(p), d)
    BY <2>1 DEF UntarFill, Go, store
  <2>3. CASE a # target(p)
    BY <1>1, <2>2, <2>3 DEF Put
  <2>4. CASE a = target(p)
    <3>1. FileOf(slot(p), img[p], a, tree'[a])
      BY <2>1, <2>4, FillIsFile
    <3>2. slot(p) \in Slots /\ img[p] = first'[slot(p)] /\ img[p] # None
      BY <2>2, SlotIsSlot, NodesAssumption DEF Oldest, HoldsFirst, Control, Located
    <3>3. QED
      BY <3>1, <3>2
  <2>5. QED
    BY <2>3, <2>4
<1>5. QED
  BY <1>2, <1>3, <1>4, TreeSteps

\* Runs that do not overlap never mix two images under one directory name: every
\* complete file is a file of the first image its layout listed, though tags move
\* and runs are cut off, fail and retry between the download and the extraction.
THEOREM OneImage ==
  ASSUME NEW only, Procs = {only}
  PROVE  Spec => []OneImagePerCache
<1> DEFINE I == IInv /\ Selecting /\ Oldest /\ OneImagePerCache
<1>1. Init => I
  BY InitIInv DEF Init, Oldest, HeadIsFirst, HoldsFirst, Selecting, OneImagePerCache
<1>2. I /\ [Next]_vars => I'
  BY NextTypeOK, NextControl, NextSelecting, NextOldest, NextOneImage DEF IInv
<1>3. I => OneImagePerCache
  OBVIOUS
<1> HIDE DEF I
<1>4. QED
  BY <1>1, <1>2, <1>3, PTL DEF Spec

-----------------------------------------------------------------------------
(* What os.Stat said still holds *)

\* The directory of a copy is not on the way to, nor below, that of an extraction.
LEMMA CopyMakesNoCache ==
  ASSUME NEW s \in Slots, s.kind = "operator"
  PROVE  cacheDir(s) \notin Prefixes(copyDir(s))
<1>1. s.key \in Path /\ Len(s.key) \in 1..2
  <2>1. PICK r \in Refs : s.key = imageIndexDir(r)
    BY DEF Slots
  <2>2. r.name \in Segment /\ (r.tag # "" => r.tag \in Segment)
    BY RefsAssumption
  <2>3. s.key \in {<<r.name>>, <<r.name, r.tag>>}
    BY <2>1 DEF imageIndexDir
  <2>4. Len(s.key) \in 1..2
    BY <2>3
  <2>5. s.key = <<r.name>> \/ (s.key = <<r.name, r.tag>> /\ r.tag \in Segment)
    BY <2>1, <2>2 DEF imageIndexDir
  <2>6. s.key \in Path
    BY <2>2, <2>5, ShortPath
  <2>7. QED
    BY <2>4, <2>6
<1>2. /\ cacheDir(s) = <<workingDir, "hold-operators">> \o s.key
      /\ copyDir(s) = <<workingDir, "operator-images">> \o s.key
  BY DEF cacheDir, copyDir, extractDir, imageDir
<1>3. cacheDir(s)[2] = "hold-operators" /\ Len(cacheDir(s)) = Len(s.key) + 2
  BY <1>1, <1>2 DEF Path
<1>4. copyDir(s)[2] = "operator-images" /\ Len(copyDir(s)) = Len(s.key) + 2
  BY <1>1, <1>2 DEF Path
<1>5. ASSUME NEW n \in 1..Len(copyDir(s)), cacheDir(s) = SubSeq(copyDir(s), 1, n)
      PROVE  FALSE
  <2>1. copyDir(s) \in Path
    BY DirsArePaths
  <2>2. Len(SubSeq(copyDir(s), 1, n)) = n
    BY <2>1 DEF Path
  <2>3. n = Len(s.key) + 2
    BY <1>1, <1>3, <1>5, <2>2
  <2>4. SubSeq(copyDir(s), 1, n)[2] = copyDir(s)[2]
    BY <1>1, <2>1, <2>3 DEF Path
  <2>5. QED
    BY <1>3, <1>4, <1>5, <2>4
<1>6. QED
  BY <1>5 DEF Prefixes

LEMMA NextMiss ==
  ASSUME TypeOK, MissStillHolds, [Next]_vars, NEW only, Procs = {only}
  PROVE  MissStillHolds'
<1> USE DEF MissStillHolds, Go, local, store, slot
<1>1. ASSUME NEW r \in Refs, NEW m \in Images, Push(r, m) PROVE MissStillHolds'
  BY <1>1 DEF TypeOK, Push
<1>2. ASSUME NEW p \in Procs, Kill(p) \/ IOError(p) PROVE MissStillHolds'
  BY <1>2 DEF TypeOK, Kill, IOError
<1>3. ASSUME NEW p \in Procs, CopyRetry(p) PROVE MissStillHolds'
  BY <1>3 DEF TypeOK, CopyRetry
<1>4. ASSUME NEW p \in Procs, NEW kind \in Kinds \cup {"other"}, NEW r \in Refs,
             Start(p, kind, r) \/ Reject(p, kind, r)
      PROVE MissStillHolds'
  BY <1>4 DEF TypeOK, Start, Reject, Ended
<1>5. ASSUME NEW p \in Procs, Prepare(p) PROVE MissStillHolds'
  <2>1. CASE RunClean(p) \/ RunMakeDir(p) \/ CreateLog(p)
    BY <2>1 DEF TypeOK, RunClean, RunMakeDir, CreateLog
  <2>2. CASE StatCache(p)
    BY <2>2 DEF TypeOK, StatCache, NotExist, listing
  <2>3. CASE MakeCopyDir(p)
    <3>1. /\ pc[p] = "mkcopy" /\ UNCHANGED job
          /\ tree' \in {tree, MkdirAll(tree, copyDir(slot(p)))}
      BY <2>3 DEF MakeCopyDir
    <3>2. DOMAIN tree' \subseteq DOMAIN tree \cup Prefixes(copyDir(slot(p)))
      BY <3>1 DEF MkdirAll, Make
    <3>3. job[p].kind = "operator" =>
            cacheDir(slot(p)) \notin DOMAIN tree \cup Prefixes(copyDir(slot(p)))
      BY <3>1, SlotIsSlot, CopyMakesNoCache DEF SlotOf
    <3>4. \A q \in Procs : q = p
      OBVIOUS
    <3>5. QED
      BY <3>1, <3>2, <3>3, <3>4
  <2>4. QED
    BY <1>5, <2>1, <2>2, <2>3 DEF Prepare
<1>6. ASSUME NEW p \in Procs, Copy(p) PROVE MissStillHolds'
  BY <1>6 DEF TypeOK, Copy, OpenLayout, OpenLayoutFails, Pull, PutImage, PutManifest, CommitTruncate,
              CommitWrite
<1>7. ASSUME NEW p \in Procs, Locate(p) PROVE MissStillHolds'
  BY <1>7 DEF TypeOK, Locate, ReadIndex, ReadIndexFails, ReadManifest, StatLabel, listing
<1>8. ASSUME NEW p \in Procs, Extract(p) PROVE MissStillHolds'
  <2>1. CASE OpenLayer(p) \/ OpenLayerFails(p) \/ Extracted(p) \/ CloseLayer(p)
    BY <2>1 DEF TypeOK, OpenLayer, OpenLayerFails, Extracted, CloseLayer, listing
  <2>2. CASE SkipEntry(p) \/ UntarDir(p) \/ UntarCreate(p) \/ UntarFill(p) \/ UntarFails(p)
    BY <2>2 DEF TypeOK, SkipEntry, UntarDir, UntarCreate, UntarFill, UntarFails, AtEntry
  <2>3. QED
    BY <1>8, <2>1, <2>2 DEF Extract
<1>9. ASSUME NEW p \in Procs, List(p) PROVE MissStillHolds'
  BY <1>9 DEF TypeOK, List, ReadConfigs, ReadConfigsFails, ListCatalog, ListDone, ReadSchema
<1>10. CASE UNCHANGED vars
  BY <1>10 DEF vars
<1>11. QED
  BY <1>1, <1>2, <1>3, <1>4, <1>5, <1>6, <1>7, <1>8, <1>9, <1>10 DEF Next, Step, Finished

\* Between os.Stat of an operator's cache directory and the extraction, nothing a
\* run does makes that directory: a run that downloads also extracts.
THEOREM MissHolds ==
  ASSUME NEW only, Procs = {only}
  PROVE  Spec => []MissStillHolds
<1> DEFINE I == IInv /\ MissStillHolds
<1>1. Init => I
  BY InitIInv DEF Init, MissStillHolds
<1>2. I /\ [Next]_vars => I'
  BY NextTypeOK, NextControl, NextMiss DEF IInv
<1>3. I => MissStillHolds
  OBVIOUS
<1> HIDE DEF I
<1>4. QED
  BY <1>1, <1>2, <1>3, PTL DEF Spec
=============================================================================
