------------------------------ MODULE Collector ------------------------------
(***************************************************************************)
(* Runs of "list operator|release --image-index <ref>" in one current      *)
(* directory: Validate, ExecutorSchema.Run, Collector.Collect, the copy by *)
(* Mirror.Run into an OCI layout, ExtractLayersOCI with untar, and the     *)
(* listing.  A run is a process; its program counter stops at every system *)
(* call that changes or reads what another run, a crash or a retry can see.*)
(* Runs may follow one another or overlap; tags move in the registry.      *)
(***************************************************************************)
EXTENDS ImageIndex

CONSTANTS
  Procs,     \* terminals, each running the command any number of times
  Served,    \* Served[r] : the image reference r denotes at the start
  Held,      \* the tree at the start: what the mirror tool left behind
  MaxRetry,  \* --retry-times
  Exposed,   \* the steps at which a run may be cut off by a kill or a fault
  Budget     \* bounds on the environment: runs, pushes, kills, I/O faults

VARIABLES
  registry,  \* registry[r] : every image r has denoted, the current one last
  index,     \* index[s] : the manifests of index.json in copyDir(s), or Torn
  blobs,     \* blobs[s] : images whose config, layers and manifest file are there
  cut,       \* cut[s] : images whose manifest file there is not (wholly) written
  first,     \* history: the first image index.json of s ever listed
  tree,      \* every other file and directory below the current directory
  pc,        \* where each process is
  job,       \* its arguments
  attempt,   \* retries of the copy so far
  idx,       \* the in-memory index of the OCI destination
  img,       \* the image being copied, then the one being extracted
  cursor,    \* the directory of Run, or the layer and entry of untar, it is at
  hit,       \* did the run find the cache directory?
  todo,      \* directory names still to be listed
  shown,     \* what the run has listed
  left       \* what is left of Budget

local == <<job, attempt, idx, img, cursor, hit, todo, shown>>
store == <<index, blobs, cut, first>>
vars  == <<registry, store, tree, pc, local, left>>

Jobs  == [kind : Kinds, ref : Refs]
Ended == {"idle", "ok", "err", "killed"}
Steps == {"clean", "mkdir", "log", "stat", "mkcopy", "copy", "pull", "put",
          "seal", "commit", "write", "index", "manifest", "label", "layer", "untar",
          "fill", "readdir", "list", "schema"}

\* Steps where a system call or a request may fail and end the run.
Fallible == Steps \ {"clean", "log", "stat", "label", "list", "schema"}

Bounds == [runs : Nat, pushes : Nat, kills : Nat, faults : Nat]
Spend(f) == left[f] > 0 /\ left' = [left EXCEPT ![f] = @ - 1]

\* The environment is bounded; the other constants are of the types they stand for.
ASSUME CollectorAssumption ==
  /\ Refs # {} /\ Served \in [Refs -> Images]
  /\ IsTree(Held) /\ Rooted(Held)
  /\ MaxRetry \in Nat
  /\ Exposed \subseteq Steps
  /\ Budget \in Bounds

slot(p)  == SlotOf(job[p].kind, job[p].ref)
label(p) == labelOf(slot(p), img[p])
\* Mutant: the layers are extracted last to first.
layersReversed(p) ==
  [n \in DOMAIN Layers[img[p]] |-> Layers[img[p]][Len(Layers[img[p]]) + 1 - n]]
layers(p) == Layers[img[p]]
entry(p) == layers(p)[cursor[p].layer].entries[cursor[p].entry]
\* Mutant: only the base name of a tar entry is kept.
targetFlat(p) == Append(toDir(slot(p)), entry(p).name[Len(entry(p).name)])
target(p) == Resolve(toDir(slot(p)), entry(p).name)
wanted(p) == Matches(entry(p), label(p)) /\ entry(p).type # "other"

Go(p, from, to) == pc[p] = from /\ pc' = [pc EXCEPT ![p] = to]

\* After the extraction, or the cache hit, the run lists.
listing(p) == IF job[p].kind = "operator" THEN "readdir" ELSE "schema"

-----------------------------------------------------------------------------
Init ==
  /\ registry = [r \in Refs |-> <<Served[r]>>]
  /\ index = [s \in Slots |-> <<>>]
  /\ blobs = [s \in Slots |-> {}]
  /\ cut = [s \in Slots |-> {}]
  /\ first = [s \in Slots |-> None]
  /\ tree = Held
  /\ pc = [p \in Procs |-> "idle"]
  /\ job = [p \in Procs |-> CHOOSE j \in Jobs : TRUE]
  /\ attempt = [p \in Procs |-> 0]
  /\ idx = [p \in Procs |-> <<>>]
  /\ img = [p \in Procs |-> None]
  /\ cursor = [p \in Procs |-> [layer |-> 1, entry |-> 1]]
  /\ hit = [p \in Procs |-> FALSE]
  /\ todo = [p \in Procs |-> {}]
  /\ shown = [p \in Procs |-> {}]
  /\ left = Budget

(* The environment *)

\* A tag is moved to another image.
Push(r, m) ==
  /\ m # registry[r][Len(registry[r])]
  /\ Spend("pushes")
  /\ registry' = [registry EXCEPT ![r] = Append(@, m)]
  /\ UNCHANGED <<store, tree, pc, local>>

\* The process is interrupted (signal, power loss) between two steps.
Kill(p) ==
  /\ pc[p] \in Exposed
  /\ Spend("kills")
  /\ pc' = [pc EXCEPT ![p] = "killed"]
  /\ UNCHANGED <<registry, store, tree, local>>

\* A system call or a request fails for good; the error is returned to main,
\* which exits.  What the steps before it wrote stays.
IOError(p) ==
  /\ pc[p] \in Fallible \cap Exposed
  /\ Spend("faults")
  /\ pc' = [pc EXCEPT ![p] = "err"]
  /\ UNCHANGED <<registry, store, tree, local>>

\* Mutant: one retry too many.
CopyRetryOnceMore(p) ==
  /\ attempt[p] <= MaxRetry
  /\ pc[p] \in {"pull", "put"}
  /\ pc' = [pc EXCEPT ![p] = "copy"]
  /\ attempt' = [attempt EXCEPT ![p] = @ + 1]
  /\ UNCHANGED <<registry, store, tree, job, idx, img, cursor, hit, todo, shown, left>>

\* The registry answers with an error retry.IfNecessary takes as retryable:
\* the whole copy starts again.
CopyRetry(p) ==
  /\ attempt[p] < MaxRetry
  /\ pc[p] \in {"pull", "put"}
  /\ pc' = [pc EXCEPT ![p] = "copy"]
  /\ attempt' = [attempt EXCEPT ![p] = @ + 1]
  /\ UNCHANGED <<registry, store, tree, job, idx, img, cursor, hit, todo, shown, left>>

-----------------------------------------------------------------------------
(* cmd/list and pkg/cli *)

\* main, Validate, Complete: a run with arguments that pass.
Start(p, kind, r) ==
  /\ pc[p] \in Ended
  /\ Validate(kind, r)
  /\ Spend("runs")
  /\ pc' = [pc EXCEPT ![p] = "clean"]
  /\ job' = [job EXCEPT ![p] = [kind |-> kind, ref |-> r]]
  /\ attempt' = [attempt EXCEPT ![p] = 0]
  /\ idx' = [idx EXCEPT ![p] = <<>>]
  /\ img' = [img EXCEPT ![p] = None]
  /\ cursor' = [cursor EXCEPT ![p] = [layer |-> 1, entry |-> 1]]
  /\ hit' = [hit EXCEPT ![p] = FALSE]
  /\ todo' = [todo EXCEPT ![p] = {}]
  /\ shown' = [shown EXCEPT ![p] = {}]
  /\ UNCHANGED <<registry, store, tree>>

\* Validate returns an error: exit 1 before anything is touched.
Reject(p, kind, r) ==
  /\ pc[p] \in Ended
  /\ ~Validate(kind, r)
  /\ Spend("runs")
  /\ pc' = [pc EXCEPT ![p] = "err"]
  /\ shown' = [shown EXCEPT ![p] = {}]
  /\ UNCHANGED <<registry, store, tree, job, attempt, idx, img, cursor, hit, todo>>

\* Run: os.RemoveAll(logsDir)
RunClean(p) ==
  /\ Go(p, "clean", "mkdir")
  /\ tree' = RemoveAll(tree, logsDir)
  /\ UNCHANGED <<registry, store, local, left>>

\* Run: the four MakeDir calls, then Collect.
RunMakeDir(p) ==
  LET d == runDirs[cursor[p].layer] IN
  /\ Go(p, "mkdir", IF ~CanMkdirAll(tree, d) THEN "err"
                    ELSE IF cursor[p].layer = Len(runDirs) THEN "log" ELSE "mkdir")
  /\ tree' = IF CanMkdirAll(tree, d) THEN MkdirAll(tree, d) ELSE tree
  /\ cursor' = [cursor EXCEPT ![p].layer = @ + 1]
  /\ UNCHANGED <<registry, store, job, attempt, idx, img, hit, todo, shown, left>>

-----------------------------------------------------------------------------
(* Collect, up to the copy *)

\* os.Create(logsFile): an error is logged and the run goes on.
CreateLog(p) ==
  /\ Go(p, "log", "stat")
  /\ tree' = IF CanCreate(tree, logsFile) THEN Put(tree, logsFile, Torn) ELSE tree
  /\ UNCHANGED <<registry, store, local, left>>

\* Mutant: the directory of the copy is taken for the cache.
StatCopyDir(p) ==
  LET found == ~NotExist(tree, copyDir(slot(p))) IN
  /\ Go(p, "stat", IF found THEN listing(p) ELSE "mkcopy")
  /\ hit' = [hit EXCEPT ![p] = found]
  /\ UNCHANGED <<registry, store, tree, job, attempt, idx, img, cursor, todo, shown, left>>

\* os.Stat(cacheDir): if it exists the copy and the extraction are skipped.
StatCache(p) ==
  LET found == ~NotExist(tree, cacheDir(slot(p))) IN
  /\ Go(p, "stat", IF found THEN listing(p) ELSE "mkcopy")
  /\ hit' = [hit EXCEPT ![p] = found]
  /\ UNCHANGED <<registry, store, tree, job, attempt, idx, img, cursor, todo, shown, left>>

\* Mutant: the wrong directory is made.
MakeCacheDir(p) ==
  LET d == cacheDir(slot(p)) IN
  /\ Go(p, "mkcopy", IF CanMkdirAll(tree, d) THEN "copy" ELSE "err")
  /\ tree' = IF CanMkdirAll(tree, d) THEN MkdirAll(tree, d) ELSE tree
  /\ UNCHANGED <<registry, store, local, left>>

MakeCopyDir(p) ==
  LET d == copyDir(slot(p)) IN
  /\ Go(p, "mkcopy", IF CanMkdirAll(tree, d) THEN "copy" ELSE "err")
  /\ tree' = IF CanMkdirAll(tree, d) THEN MkdirAll(tree, d) ELSE tree
  /\ UNCHANGED <<registry, store, local, left>>

-----------------------------------------------------------------------------
(* Mirror.Run: copy.Image into the OCI layout copyDir(slot(p)) *)

\* newImageDestination loads index.json if there is one.
OpenLayout(p) ==
  /\ Go(p, "copy", "pull")
  /\ index[slot(p)] # Torn
  /\ idx' = [idx EXCEPT ![p] = index[slot(p)]]
  /\ UNCHANGED <<registry, store, tree, job, attempt, img, cursor, hit, todo, shown, left>>

\* index.json exists but does not decode: the destination cannot be opened.
\* A JSON error is not retryable.
OpenLayoutFails(p) ==
  /\ Go(p, "copy", "err")
  /\ index[slot(p)] = Torn
  /\ UNCHANGED <<registry, store, tree, local, left>>

\* NewImageSource: the tag is resolved.
Pull(p) ==
  /\ Go(p, "pull", "put")
  /\ img' = [img EXCEPT ![p] = registry[job[p].ref][Len(registry[job[p].ref])]]
  /\ UNCHANGED <<registry, store, tree, job, attempt, idx, cursor, hit, todo, shown, left>>

\* Mutant: the new manifest goes first.
addManifestFirst(ms, m) == IF \E n \in DOMAIN ms : ms[n] = m THEN ms ELSE <<m>> \o ms

\* addManifest for a destination without an image name: the entry with the same
\* digest is kept, else the new one goes last.
addManifest(ms, m) == IF \E n \in DOMAIN ms : ms[n] = m THEN ms ELSE Append(ms, m)

\* Mutant: the manifest is indexed though nothing was put.
IndexUnputImage(p) ==
  /\ Go(p, "put", "seal")
  /\ UNCHANGED <<registry, store, tree, local, left>>

\* PutBlob renames the config and every layer into place.  PutManifest truncates the
\* manifest file, also that of an image put before ...
PutImage(p) ==
  /\ Go(p, "put", "seal")
  /\ blobs' = [blobs EXCEPT ![slot(p)] = @ \cup {img[p]}]
  /\ cut' = [cut EXCEPT ![slot(p)] = @ \cup {img[p]}]
  /\ UNCHANGED <<registry, index, first, tree, local, left>>

\* ... and writes it.
PutManifest(p) ==
  /\ Go(p, "seal", "commit")
  /\ cut' = [cut EXCEPT ![slot(p)] = @ \ {img[p]}]
  /\ idx' = [idx EXCEPT ![p] = addManifest(@, img[p])]
  /\ UNCHANGED <<registry, index, blobs, first, tree, job, attempt, img, cursor, hit, todo,
                 shown, left>>

\* Commit: os.WriteFile truncates index.json ...
CommitTruncate(p) ==
  /\ Go(p, "commit", "write")
  /\ index' = [index EXCEPT ![slot(p)] = Torn]
  /\ UNCHANGED <<registry, blobs, cut, first, tree, local, left>>

\* ... and then writes it.
CommitWrite(p) ==
  LET s == slot(p) IN
  /\ Go(p, "write", "index")
  /\ index' = [index EXCEPT ![s] = idx[p]]
  /\ first' = [first EXCEPT ![s] = IF @ = None THEN Head(idx[p]) ELSE @]
  /\ UNCHANGED <<registry, blobs, cut, tree, local, left>>

-----------------------------------------------------------------------------
(* Collect, from the copy to the extraction *)

\* Mutant: the last manifest is read.
ReadLastManifest(p) ==
  /\ Go(p, "index", "manifest")
  /\ index[slot(p)] \notin {Torn, <<>>}
  /\ img' = [img EXCEPT ![p] = index[slot(p)][Len(index[slot(p)])]]
  /\ UNCHANGED <<registry, store, tree, job, attempt, idx, cursor, hit, todo, shown, left>>

\* GetImageIndex, then the first manifest it lists.
ReadIndex(p) ==
  /\ Go(p, "index", "manifest")
  /\ index[slot(p)] \notin {Torn, <<>>}
  /\ img' = [img EXCEPT ![p] = Head(index[slot(p)])]
  /\ UNCHANGED <<registry, store, tree, job, attempt, idx, cursor, hit, todo, shown, left>>

\* index.json does not decode: the error is returned.
ReadIndexFails(p) ==
  /\ Go(p, "index", "err")
  /\ index[slot(p)] \in {Torn, <<>>}
  /\ UNCHANGED <<registry, store, tree, local, left>>

\* GetImageManifest and, for an operator index, GetOperatorConfig: a manifest that
\* is not there or cut is an error.
ReadManifest(p) ==
  /\ Go(p, "manifest", IF img[p] \in blobs[slot(p)] \ cut[slot(p)] THEN "label" ELSE "err")
  /\ UNCHANGED <<registry, store, tree, local, left>>

\* ExtractLayersOCI: os.Stat(toPath + label) decides whether to untar at all.
StatLabel(p) ==
  LET found == ~NotExist(tree, labelPath(toDir(slot(p)), label(p))) IN
  /\ Go(p, "label", IF found THEN listing(p) ELSE "layer")
  /\ cursor' = [cursor EXCEPT ![p] = [layer |-> 1, entry |-> 1]]
  /\ UNCHANGED <<registry, store, tree, job, attempt, idx, img, hit, todo, shown, left>>

\* The digest names a sha256 blob, which opens as a gzip stream.
OpenLayer(p) ==
  /\ Go(p, "layer", "untar")
  /\ cursor[p].layer \in DOMAIN layers(p)
  /\ layers(p)[cursor[p].layer].readable
  /\ cursor' = [cursor EXCEPT ![p].entry = 1]
  /\ UNCHANGED <<registry, store, tree, job, attempt, idx, img, hit, todo, shown, left>>

\* It does not: the extraction ends with an error, the layers before it done.
OpenLayerFails(p) ==
  /\ Go(p, "layer", "err")
  /\ cursor[p].layer \in DOMAIN layers(p)
  /\ ~layers(p)[cursor[p].layer].readable
  /\ UNCHANGED <<registry, store, tree, local, left>>

\* No layer is left.
Extracted(p) ==
  /\ Go(p, "layer", listing(p))
  /\ cursor[p].layer \notin DOMAIN layers(p)
  /\ UNCHANGED <<registry, store, tree, local, left>>

AtEntry(p) ==
  /\ pc[p] = "untar"
  /\ cursor[p].entry \in DOMAIN layers(p)[cursor[p].layer].entries
NextEntry(p) == cursor' = [cursor EXCEPT ![p].entry = @ + 1]

\* Mutant: the next layer is not taken.
ReopenLayer(p) ==
  /\ Go(p, "untar", "layer")
  /\ cursor[p].entry \notin DOMAIN layers(p)[cursor[p].layer].entries
  /\ UNCHANGED <<registry, store, tree, local, left>>

\* tarReader.Next returns io.EOF.
CloseLayer(p) ==
  /\ Go(p, "untar", "layer")
  /\ cursor[p].entry \notin DOMAIN layers(p)[cursor[p].layer].entries
  /\ cursor' = [cursor EXCEPT ![p].layer = @ + 1]
  /\ UNCHANGED <<registry, store, tree, job, attempt, idx, img, hit, todo, shown, left>>

\* The name does not contain the label, or the entry is neither a directory
\* nor a regular file.
SkipEntry(p) ==
  /\ AtEntry(p)
  /\ ~wanted(p)
  /\ NextEntry(p)
  /\ UNCHANGED <<registry, store, tree, pc, job, attempt, idx, img, hit, todo, shown, left>>

\* A directory is made with all those on the way to it; "./" is left alone.
trail(p)    == Trail(toDir(slot(p)), entry(p).name)
makeable(p) == entry(p).name = <<>> \/ CanMake(tree, trail(p))

\* A file is created only where every directory on the way is there already.
creatable(p) ==
  /\ entry(p).name # <<>>
  /\ \A a \in Trail(toDir(slot(p)), Front(entry(p).name)) : IsDir(tree, a)
  /\ CanCreate(tree, target(p))

\* A directory: os.MkdirAll, unless it is "./".
UntarDir(p) ==
  /\ AtEntry(p)
  /\ wanted(p) /\ entry(p).type = "dir"
  /\ makeable(p)
  /\ tree' = IF entry(p).name = <<>> THEN tree ELSE Make(tree, trail(p))
  /\ NextEntry(p)
  /\ UNCHANGED <<registry, store, pc, job, attempt, idx, img, hit, todo, shown, left>>

\* A regular file: os.Create truncates what is there ...
UntarCreate(p) ==
  /\ AtEntry(p)
  /\ wanted(p) /\ entry(p).type = "reg"
  /\ creatable(p)
  /\ Go(p, "untar", "fill")
  /\ tree' = Put(tree, target(p), Torn)
  /\ UNCHANGED <<registry, store, local, left>>

\* What a file holds after d is written from its start: if another run wrote
\* something else since this one truncated it, the longer tail may survive.
Written(old, d) == IF old \in {Torn, d} THEN {d} ELSE {d, Torn}

\* ... and io.Copy fills it.
UntarFill(p) ==
  /\ Go(p, "fill", "untar")
  /\ \E d \in Written(tree[target(p)], entry(p).data) :
       tree' = Put(tree, target(p), d)
  /\ NextEntry(p)
  /\ UNCHANGED <<registry, store, job, attempt, idx, img, hit, todo, shown, left>>

\* The directory a file belongs in is not there (its name lacks the label), or
\* a file and a directory collide: untar returns the error.  (Only on the
\* way of a name with ".." may MkdirAll have made directories before; they are left out.)
UntarFails(p) ==
  /\ AtEntry(p)
  /\ wanted(p)
  /\ \/ entry(p).type = "dir" /\ ~makeable(p)
     \/ entry(p).type = "reg" /\ ~creatable(p)
  /\ Go(p, "untar", "err")
  /\ UNCHANGED <<registry, store, tree, local, left>>

-----------------------------------------------------------------------------
(* Collect, the listing *)

\* os.ReadDir(configsDir)
ReadConfigs(p) ==
  /\ Go(p, "readdir", "list")
  /\ IsDir(tree, configsDir(slot(p)))
  /\ todo' = [todo EXCEPT ![p] = ReadDirNames(tree, configsDir(slot(p)))]
  /\ UNCHANGED <<registry, store, tree, job, attempt, idx, img, cursor, hit, shown, left>>

ReadConfigsFails(p) ==
  /\ Go(p, "readdir", "err")
  /\ ~IsDir(tree, configsDir(slot(p)))
  /\ UNCHANGED <<registry, store, tree, local, left>>

\* What ListCatalogs prints of a file: a cut one may still parse up to the cut,
\* or as no object at all.
Listed(q) ==
  IF q \notin DOMAIN tree \/ IsDir(tree, q) THEN {Unread}
  ELSE IF tree[q] = Torn THEN {Torn, Unread} ELSE {tree[q]}

\* One name of the directory (the order of the names is not kept); an error of
\* ListCatalogs is logged and the loop goes on.
ListCatalog(p) ==
  /\ pc[p] = "list"
  /\ \E o \in todo[p] :
       /\ todo' = [todo EXCEPT ![p] = @ \ {o}]
       /\ \E d \in Listed(configsDir(slot(p)) \o <<o, "catalog.json">>) :
            shown' = [shown EXCEPT ![p] = @ \cup {[op |-> o, got |-> d]}]
  /\ UNCHANGED <<registry, store, tree, pc, job, attempt, idx, img, cursor, hit, left>>

ListDone(p) ==
  /\ Go(p, "list", "ok")
  /\ todo[p] = {}
  /\ UNCHANGED <<registry, store, tree, local, left>>

\* GetReleaseSchema: an unread file is an empty document, which does not decode.
ReadSchema(p) ==
  LET q == artifactsFile(slot(p))
      good == q \in DOMAIN tree /\ tree[q] \in Data
  IN
  /\ Go(p, "schema", IF good THEN "ok" ELSE "err")
  /\ shown' = IF good THEN [shown EXCEPT ![p] = {[op |-> "image-references", got |-> tree[q]]}]
              ELSE shown
  /\ UNCHANGED <<registry, store, tree, job, attempt, idx, img, cursor, hit, todo, left>>

-----------------------------------------------------------------------------
Prepare(p) == RunClean(p) \/ RunMakeDir(p) \/ CreateLog(p) \/ StatCache(p) \/ MakeCopyDir(p)
Copy(p) == \/ OpenLayout(p) \/ OpenLayoutFails(p) \/ Pull(p)
           \/ PutImage(p) \/ PutManifest(p) \/ CommitTruncate(p) \/ CommitWrite(p)
Locate(p) == ReadIndex(p) \/ ReadIndexFails(p) \/ ReadManifest(p) \/ StatLabel(p)
Extract(p) == \/ OpenLayer(p) \/ OpenLayerFails(p) \/ Extracted(p) \/ CloseLayer(p)
              \/ SkipEntry(p) \/ UntarDir(p) \/ UntarCreate(p) \/ UntarFill(p)
              \/ UntarFails(p)
List(p) == \/ ReadConfigs(p) \/ ReadConfigsFails(p) \/ ListCatalog(p) \/ ListDone(p)
           \/ ReadSchema(p)

\* Nobody runs the command any more.
Finished ==
  /\ left.runs = 0
  /\ \A p \in Procs : pc[p] \in Ended
  /\ UNCHANGED vars

\* The code of one run, from Run to its exit.
Step(p) == Prepare(p) \/ Copy(p) \/ Locate(p) \/ Extract(p) \/ List(p)

Next ==
  \/ \E p \in Procs : Step(p) \/ CopyRetry(p) \/ IOError(p) \/ Kill(p)
  \/ \E p \in Procs, kind \in Kinds \cup {"other"}, r \in Refs :
       Start(p, kind, r) \/ Reject(p, kind, r)
  \/ \E r \in Refs, m \in Images : Push(r, m)
  \/ Finished

Spec == Init /\ [][Next]_vars

\* A process that is not killed keeps running: nothing in it waits for another.
FairSpec == Spec /\ \A p \in Procs : WF_vars(Step(p))

-----------------------------------------------------------------------------
(* Properties *)

\* What the variables hold; a copy is tried again at most MaxRetry times.
TypeOK ==
  /\ registry \in [Refs -> Seq(Images) \ {<<>>}]
  /\ index \in [Slots -> Seq(Images) \cup {Torn}]
  /\ blobs \in [Slots -> SUBSET Images] /\ cut \in [Slots -> SUBSET Images]
  /\ first \in [Slots -> Images \cup {None}]
  /\ IsTree(tree)
  /\ pc \in [Procs -> Steps \cup Ended]
  /\ job \in [Procs -> Jobs]
  /\ attempt \in [Procs -> 0..MaxRetry]
  /\ idx \in [Procs -> Seq(Images)]
  /\ img \in [Procs -> Images \cup {None}]
  /\ cursor \in [Procs -> [layer : Nat, entry : Nat]]
  /\ hit \in [Procs -> BOOLEAN]
  /\ todo \in [Procs -> SUBSET Segment]
  /\ shown \in [Procs -> SUBSET [op : Segment, got : Data \cup {Torn, Unread}]]
  /\ left \in Bounds

\* Whatever index.json names, and whatever a run has read in it, has its config,
\* layers and manifest file in the layout, however runs overlap and wherever they
\* are cut off: the copy puts before it commits, and nothing is taken away.
IndexClosed ==
  /\ \A s \in Slots : index[s] # Torn =>
       \A n \in DOMAIN index[s] : index[s][n] \in blobs[s]
  /\ \A p \in Procs : pc[p] = "manifest" => img[p] \in blobs[slot(p)]

\* Has a reference stored in s denoted m?
DenotedFor(s, m) ==
  \E r \in Refs : imageIndexDir(r) = s.key /\ \E n \in DOMAIN registry[r] : registry[r][n] = m

\* May q, holding d, be a file of image m that its label selects?  It is under its
\* own name in the directory of s, unless its name has a ".." in it, which untar
\* follows wherever it leads.
FileOf(s, m, q, d) ==
  \E e \in Entries(m) :
    /\ e.type = "reg" /\ Matches(e, labelOf(s, m)) /\ d = e.data
    /\ Local(e.name) => q = toDir(s) \o e.name

\* Every complete file in the tree is as the mirror tool left it, or is a file of an
\* image that a reference has denoted, in the directory of that reference: whatever
\* overlaps, is killed or retried, no run fills a file for another directory, from
\* another image, or that the label does not select.
Provenance ==
  \A q \in DOMAIN tree : tree[q] \in Data =>
    \/ q \in DOMAIN Held /\ tree[q] = Held[q]
    \/ \E s \in Slots : \E m \in blobs[s] : DenotedFor(s, m) /\ FileOf(s, m, q, tree[q])

\* With one run at a time, all the files ever extracted for a directory name come
\* from one image, the first its index.json listed: a cache that was cut off and
\* one that was extracted late never mix two images of a moving tag.
OneImagePerCache ==
  \A q \in DOMAIN tree : tree[q] \in Data =>
    \/ q \in DOMAIN Held /\ tree[q] = Held[q]
    \/ \E s \in Slots : first[s] # None /\ FileOf(s, first[s], q, tree[q])

\* With one run at a time, what os.Stat said of the operator cache directory still
\* holds when the extraction begins, many steps later: ExtractLayersOCI never
\* finds the label there, so a run that downloads always extracts.
MissStillHolds ==
  \A p \in Procs :
    pc[p] \in {"mkcopy", "copy", "pull", "put", "seal", "commit", "write", "index",
               "manifest", "label"} /\ job[p].kind = "operator"
      => cacheDir(slot(p)) \notin DOMAIN tree

\* With one run at a time, an operator run that extracted the image itself and
\* exits 0 lists exactly that image's catalogue: overlaid layers, label filter,
\* missing directories and earlier failed runs notwithstanding (Catalogue is that of
\* an image with no ".." in its names).
FreshListingComplete ==
  \A p \in Procs :
    pc[p] = "ok" /\ ~hit[p] /\ job[p].kind = "operator"
      => shown[p] = Catalogue(img[p])

\* Every run comes to an end, also one that finds a torn index, meets a layer that
\* does not open in the middle of the extraction, or tries the copy again.
RunsEnd == \A p \in Procs : pc[p] \in Steps ~> pc[p] \in Ended

\* Once nothing is cut off any more, a run of an operator index lists it, whatever
\* earlier runs were cut off at: no cut outside the extraction and the two files
\* written in place leaves anything behind that stops a later run.
RecoversFromCuts ==
  \A p \in Procs :
    (pc[p] = "clean" /\ job[p].kind = "operator" /\ left.kills = 0 /\ left.faults = 0)
      ~> pc[p] = "ok"
=============================================================================
