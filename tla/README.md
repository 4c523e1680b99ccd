# A verification of the image index lister

The program is a small command, `list operator|release --image-index <ref>`.
It copies an index image from a registry into an OCI layout on disk, untars the
layers it wants, and prints what they list. What makes it worth a model is not the
printing. The three directories it leaves behind (`working-dir/operator-images`,
`working-dir/release-images` and `working-dir/hold-*`) are a cache that later runs
trust. It is filled by a long sequence of system calls that can stop anywhere, from
a tag that may move, and no lock protects it.

Contents: 1 inventory, 2 modules, 3 model and code, 4 runs and bounds, 5 fairness,
6 proofs, 7 where the code departs from what is said of it, 8 not modelled,
9 plan.

## 1. Inventory

| Component | Source | State it keeps | Operations | What makes it correct |
|---|---|---|---|---|
| Command line | `src/cmd/list/main.go`, `src/pkg/cli/executor.go` | `logs/`, the directories below `working-dir` | `Validate`, `Complete`, `Run` | a rejected run touches nothing; whatever an earlier run left, the directories can be made again |
| Collector | `src/pkg/index/list-images.go` | the cache directory of a reference | `Collect` (both kinds) | what is listed is the whole catalogue of one image the reference has denoted |
| Manifest reader | `src/pkg/manifest/manifest.go` | the extracted files | `GetImageIndex`, `GetImageManifest`, `GetOperatorConfig`, `ExtractLayersOCI`, `untar`, `ListCatalogs`, `GetReleaseSchema` | layers are overlaid in order; a file is filled only with what the image and its label say, and below the directory of the reference unless its own name leads out of it; a failure is an error |
| Mirror | `src/pkg/mirror/mirror.go` | policy context, report writer | `Run`, `copy` | nil exactly if the copy is on disk, a bounded number of tries; the call ends; the report reaches the log |
| Image copy (library) | vendored `image/v5/copy/copy.go`, `signature/policy_eval.go` | goroutines of the layers, state of the policy context | `copy.Image`, `IsRunningImageAllowed` | all goroutines are waited for; the policy context is given back on every way out |
| OCI destination (library) | vendored `image/v5/oci/layout/oci_dest.go` | `index.json`, `blobs/` | open, `PutBlob`, `PutManifest`, `Commit` | `index.json` names only what is in `blobs/` |
| Retry (library) | vendored `common/pkg/retry/retry.go` | the attempt | `IfNecessary` | bounded, ends with the context |
| Copy options | `src/pkg/mirror/options.go` | flag values, system contexts | flag sets, `NewSystemContext`, `GetPolicyContext`, `CommandTimeoutContext`, `ParseManifestFormat` | what is said of a side reaches that side and no other (two kinds of flags do not reach it: section 7) |
| Re-exec | `src/pkg/mirror/unshare_linux.go` | none | `ReexecIfNecessaryForImages` | the re-exec is commented out |
| Logger | `src/pkg/log/logger.go` | level | `Info`, `Debug`, `Trace`, `Error`, `Level` | the listing is printed |
| Catalogue and release types | `src/pkg/api/v1alpha3/types.go` | none | decoding | — |
| Configuration API | `src/pkg/api/v1alpha2/*` | the stored metadata of a client | `MarshalJSON`, `UnmarshalJSON`, `Validate`, `GetUniqueName`, `Encode`, `Decode` | what is written can be read again; imported by no other package |

How they interact: `main` builds the cobra command; `Run` makes the directories and
calls `Collect`; `Collect` calls `Mirror.Run`, which calls the library's `copy.Image`
under `retry.IfNecessary`; `copy.Image` opens the destination, then the source, puts
blobs and manifest, and commits. Back in `Collect`, the manifest reader is called for
`index.json`, the manifest, the config and the layers, and for the listing. All of it is
one goroutine as far as this repository's files go. The library copies the layers in
goroutines of their own: each blob is renamed into place when complete, but all of them
print to the one report writer `Mirror.copy` gave them. The other shared state is the file
system of the current directory and the registry, so the interleavings that matter are
*between runs* (one after another, overlapping, or resumed after a run that died) and, in
one run, between the goroutines of the layers.

Hard behaviours:

* the existence of the cache directory is the only test of a complete download, and it
  exists from the first `MkdirAll` of `untar` on;
* `index.json` and the manifest file are truncated and rewritten in place; `index.json`
  is loaded at the beginning of a copy and written at the end;
* a moving tag makes `index.json` grow, and the first manifest is the one read;
* a reference is known on disk by its last component only, and a reference without a
  tag has the *parent* of the tagged ones as its cache directory;
* a retry restarts the copy over what the failed attempt left, and takes the policy
  context again;
* four names (copy, cache, extraction, listing directory) have to agree in each of two
  branches;
* a `bufio.Writer` is handed down by value and shared by goroutines without a lock;
* every wait of the copy (registry, semaphore, delay, goroutines) has to end, with or
  without a timeout;
* `catalog.json` is rewritten as text before it is decoded, and may be read while another
  run writes it.

The file `PROJECT.json` lists the hazards by line with the properties that watch them.

## 2. Modules

| Module | What it is |
|---|---|
| `ImageIndex` | the data: references, images, layers, the names derived from a reference, a file tree with `MkdirAll`, `Create`, `RemoveAll`, and the reference definition `Catalogue(m)` of what image `m` lists |
| `Collector` | the state machine: any number of terminals (`Procs`) that run the command in one directory, with the registry, kills and faults; its properties |
| `SnapshotCache` | abstract specification: a cache that takes one snapshot of an image and answers with its complete listing |
| `CollectorClaims` | the refinement mapping from `Collector` to `SnapshotCache`, and what comments and the repository's README say beyond what the code keeps |
| `MCCollector` | images, references and bounds for TLC |
| `CollectorProofs` | proofs for any number of overlapping runs |
| `OneTerminalProofs` | proofs for runs that do not overlap |
| `ListingProofs` | proofs: what such a run lists after extracting an image itself |
| `SnapshotProofs` | proof that `Collector` implements `SnapshotCache` |
| `Mirror` | one call of `Mirror.Run`: policy context, goroutines, report writer, retries, timeout |
| `CopyContract` | abstract specification: what `Collect` takes `Mirror.Run` to do |
| `MCMirror` | inputs of the calls for TLC |
| `MirrorProofs` | proofs: `Mirror` implements `CopyContract`, keeps its types, and reports in order |
| `Options` | flags, option objects, system contexts, copy options |
| `OptionsProofs` | proofs about `Options`, for command lines of any length |
| `MCOptions` | the command's global options, and those of other callers of the package |
| `Catalog` | the listing: reading `catalog.json` and the release, printing at a log level |
| `MCCatalog` | catalogues for TLC |
| `CatalogProofs` | proof that a listing says what the catalogues declare, for any catalogues |
| `Metadata` | v1alpha2: loading, changing and saving metadata |
| `OperatorConfig` | v1alpha2: the unique name of an operator catalogue, and the include config |
| `ApiProofs` | proofs about `Metadata` and `OperatorConfig` |
| `MCApi` | a client of v1alpha2 that works with one or the other, and its values for TLC |

`CollectorClaims` EXTENDS `Collector` EXTENDS `ImageIndex`; `SnapshotCache` shares
nothing with them and is instantiated with a mapping. `Mirror` instantiates
`CopyContract` in the same way. The other modules stand on their own. They meet
`Collector` where one abstracts the other: the steps `copy` to `write` of a run are what
`Mirror` does to the OCI layout, with the contract (nil if and only if committed,
restarts up to `MaxRetry`) as the interface; `ListCatalog` and `ReadSchema` of a run are
what `Catalog` does with the contents of the files; and what `Options` hands to the copy
is `Mirror`'s `MaxRetry` and `given.timed`.

## 3. Model and code

**State.** `tree` maps every path below the current directory to `DirNode`, to the
complete contents of a file of a layer, or to `Torn` (created but not, or not wholly,
written). The OCI layouts are kept apart from it: `index[s]` is the list of manifests in
`index.json` of directory name `s` (`Torn` between truncation and write), `blobs[s]` the
images put there, `cut[s]` those whose manifest file is truncated. An image stands for its
manifest digest, and so for its config and layers, as blobs are addressed by content.
`registry[r]` is the history of the tag, its last element what it denotes now. `first` is
a history variable. The rest is the local state of each run: `pc`, arguments `job`,
`attempt`, the destination's in-memory index `idx`, the image `img`, a `cursor` into the
directories of `Run` and later into the layers and entries of `untar`, the outcome `hit` of
the cache check, the names `todo` and the output `shown`.

**Steps.** The program counter stops before each system call whose effect another run can
see or whose absence a kill can leave:

| `pc` | Code | Actions |
|---|---|---|
| `idle`, `ok`, `err`, `killed` | no run, or its exit | `Start`, `Reject` (`Validate`, `Complete`) |
| `clean`, `mkdir` | `Run` | `RunClean`, `RunMakeDir` (four times) |
| `log` | `os.Create(logsFile)` | `CreateLog` |
| `stat`, `mkcopy` | `os.Stat(cacheDir)`, `MkdirAll(copyDir)` | `StatCache`, `MakeCopyDir` |
| `copy`, `pull` | `copy.Image`: destination opened, source resolved | `OpenLayout`, `OpenLayoutFails`, `Pull` |
| `put`, `seal` | blobs, then the manifest file: truncate, write | `PutImage`, `PutManifest` |
| `commit`, `write` | `index.json`: truncate, write | `CommitTruncate`, `CommitWrite` |
| `index`, `manifest` | `GetImageIndex`; `GetImageManifest`, `GetOperatorConfig` | `ReadIndex`, `ReadIndexFails`, `ReadManifest` |
| `label` | `os.Stat(toPath + label)` | `StatLabel` |
| `layer`, `untar`, `fill` | `ExtractLayersOCI`, `untar` | `OpenLayer(Fails)`, `Extracted`, `CloseLayer`, `SkipEntry`, `UntarDir`, `UntarCreate`, `UntarFill`, `UntarFails` |
| `readdir`, `list` | `os.ReadDir`, the loop over `ListCatalogs` | `ReadConfigs`, `ReadConfigsFails`, `ListCatalog`, `ListDone` |
| `schema` | `GetReleaseSchema` | `ReadSchema` |

Environment: `Push` moves a tag; `Kill` ends a process between two steps; `IOError` makes
a system call or request fail for good; `CopyRetry` is a retryable error inside
`copy.Image`, which restarts the copy at `copy`. `Exposed` is the set of steps at which a
kill or fault may happen, so that a property can say which cuts it tolerates.
`Finished` is a self-loop for when nobody runs the command any more. It keeps deadlock
checking meaningful: any other state without a successor is an error.

**Names** are translated as the code computes them: `toDir` of a release is the
concatenation `"working-dir" \o "hold-releases" \o name` without separators, `labelPath`
appends a label without a leading slash to the last segment, `configsDir` uses the outer
`label`, and `imageIndexDir` drops registry and namespace. `untar` opens
`path + "/" + header.Name` as it is, and the kernel follows a `..` in it: `Walk(q, name)` is
where it has got to after each segment of the name, `target` (by `Resolve`) where it ends, and
`trail` the directories on the way, which `os.MkdirAll` makes and `os.Create` must find there.
The directory `./` is left alone.

**Abstractions.** Blobs of an image appear in one step (each is renamed into place when
complete, and nothing reads one before `index.json` names its image; what matters, blobs
before manifest before index, is kept). The two directories the OCI destination makes in
`copyDir` are not in `tree`. A file being extracted is `Torn` until `io.Copy`, taken as one write, ends (two
copies of one file that overlap inside `io.Copy` could leave it torn where the model has
one of the contents; no property tells the two apart). When
two runs write the same file, the one that fills it last may leave either content or a
mixture (`Written`). Whiteout entries are plain files, in `untar` and in `Catalogue`
alike, as in the code. `ListCatalogs` is the identity of a file's contents or `Unread`;
a torn file may list anything up to its cut (`Torn`); what it lists is in `Catalog`. The
order of names in a listing is left out, and the contents of the log file are in `Mirror`.

**Mirror.** `pc` follows `Mirror.copy` and `copy.Image`: `policy`, `parse` (set-up); `open`,
`source`, `allow`, `judge`, `layers`, `wait`, `config`, `blob`, `manifest`, `signatures`,
`commit`, `flush` (a try that succeeds); `failed`, `delay` (`retry.IfNecessary`); `destroy`
(the deferred function), `collect` (back in `Collect`), `end` or `panic`. `layer[l]` is the
goroutine of layer `l`: not started, in one of the steps of printing its line, fetching, or
ended with an outcome. The writer is `n[w]`, the count of each copy of the struct
(`Collect`'s and the one in `copy`), and `buf`, the array they share. A line is the unit of
the buffer; that is the granularity at which the code prints. `Write` of the library has no
lock, so it is split where another goroutine can get in between: the count is read (`Write`),
the line is copied to that place (`Store`), the count is set, read again or from a register
(`Advance`); a full buffer is handed to the file (`Drain`) and the count cleared (`Reset`),
where lines that came in between look like a short write that leaves the writer `stuck`. A
count beyond the buffer makes the next slice of it panic. An error is `refused` (one for which
`isRetryable` holds), `fatal`, `cancelled` or `destroy`. `said` (the lines reported) and
`committed` are history variables. `given` is what one call is given: the layers of the image, whether the policy file
and the names are readable, whether a timeout is set, and how many layers are copied at once (six: the docker source and the OCI
destination are both safe for several, so the library never falls back to one). After the commit, closing source and destination
returns nil in both transports and is left out.

**Options.** A flag is a name with a prefix, an option object and a field; `SetFlag` stores
the next flag of the command line, and the rest follows `Complete` and the first half of
`Mirror.copy`. `heap` holds the `SystemContext` objects, so that two sides sharing one would
show. The values of flags are small sets; the global options no flag sets are a parameter.
The fields of `GlobalOptions` that are passed on without being looked at are left out.

**Catalog.** A `catalog.json` is a sequence of objects and the white space between
them, not characters: the decoder's rewriting is then what it does to strings (`Stripped`)
and which gaps become a comma (`Joined`). Another run creates and fills the files meanwhile
(`Create`, `Grow`); a text may end inside an object. `pc` and the indices in `at` follow the
three nested loops of `ListCatalogs` over objects, entries and skipped versions, one step
for each time round (`ListObject`, `ListChannel`, `ListEntry`, `ListSkip`, `EndEntry`,
`EndChannel`), inside the loop of `Collect` over the operators (`NextOperator`, `LogError`,
`ListedAll`). `out` is the terminal; `Understand` is how a reader makes objects of its lines,
and is used in the properties only, with `Begins`, `PartOfChannel` and `PartOfEntry` for a
listing that is in the middle of a channel. Any object of a catalogue is one of the three
schemas, with the fields that are printed.

**Metadata, OperatorConfig.** No package calls v1alpha2, so the client is any sequence of
calls. A `Metadata` is one `Association` and one `ReleaseChannel`, which is where the two
enumerations occur; each has two tables in the code, from type to string and back, and both are
written out here as they are there (`imageTypeStrings` and `imageStrings`, `platformTypeStrings`
and `platformStrings`); a value that is not a JSON string (`NotString`) is an error of
`UnmarshalJSON`, and the client keeps the value it has; `own` and `loaded` record who wrote the document and whether the value in
memory is still as it was loaded. In `OperatorConfig` a
reference is a record of the parts `reference.Parse` gives; an `IncludeConfig` is a slice of
packages, over an array that `gob` uses again when it is long enough. The two share no state, so
the client of `MCApi` works with one of them from start to end.

## 4. Runs and bounds

| Run | Asks | Result |
|---|---|---|
| `sequential` | `OneImagePerCache`, `MissStillHolds`, `FreshListingComplete`, `RunsEnd`: one terminal, eight kinds of image, three references, kills and faults at every step, one retry, a tag that moves | holds |
| `overlap` | types; `IndexClosed`, `Provenance`: two terminals on one directory name, two references, a retry, a kill, a push, an entry name with `..` and an unreadable layer | holds |
| `recovery` | `RecoversFromCuts`: three runs cut off by a kill and two faults, anywhere outside the extraction and the two files written in place, and a fourth that nothing cuts off | holds |
| `snapshot` | `ListsOneSnapshot`: the refinement of `SnapshotCache`, when no extraction is cut | holds |
| `mirror` | types; `ReportInOrder`, `CopyEnds`, and `KeepsContract`, the refinement of `CopyContract`: up to three layers, two at a time (and one case of fewer, below), a buffer of two lines, one retry, with and without a timeout, every error of the set-up | holds |
| `options` | `CopyFollowsFlags`: every two flags in either order, for 48 settings of the global options | holds |
| `catalog` | `ListingSaysCatalogue`: two operators, five texts each, present or not, each file rewritten once meanwhile, five log levels; two release components | holds |
| `api` | `OwnDocumentsSurvive`, `TypeSurvivesResave`: every document and every sequence of calls; `NameCarriesTarget`, `DecodesEncoded`: nine forms of a catalogue, four targets, five include configs | holds |
| `skips_partial`, `release_listing`, `mirror_blobs`, `options_flags` | one claim each that the code does not keep (section 7) | violated |

*Images* (`MCCollector`): one layer; three layers that overwrite and add, with an entry
outside the label and a link; a label that names another folder; no label; a layer that
is not gzip after one that is; a file without its directory; a file where a later layer
needs a directory; a release. These are all the ways the branches of `untar` and
`ExtractLayersOCI` can go. For two terminals there is one more: a catalogue, a file whose name
leads two directories up and so lands beside the tagged caches, and a layer that does not open;
its other image is the one of three layers. *References*: one tagged, the same without a tag (nested
cache directories), one release, and for two terminals the same name in another
registry. `sequential` starts with what the mirror tool leaves for a release, the only
state in which a release is listed. *Budgets*: three runs of one terminal are a run that
is cut off, one that inherits what it left, and one that inherits from both; a push
between any two of their steps gives `index.json` two manifests, and one kill and one
fault give every pair of cuts. For overlap, two runs are the least and the most that two
terminals can have at once. Retries only repeat `copy` to `put`, so one is as good as
many for what they leave; `sequential`, `overlap` and `recovery` have one, and `TypeOK` in
`overlap` checks the bound itself. `RunsEnd` is checked in `sequential`, where runs meet a torn
`index.json`, layers that do not open, entries that fail, and a retry.

*Mirror*: two at a time stand for six. They are the least that race for the writer, and three
layers the least with one that waits for the semaphore meanwhile; a buffer of two lines
makes it overflow, be drained by one goroutine while another writes, and panic; three layers and
a retry are the least that leave the writer stuck with a short write. The timeout is combined with
up to two layers, three being too many for TLC; so that it can also expire while the loop waits for
the semaphore, in one of those cases the semaphore has a single place for the two. `ReportInOrder` says two things: the whole order, of images with at most one layer,
which is false of more (finding 3); and the last lines, of all images. The second excepts a writer
left with an error, which then writes nothing. *Options*: a flag changes one field, and a property relates at
most two (a flag and one that overwrites or shadows it). *Catalog*: the texts give and leave
out every optional field, have two channels so that an entry could land under the wrong one,
have each kind of gap, accepted and not, and one has a space in a string, as the test data do.
*API*: the documents are all there are over one foreign name and one value that is not a string.

Every property of a passing run has a mutation of the code it refutes, listed in
`PROJECT.json`.

## 5. Fairness

`Collector`'s `FairSpec`, the specification of the runs `sequential` and `recovery`, assumes weak
fairness of `Step(p)` for each process: a process that is not
killed is scheduled and its system calls return. Nothing in a run waits for another run,
so no stronger fairness is needed, and none is assumed of the environment: `Start`,
`Push`, `Kill`, `IOError` and `CopyRetry` may never happen. One thing is assumed that the
code does not provide: that the registry answers.

`Mirror` separates the two. Its `FairSpec` assumes weak fairness of the code's own steps, of
each goroutine, and of time (`Expire`, which is enabled only if a timeout is set; `Wake`, the
end of a delay): the scheduler runs them and nothing else. Under it a call with a timeout ends.
A call without one need not, so `AnsweringSpec`, the specification of the run `mirror`, adds
weak fairness of the registry's answers, good or bad, for the calls that have no timeout, and for
those only: with a timeout `CopyEnds` is checked against a registry that may never answer.
`DestFails` is never fair: the disk need not fail.

## 6. Proofs

TLAPS checks the following for all values of the constants: any references, images and
layers, any number of terminals, any `Exposed` and any bounds, any number of layers,
goroutines and retries of a copy, any size of the buffer, command lines of any length, any
documents and configs. The named assumptions they rest on say of what type the constants
are and that the markers are distinct. Five say more:

* `CollectorAssumption`: `Rooted(Held)`, the tree at the start is one a file system can
  have, in which everything is in directories that are there;
* `RefsAssumption`: `joined(r.name)`, the segment that `toDir` of a release makes by
  concatenation, is not `working-dir` itself (it begins with `working-dirhold-releases`);
* `TargetsAssumption`: no entry of an image is opened inside an OCI layout or as the log file. It is a
  restriction of the images, and needed only where a name has a `..`: an entry without one stays
  below `hold-*` (section 8);
* `MetadataAssumption`: a foreign name is in none of this version's tables, nor is the marker of
  a value that is not a string;
* `CatalogAssumption`: a text has at least one object and a gap between each two, and taking
  the spaces out of a string twice is taking them out once (`strings.ReplaceAll`).

"Alone" in the table is the hypothesis `Procs = {only}`: runs do not overlap, in any number,
one after another, with kills and faults. "Local" is the hypothesis `LocalNames`: no name of an
entry has a `..`. `Catalogue(m)` is defined by the names as they are written, so it is the
catalogue only of such images.

| Module | Theorem | Property | Inductive invariant, and why it is needed |
|---|---|---|---|
| `CollectorProofs` | `TypeCorrect` | `TypeOK` | `IInv` = `TypeOK /\ Control`. `Control` ties the counter to the local state: from `put` on `img` is an image, in `untar` the cursor is in the range of the layers, from `commit` on `idx` is not empty. Without it `target(p)` has no type. That `Walk` ends in a path is proved by the smallest position at which it would not (`WalkIsPath`). |
| | `IndexIsClosed` | `IndexClosed` | `IInv /\ Indexed /\ Stored`. `Stored`: an image has been put before a run gets past `put` with it. `Indexed`: what a destination keeps in memory is in the layout too, and so survives that another run commits in between. |
| | `ContentHasProvenance` | `Provenance` | the same, `AllDenoted` (what is in a layout was denoted by a reference of its name), `Selecting` (a file is filled only if the label selected its entry), `BlobsGrow` (nothing is taken from a layout) and `TreeSteps` (every change of the tree but `UntarFill` only adds directories and torn files or removes). `WalkIsLocal` gives the place of a name without a `..`. |
| `OneTerminalProofs` | `OneImage` (alone) | `OneImagePerCache` | `Oldest`: the first manifest in `index.json` and in memory is the first ever committed for the name, and that is what is extracted. |
| | `MissHolds` (alone) | `MissStillHolds` | no step from the cache check to the label check adds the cache directory, since `copyDir` and `cacheDir` differ in their second segment. |
| `ListingProofs` | `FreshListing` (alone, local) | `FreshListingComplete` | `FreshInv` with `IInv` and `MissStillHolds`; see below. |
| `SnapshotProofs` | `CollectorIsSnapshotCache` (alone, local) | `ListsOneSnapshot` | all of the above and `SnapshotInv`; see below. |
| `MirrorProofs` | `MirrorKeepsContract` | `KeepsContract` | `Uncommitted` (a try that runs has not committed, and has an error in hand only while it waits for goroutines after `Acquire` failed), `PolicyReady` (the policy context is `Ready` wherever the deferred `Destroy` can be reached), `Settled` (on the way out there is no error if and only if a try has committed), `Retries`. Without `PolicyReady`, `Destroy` could turn a copy on disk into an error. Steps of the goroutines, of time and of the launching loop leave all of it alone (`QuietSteps`, `CoreSteps`); the others are a case each (`LoudSteps`). |
| | `MirrorTypeOK` | `Mirror`'s `TypeOK` | `Bounds`: the count plus the number of goroutines that have read it and not yet added to it is at most the size of the buffer plus the number of layers. The bound on the count alone is not inductive: each of those goroutines still adds one. |
| | `ReportInOrderAlways` | `ReportInOrder` | for images of at most one layer `OrderInv`: `Alone` (at most one goroutine runs, and only while the call waits for it, so no count passes the buffer), `Ordered` (what file and buffer hold at each step of that goroutine; between `Drain` and `Reset` the lines are in both), `Flushed` (a try that succeeded has emptied the buffer). For any image `EndingInv`: from `PrintConfig` on no goroutine runs, so the lines printed since are the last of file and buffer, whatever stands before them. |
| `OptionsProofs` | `CopyFollowsFlagsAlways` | `CopyFollowsFlags` | `OptionsFollowFlags`: each option that decides something holds what its flag said last. `ContextsFollowOptions`: the contexts made so far are objects of their own and say what the options of their side say. |
| `CatalogProofs` | `ListingSaysCatalogueAlways` | `ListingSaysCatalogue` | `CatalogInv` = `FilesInv /\ ReadInv /\ LoopsInv /\ LinesInv`; see below. |
| `ApiProofs` | `OwnDocumentsSurviveAlways`, `TypeSurvivesResaveAlways` | `OwnDocumentsSurvive`, `TypeSurvivesResave` | `MetadataInv`: a document this version wrote has names of its tables (`OwnNames`), a value in memory just loaded has the type its document says (`LoadedType`). The first then needs that the two tables agree on each of the names (`ImageNames`, `PlatformNames`), line by line. |
| | `NameCarriesTargetAlways`, `DecodesEncodedAlways` | `NameCarriesTarget`, `DecodesEncoded` | for the second, `DecodeInv`: the client's variable is a slice no longer than its array, and only a new one has no array. |

The theorems of `ApiProofs` are about `MetadataSpec` and `OperatorSpec`. The client of
`MCApi` takes steps of one or the other and leaves the rest alone, so each of them holds of
it; the run checks the properties there.

**What untar leaves** (`ListingProofs`). The loop over layers and entries needs no induction
over data, because the state machine takes one step per entry: the invariant says what is
there after the entries *behind the cursor*. `Reflects(t, c, m, D, X)` says of the tree `t`
below the cache directory `c` and the entries at the positions `D` of image `m` that every
path there is explained by one of them (`Explained`), that each that the label selects has
its path (`Present`), and that a file holds what the last of them wrote (`Latest`), except for
the path in `X` that is created and not filled. `Behind` grows by one with each step, and is
all of `Positions(m)` when no layer is left; then the names below `configs` and the data of
the files are those of `Catalogue(m)` (`NamesAreOpNames`, `ListedIsFinal`). The extraction
starts from nothing because of `MissStillHolds`, whence that theorem has to come first;
`Rooted(tree)` is needed to conclude from a missing directory that nothing is below it.
`FreshInv` was checked by TLC on the instance of `sequential` before it was proved.

**The refinement** (`SnapshotProofs`). `SnapshotInv` says that a cache directory that is
there, and is not being filled, reflects the whole image its layout listed first
(`CachesWhole`); that whatever run lists it, whether it found the cache or filled it, has
shown what that image lists (`ListsWhole`); and that what is in a layout was denoted by a
reference of its directory name (`AllDenoted`). Then `CommitWrite` into a layout that was
never committed is `Take`, the end of an operator's listing is `Answer`, `Start` and
`Reject` are `Ask`, `Push` is `Publish`, and every other step is a stutter (`UnseenSteps`,
`Simulation`). The theorem has three hypotheses beside `Procs = {only}` and `LocalNames`:

* `[][~CutsOff]_vars`: no extraction ends with an error or a kill once the cache directory
  exists. Finding 1 is what happens without it.
* `NoCacheHeld`: there is no operator cache at the start, as the code cannot tell whose it
  is.
* `Apart`: no operator cache directory is the parent of another. They are nested if a reference
  is given without a tag and one of the same name with a tag. The run `snapshot` checks that
  case too, but it does not hold for all images: one with a directory that is called
  like the tag, or a tag called `configs`, would put the files of one image in the cache of
  the other.

**What the lines say** (`CatalogProofs`). `ListingSaysCatalogue` compares a fold over the lines
of the terminal with a fold over the objects of a file, and is not inductive: that what has been
listed is a prefix of what is declared does not say what the next line is added to. `LinesInv`
gives the reading in closed form: every listing but the current one has `Ended`, with an error
or with what a first part of the file shows, and the current one is `SoFar`, what the loops have
passed, up to the entry and the version in `at`. That stays exact when the text has spaces in its
strings or is rewritten meanwhile, because `ReadInv` remembers that the decoded objects are the
first `k` of the text; the files come back only at the end, where `creates[o] = 0` makes what is
on disk the whole text or nothing (`FilesInv`). Each step adds at most two lines, so the folds are
needed one element at a time: `UnderstandAppend` and `ShownAppend` say what one more does, and
the facts about every prefix (`ShownObjects`) are inductions over the set of the lengths for
which they hold (`Naturals1`, from the least member that is missing), which needs no theorem with
an operator parameter. One lemma for each kind of step then says what the reading is after it
(`BeginStep`, `WithinStep`, `ErrorStep`, `SilentStep`, `ReleaseStep`), and `InvSays` concludes the
property. `CatalogInv` was checked by TLC on the instance of `catalog` before it was proved.

**Only model-checked**: the liveness properties `RunsEnd`, `RecoversFromCuts` and `CopyEnds`
(temporal logic with fairness and ENABLED); the refinement of `SnapshotCache` for nested caches;
and the claims of section 7, which are refuted. Every invariant and every action property that a
passing run checks is a theorem, under the hypotheses of the table.

## 7. Where the code departs from what is said of it

Each is a run with the comment or README line quoted in `PROJECT.json`.

1. `skips_partial`: an extraction that fails or is killed leaves the cache directory, and
   every later run lists what is there, with exit code 0 (`list-images.go:67`). A run that
   starts while another one extracts does the same, without any failure.
2. `release_listing`: `strings.Join` of one concatenated element; the release is
   extracted into `working-dirhold-releases<name>/<tag>` and read from
   `working-dir/hold-releases/<name>/<tag>` (`list-images.go:185`).
3. `mirror_blobs`: the goroutines of the layers share an unguarded `bufio.Writer`; a line of
   the report is lost (and the model reaches states in which the process panics)
   (`mirror.go:110`).
4. `options_flags`: the per-image flags `--src-tls-verify=true` (`options.go:189`) and
   `--src-authfile` (`options.go:203`), and their `--dest` twins, have no effect. `CopyFollowsFlags`
   therefore speaks of the TLS setting and the authentication file only for a side that has no
   such flag.

Other departures can be read off the definitions that translate the lines, and have no run of
their own:

* `toPath + label` without a separator never exists for a release, so it is untarred by every
  run (`manifest.go:87`; `labelPath`, `StatLabel`);
* `label :=` shadows, and the listing reads `configs` whatever the image's label is
  (`list-images.go:115`; `label`, `configsDir`);
* after a cut between copy and extraction and a push, the image just copied is not the one
  extracted (`list-images.go:97`; `addManifest`, `ReadIndex`; `OneImagePerCache` is what holds
  instead);
* registry and namespace are not part of the cache's name (`list-images.go:61`;
  `imageIndexDir`; `SnapshotCache` therefore speaks of the references of a directory name);
* no flag sets the command timeout, so a registry that does not answer blocks the command for
  ever (`options.go:170`; `Expire`, section 5);
* spaces inside strings are lost: the skipRange in `tests/test-operator-catalog.json:17` is
  printed without its space (`manifest.go:219`; `Decoded`, and `SpaceFree` in the property);
* the flags for credentials (`--src-creds`, `--screds`, `--src-username`, `--src-password`,
  `--src-registry-token`, `--src-no-creds`, and those of the destination) are stored and never
  read (`options.go:96-126`, against 195-208; `dockerImageFlags`, `NewSystemContext`);
* an entry name with `..` is opened where it leads, which may be outside the directory of the
  reference (`manifest.go:187, 192`; `Resolve`; `Provenance` says of such a file whose it is,
  not where);
* with `--loglevel error` nothing is listed, and the run succeeds (`manifest.go:136`; `Info`);
* `InlinedIndex.MarshalJSON` calls itself without end (`type_metadata.go:96`; not modelled);
* a type that is unknown is loaded as one that was not set, and an unknown platform as `ocp`,
  which the next save then writes (`type_image.go:66`, `type_platform.go:53`;
  `imageStringsType`, `platformStringsType`).

`RecoversFromCuts` marks the limits of what a cut leaves behind: a kill inside the two
in-place writes can leave an `index.json` no later run can open, and the extraction is
finding 1, so those steps are not in `Exposed` for that run.

## 8. Not modelled, and why

* `unshare_linux.go`: the re-exec is commented out; what is left prints two lines and
  returns nil.
* In `copy.Image`: manifest lists, conversion, compression, encryption and signing. The
  command sets no option that asks for them, and none changes the order of the steps.
* `v1alpha3/types.go`: beyond the fields that are read, plain data.
* v1alpha2: `InlinedIndex` (`Write` stores its argument, `MarshalJSON` calls itself without a
  condition, and nothing uses either), the getters of one field
  (`IsHeadsOnly`, `IsSet`) and the conversion that is commented out.
* Entry names with `..`, in three respects. The model's tree begins at the current directory, so a
  name that leads above it ends there. An image with an entry that is opened inside an OCI layout or
  as the log file is excluded (`TargetsAssumption`), because those are not in `tree`. And `os.MkdirAll`
  of such a name may have made some of the directories when it fails; `UntarFails` leaves them out.
* A digest without a colon in `index.json` (`list-images.go:97, 109, 173`): the copy always
  writes one with a colon.
* `Collector` and `Mirror` are not run as one module: the product is beyond TLC, and the
  contract is all that `Collector` uses of the copy.
* Signals with cleanup, a full disk that comes and goes, and NFS-like file systems: a
  kill or fault ends the run at a step, and a completed system call has its effect.

## 9. Plan

1. *(done)* `ImageIndex`, `Collector`, `SnapshotCache` and their five theorems.
2. *(done)* `Mirror` with `CopyContract`, and the theorem that it implements it.
3. *(done)* `Catalog`, `Options`, `Metadata`, `OperatorConfig`.
4. *(done)* Proofs of the safety properties of `Options`, `Metadata` and `OperatorConfig`, of
   the types and the report of `Mirror`, of `FreshListingComplete`, of the refinement of
   `SnapshotCache`, and of `ListingSaysCatalogue`.
5. Proof left: the refinement of `SnapshotCache` under a hypothesis weaker than `Apart`, for
   nested caches. It has to say of the images that no entry they are extracted to is on the way
   to a tag.
