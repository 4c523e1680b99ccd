----------------------------- MODULE ImageIndex -----------------------------
(***************************************************************************)
(* The data the list command works on, and the names it derives from it:   *)
(* image references, images and their layers, the directories a reference  *)
(* is cached in, and a file tree with the three operations the code uses   *)
(* on it (MkdirAll, Create, RemoveAll).                                    *)
(*                                                                         *)
(* A path is a sequence of segments, relative to the current directory.    *)
(* An image stands for its manifest digest, and so for its config and      *)
(* layer blobs too: they are addressed by content.                         *)
(***************************************************************************)
EXTENDS Integers, Sequences, FiniteSets

CONSTANTS
  Refs,      \* values of --image-index: records [repo, name, tag, says]
  Images,    \* the images a registry may serve
  Layers,    \* Layers[m] : the layers of image m, in manifest order
  Label,     \* Label[m] : its operators.operatorframework.io.index.configs.v1
  Segment,   \* the names of files and directories
  Within,    \* pairs <<a, b>> of segments such that b contains a as a substring
  Data,      \* complete contents of files in a layer
  DirNode,   \* what the tree holds at a directory
  Torn,      \* a file created but not, or only partly, or not modelled, written
  Unread,    \* what is listed for a catalog.json that cannot be read or parsed
  None       \* no image

Kinds == {"operator", "release"}
Path  == Seq(Segment)
Node  == Data \cup {DirNode, Torn}

\* A tar entry; "other" is a link or a device, which untar only warns about.  The
\* segment ".." may occur in its name.
Entry == [type : {"dir", "reg", "other"}, name : Path, data : Data]

\* readable: a sha256 digest whose blob opens as a gzip stream.
Layer == [readable : BOOLEAN, entries : Seq(Entry)]

\* A label "/x" is [slash |-> TRUE, dir |-> "x"]; the empty label has dir "".
LabelType == [slash : BOOLEAN, dir : STRING]

-----------------------------------------------------------------------------
(* Names derived from a reference *)

\* The last component of the reference with ":" turned into "/": neither the
\* registry nor the namespace is part of it.
imageIndexDir(r) == IF r.tag = "" THEN <<r.name>> ELSE <<r.name, r.tag>>

Slots == [kind : Kinds, key : {imageIndexDir(r) : r \in Refs}]
SlotOf(kind, r) == [kind |-> kind, key |-> imageIndexDir(r)]

workingDir == "working-dir"
logsDir    == <<"logs">>
logsFile   == <<"logs", "util.log">>

imageDir(kind) ==
  IF kind = "operator" THEN "operator-images" ELSE "release-images"
extractDir(kind) ==
  IF kind = "operator" THEN "hold-operators" ELSE "hold-releases"

\* The directories Run makes, in order.
runDirs == << <<workingDir>>, logsDir,
              <<workingDir, imageDir("release")>>,
              <<workingDir, imageDir("operator")>> >>

copyDir(s)  == <<workingDir, imageDir(s.kind)>> \o s.key
cacheDir(s) == <<workingDir, extractDir(s.kind)>> \o s.key

\* The release branch concatenates the three parts with no separator.
joined(name) == (workingDir \o extractDir("release")) \o name
toDir(s) ==
  IF s.kind = "operator" THEN cacheDir(s)
  ELSE <<joined(Head(s.key))>> \o Tail(s.key)

\* The directory listed is the outer label "/configs", whatever the image says.
configsDir(s)    == Append(cacheDir(s), "configs")
artifactsFile(s) == cacheDir(s) \o <<"release-manifests", "image-references">>

\* The label handed to ExtractLayersOCI.
labelOf(s, m) ==
  IF s.kind = "operator" THEN Label[m]
  ELSE [slash |-> FALSE, dir |-> "release-manifests"]

Front(q) == SubSeq(q, 1, Len(q) - 1)

\* toPath + label: a label that does not start with "/" extends the last segment.
labelPath(dir, lab) ==
  IF lab.slash THEN Append(dir, lab.dir)
  ELSE Append(Front(dir), dir[Len(dir)] \o lab.dir)

\* strings.Contains(header.Name, cfgDirName); "" is contained in every name.
Matches(e, lab) ==
  lab.dir = "" \/ \E n \in DOMAIN e.name : <<lab.dir, e.name[n]>> \in Within

\* first argument and --image-index must agree
Validate(kind, r) == kind \in Kinds /\ kind \in r.says

-----------------------------------------------------------------------------
(* The file tree: a function from the paths that exist to what they hold *)

IsTree(t) == DOMAIN t \subseteq Path /\ \A q \in DOMAIN t : t[q] \in Node

Prefixes(q) == {SubSeq(q, 1, n) : n \in 1..Len(q)}
IsDir(t, q) == q \in DOMAIN t /\ t[q] = DirNode

\* Whatever is in the tree is in directories that are in the tree.
Rooted(t) == \A q \in DOMAIN t : \A a \in Prefixes(q) : a # q => IsDir(t, a)

\* Directories are made where there is nothing; a file in the place of one is an error.
CanMake(t, D) == \A a \in D : a \in DOMAIN t => t[a] = DirNode
Make(t, D) == [a \in DOMAIN t \cup D |-> IF a \in DOMAIN t THEN t[a] ELSE DirNode]

CanMkdirAll(t, q) == CanMake(t, Prefixes(q))
MkdirAll(t, q) == Make(t, Prefixes(q))

\* os.Stat(q) is os.ErrNotExist (a file on the way is another error)
NotExist(t, q) == q \notin DOMAIN t /\ CanMkdirAll(t, q)

CanCreate(t, q) == ~IsDir(t, q) /\ (Len(q) = 1 \/ IsDir(t, Front(q)))
Put(t, q, d) == [a \in DOMAIN t \cup {q} |-> IF a = q THEN d ELSE t[a]]

RemoveAll(t, q) == [a \in {b \in DOMAIN t : q \notin Prefixes(b)} |-> t[a]]

ReadDirNames(t, q) ==
  {a[Len(q) + 1] : a \in {b \in DOMAIN t : Len(b) = Len(q) + 1 /\ q \in Prefixes(b)}}

-----------------------------------------------------------------------------
(* Where the kernel goes for path + "/" + name: ".." is the parent of the   *)
(* directory reached so far, and of the outermost directory that directory. *)

Walk(q, name) ==
  LET at[k \in 0..Len(name)] ==
        IF k = 0 THEN q
        ELSE IF name[k] = ".." THEN Front(at[k - 1])
        ELSE Append(at[k - 1], name[k])
  IN at

Resolve(q, name) == Walk(q, name)[Len(name)]

\* The directories on the way, with those they are in: what os.MkdirAll makes.
Trail(q, name) == UNION {Prefixes(Walk(q, name)[k]) : k \in 0..Len(name)}

Local(name) == \A k \in DOMAIN name : name[k] # ".."

-----------------------------------------------------------------------------
(* The catalogue of an operator index image, independently of how untar     *)
(* produces it: for every name below configs, the catalog.json of the last  *)
(* layer (the last entry in it) that has one.  No name has a ".." here.     *)

EntryAt(m, w) == Layers[m][w[1]].entries[w[2]]
Entries(m) == UNION {{Layers[m][l].entries[n] : n \in DOMAIN Layers[m][l].entries} :
                     l \in DOMAIN Layers[m]}
\* No name in any image has a "..".
LocalNames == \A m \in Images : \A e \in Entries(m) : Local(e.name)

Before(v, w) == v[1] < w[1] \/ (v[1] = w[1] /\ v[2] < w[2])

Selected(m) == {e \in Entries(m) : e.type # "other" /\ Matches(e, Label[m])}
FinalData(m, q) ==
  LET writes == UNION {{<<l, n>> : n \in {k \in DOMAIN Layers[m][l].entries :
                                            /\ Layers[m][l].entries[k] \in Selected(m)
                                            /\ Layers[m][l].entries[k].type = "reg"
                                            /\ Layers[m][l].entries[k].name = q}} :
                       l \in DOMAIN Layers[m]}
  IN IF writes = {} THEN Unread
     ELSE EntryAt(m, CHOOSE w \in writes : \A v \in writes : v = w \/ Before(v, w)).data

Catalogue(m) ==
  {[op |-> o, got |-> FinalData(m, <<"configs", o, "catalog.json">>)] :
     o \in {e.name[2] : e \in {x \in Selected(m) : /\ Len(x.name) > 1
                                                   /\ x.name[1] = "configs"}}}

-----------------------------------------------------------------------------
(* What the constants stand for *)

\* The names the code uses, and those of the references, are file names; the joined
\* name of a release is longer than the name of the working directory.
ASSUME SegmentAssumption ==
  /\ {workingDir, "logs", "util.log", "configs", "catalog.json", "release-manifests",
      "image-references"} \subseteq Segment
  /\ \A kind \in Kinds : imageDir(kind) \in Segment /\ extractDir(kind) \in Segment

ASSUME RefsAssumption ==
  \A r \in Refs :
    /\ r.name \in Segment /\ joined(r.name) \in Segment \ {workingDir}
    /\ r.tag # "" => r.tag \in Segment
    /\ r.says \subseteq Kinds

\* An image has layers of tar entries and a label.
ASSUME ImagesAssumption ==
  \A m \in Images :
    /\ Layers[m] \in Seq(Layer)
    /\ Label[m] \in LabelType

\* No entry lands in an OCI layout, which is kept as index and blobs, or on the log.
ASSUME TargetsAssumption ==
  \A m \in Images : \A e \in Entries(m) : \A s \in Slots :
    LET q == Resolve(toDir(s), e.name) IN
    q # logsFile /\ \A u \in Slots : copyDir(u) \notin Prefixes(q)

\* The markers are told apart from contents and from each other.
ASSUME NodesAssumption ==
  /\ {DirNode, Torn, Unread} \cap Data = {}
  /\ DirNode # Torn /\ DirNode # Unread /\ Torn # Unread
  /\ Torn \notin Seq(Images)
  /\ None \notin Images
=============================================================================
