---------------------------- MODULE ListingProofs ----------------------------
(***************************************************************************)
(* What a run that downloads lists: with a single process, an operator run *)
(* that extracted an image itself and exits 0 has listed exactly that      *)
(* image's catalogue, whatever the layers, the labels, the kills and the   *)
(* faults of the runs before it.                                           *)
(***************************************************************************)
EXTENDS OneTerminalProofs

-----------------------------------------------------------------------------
(* The inductive invariant *)

\* The places of the entries of an image, layer by layer.
Positions(m) ==
  UNION {{<<l, n>> : n \in DOMAIN Layers[m][l].entries} : l \in DOMAIN Layers[m]}

\* The entries untar has left behind when it is at entry n of layer l.
Upto(m, l, n) == {w \in Positions(m) : Before(w, <<l, n>>)}

\* Those that are regular files extracted to the path a below c.
WritesTo(c, m, D, a) ==
  {w \in D : /\ EntryAt(m, w) \in Selected(m)
             /\ EntryAt(m, w).type = "reg"
             /\ c \o EntryAt(m, w).name = a}

Below(c, a) == c \in Prefixes(a) /\ a # c

\* Every path below c, but for those of X, is there because of an entry of D.
Explained(t, c, m, D, X) ==
  \A a \in DOMAIN t \ X : Below(c, a) =>
    \E w \in D : EntryAt(m, w) \in Selected(m) /\ a \in Prefixes(c \o EntryAt(m, w).name)

\* Every selected entry of D has its path.
Present(t, c, m, D) ==
  \A w \in D : EntryAt(m, w) \in Selected(m) /\ EntryAt(m, w).name # <<>>
                 => c \o EntryAt(m, w).name \in DOMAIN t

\* Every path below c, but for those of X, is a directory no entry of D writes to,
\* or holds what the last one that does wrote.
Latest(t, c, m, D, X) ==
  \A a \in DOMAIN t \ X : Below(c, a) =>
    \/ t[a] = DirNode /\ WritesTo(c, m, D, a) = {}
    \/ \E w \in WritesTo(c, m, D, a) :
         /\ t[a] = EntryAt(m, w).data
         /\ \A v \in WritesTo(c, m, D, a) : v = w \/ Before(v, w)

Reflects(t, c, m, D, X) ==
  Explained(t, c, m, D, X) /\ Present(t, c, m, D) /\ Latest(t, c, m, D, X)

\* The names below configs in the catalogue of an image.
OpNames(m) ==
  {e.name[2] : e \in {x \in Selected(m) : Len(x.name) > 1 /\ x.name[1] = "configs"}}
CatalogOf(o) == <<"configs", o, "catalog.json">>

\* How far untar has come: in layer, the layers before the cursor; then the entries.
Behind(p) == Upto(img[p], cursor[p].layer, IF pc[p] = "layer" THEN 1 ELSE cursor[p].entry)

\* A file that is created but not filled is empty.
Filling(p) == pc[p] = "fill" => target(p) \in DOMAIN tree /\ tree[target(p)] = Torn

Untarring(p) ==
  job[p].kind = "operator" =>
    /\ pc[p] \in {"layer", "untar", "fill"} => cursor[p].layer \in Nat \ {0}
    /\ pc[p] \in {"untar", "fill"} => cursor[p].entry \in Nat \ {0}
    /\ pc[p] \in {"layer", "untar"} =>
         Reflects(tree, cacheDir(slot(p)), img[p], Behind(p), {})
    /\ pc[p] = "fill" =>
         /\ Reflects(tree, cacheDir(slot(p)), img[p], Behind(p), {target(p)})
         /\ entry(p) \in Selected(img[p])

\* What a run that did not find the cache has when it lists: the whole image, or,
\* if ExtractLayersOCI took another directory for the label, nothing it could list.
Extractions(p) ==
  /\ img[p] \in Images
  /\ Reflects(tree, cacheDir(slot(p)), img[p], Positions(img[p]), {})
Shows(p) ==
  \A x \in shown[p] : x = [op |-> x.op, got |-> FinalData(img[p], CatalogOf(x.op))]

ListsFresh(p) ==
  job[p].kind = "operator" /\ ~hit[p] =>
    /\ pc[p] = "readdir" => configsDir(slot(p)) \notin DOMAIN tree \/ Extractions(p)
    /\ pc[p] = "list" =>
         /\ Extractions(p)
         /\ todo[p] \cup {x.op : x \in shown[p]} = OpNames(img[p])
         /\ Shows(p)
    /\ pc[p] = "ok" => shown[p] = Catalogue(img[p])

\* Before it lists, a run has shown nothing; the release schema is read for releases.
Unlisted(p) ==
  /\ pc[p] \in Steps \ {"list"} => shown[p] = {}
  /\ pc[p] = "schema" => job[p].kind # "operator"

FreshRun(p) == Filling(p) /\ Untarring(p) /\ ListsFresh(p) /\ Unlisted(p)

FreshInv == Rooted(tree) /\ \A p \in Procs : FreshRun(p)
-----------------------------------------------------------------------------
(* Prefixes and trees *)

\* A prefix of a path is the path cut at a length.
LEMMA PrefixFacts ==
  ASSUME NEW q \in Path, NEW a \in Prefixes(q)
  PROVE  /\ a \in Path /\ Len(a) \in 1..Len(q)
         /\ a = SubSeq(q, 1, Len(a))
         /\ \A k \in 1..Len(a) : a[k] = q[k]
<1>1. PICK n \in 1..Len(q) : a = SubSeq(q, 1, n)
  BY DEF Prefixes
<1>2. a \in Path /\ Len(a) = n /\ \A k \in 1..n : a[k] = q[k]
  BY <1>1 DEF Path
<1>3. QED
  BY <1>1, <1>2

\* Paths of one length that agree everywhere are equal.
LEMMA SamePath ==
  ASSUME NEW a \in Path, NEW b \in Path, Len(a) = Len(b), \A k \in 1..Len(a) : a[k] = b[k]
  PROVE  a = b
BY SeqEqual DEF Path

\* A path that agrees with q up to its own length is a prefix of q.
LEMMA PrefixFrom ==
  ASSUME NEW q \in Path, NEW a \in Path, Len(a) \in 1..Len(q), \A k \in 1..Len(a) : a[k] = q[k]
  PROVE  a \in Prefixes(q)
<1>1. SubSeq(q, 1, Len(a)) \in Path /\ Len(SubSeq(q, 1, Len(a))) = Len(a)
      /\ \A k \in 1..Len(a) : SubSeq(q, 1, Len(a))[k] = q[k]
  BY DEF Path
<1>2. a = SubSeq(q, 1, Len(a))
  BY <1>1, SamePath
<1>3. QED
  BY <1>2 DEF Prefixes

LEMMA PrefixOfItself ==
  ASSUME NEW q \in Path, q # <<>>
  PROVE  q \in Prefixes(q)
<1>1. Len(q) \in 1..Len(q)
  BY DEF Path
<1>2. QED
  BY <1>1, PrefixFrom

LEMMA PrefixTransitive ==
  ASSUME NEW q \in Path, NEW b \in Prefixes(q), NEW a \in Prefixes(b)
  PROVE  a \in Prefixes(q)
<1>1. b \in Path /\ Len(b) \in 1..Len(q) /\ \A k \in 1..Len(b) : b[k] = q[k]
  BY PrefixFacts
<1>2. a \in Path /\ Len(a) \in 1..Len(b) /\ \A k \in 1..Len(a) : a[k] = b[k]
  BY <1>1, PrefixFacts
<1>3. Len(a) \in 1..Len(q) /\ \A k \in 1..Len(a) : a[k] = q[k]
  BY <1>1, <1>2 DEF Path
<1>4. QED
  BY <1>2, <1>3, PrefixFrom

\* A proper prefix of a path is a prefix of the directory the path is in.
LEMMA PrefixOfFront ==
  ASSUME NEW q \in Path, NEW a \in Prefixes(q), a # q
  PROVE  Len(q) # 1 /\ Front(q) \in Path /\ a \in Prefixes(Front(q))
<1>1. a \in Path /\ Len(a) \in 1..Len(q) /\ \A k \in 1..Len(a) : a[k] = q[k]
  BY PrefixFacts
<1>2. Len(a) # Len(q)
  BY <1>1, SamePath
<1>3. Len(q) \in Nat /\ Len(q) > 1 /\ Len(a) \in 1..(Len(q) - 1)
  BY <1>1, <1>2 DEF Path
<1>4. Front(q) \in Path /\ Len(Front(q)) = Len(q) - 1
      /\ \A k \in 1..(Len(q) - 1) : Front(q)[k] = q[k]
  BY <1>3 DEF Path, Front
<1>5. \A k \in 1..Len(a) : k \in 1..(Len(q) - 1)
  BY <1>3
<1>6. \A k \in 1..Len(a) : a[k] = Front(q)[k]
  BY <1>1, <1>4, <1>5
<1>7. QED
  BY <1>1, <1>3, <1>4, <1>6, PrefixFrom

\* os.MkdirAll, os.Create, a write and os.RemoveAll leave nothing outside a directory.
LEMMA RootedMkdirAll ==
  ASSUME NEW t, IsTree(t), Rooted(t), NEW q \in Path, CanMkdirAll(t, q)
  PROVE  Rooted(MkdirAll(t, q))
<1> DEFINE u == MkdirAll(t, q)
<1>1. /\ DOMAIN u = DOMAIN t \cup Prefixes(q)
      /\ \A a \in DOMAIN t : u[a] = t[a]
      /\ \A a \in Prefixes(q) : u[a] = DirNode
  BY DEF MkdirAll, Make, CanMkdirAll, CanMake
<1>2. \A b \in DOMAIN t : \A a \in Prefixes(b) : a # b => IsDir(u, a)
  BY <1>1 DEF Rooted, IsDir
<1>3. \A b \in Prefixes(q) : \A a \in Prefixes(b) : IsDir(u, a)
  BY <1>1, PrefixTransitive DEF IsDir
<1>4. QED
  BY <1>1, <1>2, <1>3 DEF Rooted

LEMMA RootedPut ==
  ASSUME NEW t, IsTree(t), Rooted(t), NEW q \in Path, NEW d,
         CanCreate(t, q) \/ (q \in DOMAIN t /\ t[q] # DirNode)
  PROVE  Rooted(Put(t, q, d))
<1> DEFINE u == Put(t, q, d)
<1>1. DOMAIN u = DOMAIN t \cup {q} /\ \A a \in DOMAIN t : a # q => u[a] = t[a]
  BY DEF Put
<1>2. ~IsDir(t, q)
  BY DEF CanCreate, IsDir
<1>3. \A a : IsDir(t, a) => IsDir(u, a)
  BY <1>1, <1>2 DEF IsDir
<1>4. ASSUME q \notin DOMAIN t, NEW a \in Prefixes(q), a # q PROVE IsDir(t, a)
  <2>1. Len(q) # 1 /\ a \in Prefixes(Front(q))
    BY <1>4, PrefixOfFront
  <2>2. IsDir(t, Front(q))
    BY <1>4, <2>1 DEF CanCreate, IsDir
  <2>3. QED
    BY <2>1, <2>2 DEF Rooted, IsDir
<1>5. \A b \in DOMAIN t \cup {q} : \A a \in Prefixes(b) : a # b => IsDir(t, a)
  BY <1>4 DEF Rooted
<1>6. QED
  BY <1>1, <1>3, <1>5 DEF Rooted

LEMMA RootedRemoveAll ==
  ASSUME NEW t, IsTree(t), Rooted(t), NEW q
  PROVE  Rooted(RemoveAll(t, q))
<1> DEFINE u == RemoveAll(t, q)
<1>1. /\ DOMAIN u = {b \in DOMAIN t : q \notin Prefixes(b)}
      /\ \A a \in DOMAIN u : u[a] = t[a]
  BY DEF RemoveAll
<1>2. ASSUME NEW b \in DOMAIN u, NEW a \in Prefixes(b), a # b PROVE IsDir(u, a)
  <2>1. b \in DOMAIN t /\ b \in Path /\ q \notin Prefixes(b)
    BY <1>1 DEF IsTree
  <2>2. a \in DOMAIN t /\ t[a] = DirNode
    BY <1>2, <2>1 DEF Rooted, IsDir
  <2>3. q \notin Prefixes(a)
    BY <2>1, PrefixTransitive
  <2>4. QED
    BY <1>1, <2>2, <2>3 DEF IsDir
<1>3. QED
  BY <1>2 DEF Rooted
-----------------------------------------------------------------------------
(* Positions: the order in which untar meets the entries *)

LEMMA LayersAreTyped ==
  ASSUME NEW m \in Images
  PROVE  /\ Layers[m] \in Seq(Layer)
         /\ \A l \in DOMAIN Layers[m] : l \in Nat /\ Layers[m][l].entries \in Seq(Entry)
<1>1. Layers[m] \in Seq(Layer)
  BY ImagesAssumption
<1>2. \A x \in Layer : x.entries \in Seq(Entry)
  BY DEF Layer
<1>3. \A l \in DOMAIN Layers[m] : l \in Nat /\ Layers[m][l] \in Layer
  BY <1>1
<1>4. QED
  BY <1>1, <1>2, <1>3

LEMMA PositionFacts ==
  ASSUME NEW m \in Images
  PROVE  \A w : w \in Positions(m) <=>
           /\ w = <<w[1], w[2]>>
           /\ w[1] \in Nat /\ w[1] \in DOMAIN Layers[m]
           /\ w[2] \in Nat /\ w[2] \in DOMAIN Layers[m][w[1]].entries
<1>1. \A l \in DOMAIN Layers[m] : l \in Nat /\ Layers[m][l].entries \in Seq(Entry)
  BY LayersAreTyped
<1>2. \A l \in DOMAIN Layers[m] : \A n \in DOMAIN Layers[m][l].entries : n \in Nat
  BY <1>1
<1>3. QED
  BY <1>1, <1>2 DEF Positions

\* The first entry of a layer is its entry 1, and the ones up to Len are all there are.
LEMMA PositionRanges ==
  ASSUME NEW m \in Images, NEW w \in Positions(m)
  PROVE  w[1] \in 1..Len(Layers[m]) /\ w[2] \in 1..Len(Layers[m][w[1]].entries)
<1>1. Layers[m] \in Seq(Layer)
  BY ImagesAssumption
<1>2. w[1] \in DOMAIN Layers[m] /\ w[2] \in DOMAIN Layers[m][w[1]].entries
  BY PositionFacts
<1>3. Layers[m][w[1]].entries \in Seq(Entry)
  BY <1>2, LayersAreTyped
<1>4. QED
  BY <1>1, <1>2, <1>3

LEMMA UptoStart ==
  ASSUME NEW m \in Images
  PROVE  Upto(m, 1, 1) = {}
<1>1. \A w \in Positions(m) : w[1] \in Nat /\ w[2] \in Nat /\ w[1] >= 1 /\ w[2] >= 1
  BY PositionRanges, ImagesAssumption, PositionFacts
<1>2. \A w \in Positions(m) : ~Before(w, <<1, 1>>)
  BY <1>1 DEF Before
<1>3. QED
  BY <1>2 DEF Upto

LEMMA UptoEntry ==
  ASSUME NEW m \in Images, NEW l \in DOMAIN Layers[m], NEW n \in DOMAIN Layers[m][l].entries
  PROVE  /\ <<l, n>> \in Positions(m)
         /\ Upto(m, l, n + 1) = Upto(m, l, n) \cup {<<l, n>>}
         /\ \A v \in Upto(m, l, n) : Before(v, <<l, n>>)
<1>1. <<l, n>> \in Positions(m)
  BY DEF Positions
<1>2. l \in Nat /\ n \in Nat
  BY <1>1, PositionFacts
<1>3. \A v \in Positions(m) : v[1] \in Nat /\ v[2] \in Nat /\ v = <<v[1], v[2]>>
  BY PositionFacts
<1>4. \A v \in Positions(m) : Before(v, <<l, n + 1>>) <=> Before(v, <<l, n>>) \/ v = <<l, n>>
  BY <1>2, <1>3 DEF Before
<1>5. Upto(m, l, n + 1) = Upto(m, l, n) \cup {<<l, n>>}
  BY <1>1, <1>4 DEF Upto
<1>6. QED
  BY <1>1, <1>5 DEF Upto

LEMMA UptoLayer ==
  ASSUME NEW m \in Images, NEW l \in DOMAIN Layers[m], NEW n \in Nat \ {0},
         n \notin DOMAIN Layers[m][l].entries
  PROVE  Upto(m, l + 1, 1) = Upto(m, l, n)
<1>1. Layers[m] \in Seq(Layer)
  BY ImagesAssumption
<1>2. Layers[m][l].entries \in Seq(Entry) /\ l \in Nat
  BY LayersAreTyped
<1>3. n > Len(Layers[m][l].entries) /\ Len(Layers[m][l].entries) \in Nat
  BY <1>2
<1>4. \A v \in Positions(m) : /\ v[1] \in Nat /\ v[2] \in Nat /\ v[2] >= 1
                              /\ v[1] = l => v[2] <= Len(Layers[m][l].entries)
  BY PositionFacts, PositionRanges
<1>5. \A v \in Positions(m) : Before(v, <<l + 1, 1>>) <=> Before(v, <<l, n>>)
  BY <1>2, <1>3, <1>4 DEF Before
<1>6. QED
  BY <1>5 DEF Upto

LEMMA UptoEnd ==
  ASSUME NEW m \in Images, NEW l \in Nat \ {0}, l \notin DOMAIN Layers[m]
  PROVE  Upto(m, l, 1) = Positions(m)
<1>1. Layers[m] \in Seq(Layer)
  BY ImagesAssumption
<1>2. l > Len(Layers[m]) /\ Len(Layers[m]) \in Nat
  BY <1>1
<1>3. \A v \in Positions(m) : v[1] \in Nat /\ v[1] <= Len(Layers[m])
  BY PositionFacts, PositionRanges
<1>4. \A v \in Positions(m) : Before(v, <<l, 1>>)
  BY <1>2, <1>3 DEF Before
<1>5. QED
  BY <1>4 DEF Upto

\* An entry at a position is an entry of the image, and every one is at some position.
LEMMA EntriesAt ==
  ASSUME NEW m \in Images
  PROVE  /\ \A w \in Positions(m) : EntryAt(m, w) \in Entry /\ EntryAt(m, w) \in Entries(m)
         /\ \A e \in Entries(m) : \E w \in Positions(m) : EntryAt(m, w) = e
<1>1. ASSUME NEW w \in Positions(m)
      PROVE  EntryAt(m, w) \in Entry /\ EntryAt(m, w) \in Entries(m)
  BY PositionFacts, EntriesAreTyped DEF EntryAt
<1>2. ASSUME NEW e \in Entries(m) PROVE \E w \in Positions(m) : EntryAt(m, w) = e
  <2>1. PICK l \in DOMAIN Layers[m] : e \in {Layers[m][l].entries[n] : n \in DOMAIN Layers[m][l].entries}
    BY DEF Entries
  <2>2. PICK n \in DOMAIN Layers[m][l].entries : e = Layers[m][l].entries[n]
    BY <2>1
  <2>3. <<l, n>> \in Positions(m)
    BY UptoEntry
  <2>4. EntryAt(m, <<l, n>>) = e
    BY <2>2 DEF EntryAt
  <2>5. QED
    BY <2>3, <2>4
<1>3. QED
  BY <1>1, <1>2
-----------------------------------------------------------------------------
(* What one entry does to the tree below the cache directory *)

\* Before the first entry there is nothing.
LEMMA ReflectsNothing ==
  ASSUME NEW t, NEW c, NEW m, \A a \in DOMAIN t : ~Below(c, a)
  PROVE  Reflects(t, c, m, {}, {})
BY DEF Reflects, Explained, Present, Latest

\* What the files hold depends on the entries that write them only.
LEMMA SameWrites ==
  ASSUME NEW t, NEW c, NEW m, NEW D, NEW E, Latest(t, c, m, D, {}),
         \A a : WritesTo(c, m, E, a) = WritesTo(c, m, D, a)
  PROVE  Latest(t, c, m, E, {})
BY DEF Latest

\* An entry that is not selected changes nothing.
LEMMA ReflectsSkip ==
  ASSUME NEW t, NEW c, NEW m, NEW D, NEW w, Reflects(t, c, m, D, {}),
         EntryAt(m, w) \notin Selected(m)
  PROVE  Reflects(t, c, m, D \cup {w}, {})
<1>1. \A a : WritesTo(c, m, D \cup {w}, a) = WritesTo(c, m, D, a)
  BY DEF WritesTo
<1>2. Explained(t, c, m, D \cup {w}, {})
  BY DEF Reflects, Explained
<1>3. Present(t, c, m, D \cup {w})
  BY DEF Reflects, Present
<1>4. Latest(t, c, m, D \cup {w}, {})
  BY <1>1 DEF Reflects, Latest
<1>5. QED
  BY <1>2, <1>3, <1>4 DEF Reflects

\* A directory is made with all that leads to it, and no file is in its way.
LEMMA ReflectsDir ==
  ASSUME NEW t, NEW c \in Path, NEW m \in Images, NEW D \in SUBSET Positions(m),
         NEW w \in Positions(m), Reflects(t, c, m, D, {}),
         EntryAt(m, w) \in Selected(m), EntryAt(m, w).type = "dir",
         EntryAt(m, w).name # <<>>
  PROVE  Reflects(MkdirAll(t, c \o EntryAt(m, w).name), c, m, D \cup {w}, {})
<1> DEFINE q == c \o EntryAt(m, w).name
           u == MkdirAll(t, q)
           E == D \cup {w}
<1>1. /\ DOMAIN u = DOMAIN t \cup Prefixes(q)
      /\ \A a \in DOMAIN t : u[a] = t[a]
      /\ \A a \in DOMAIN u \ DOMAIN t : u[a] = DirNode
  BY DEF MkdirAll, Make
<1>2. q \in Path /\ q # <<>> /\ q \in Prefixes(q)
  <2>1. EntryAt(m, w).name \in Path
    BY EntriesAt DEF Entry
  <2>2. q \in Path /\ q # <<>>
    BY <2>1 DEF Path
  <2>3. QED
    BY <2>2, PrefixOfItself
<1>3. \A a : WritesTo(c, m, E, a) = WritesTo(c, m, D, a)
  BY DEF WritesTo
<1>4. Explained(u, c, m, E, {})
  BY <1>1 DEF Reflects, Explained
<1>5. Present(u, c, m, E)
  BY <1>1, <1>2 DEF Reflects, Present
<1>6. ASSUME NEW a \in DOMAIN u \ DOMAIN t, Below(c, a) PROVE WritesTo(c, m, D, a) = {}
  <2>1. ASSUME NEW v \in WritesTo(c, m, D, a) PROVE FALSE
    <3>1. v \in D /\ EntryAt(m, v) \in Selected(m) /\ c \o EntryAt(m, v).name = a
      BY <2>1 DEF WritesTo
    <3>2. c \o <<>> = c
      BY DEF Path
    <3>3. EntryAt(m, v).name # <<>>
      BY <1>6, <3>1, <3>2 DEF Below
    <3>4. a \in DOMAIN t
      BY <3>1, <3>3 DEF Reflects, Present
    <3>5. QED
      BY <3>4
  <2>2. QED
    BY <2>1
<1>7. Latest(u, c, m, E, {})
  BY <1>1, <1>3, <1>6 DEF Reflects, Latest
<1>8. QED
  BY <1>4, <1>5, <1>7 DEF Reflects

\* "./" is not made.
LEMMA ReflectsDot ==
  ASSUME NEW t, NEW c, NEW m, NEW D, NEW w, Reflects(t, c, m, D, {}),
         EntryAt(m, w).type = "dir", EntryAt(m, w).name = <<>>
  PROVE  Reflects(t, c, m, D \cup {w}, {})
<1>1. \A a : WritesTo(c, m, D \cup {w}, a) = WritesTo(c, m, D, a)
  BY DEF WritesTo
<1>2. Explained(t, c, m, D \cup {w}, {})
  BY DEF Reflects, Explained
<1>3. Present(t, c, m, D \cup {w})
  <2>1. \A v \in D \cup {w} : EntryAt(m, v).name # <<>> => v \in D
    BY Zenon
  <2>2. QED
    BY <2>1 DEF Reflects, Present
<1>4. Latest(t, c, m, D \cup {w}, {})
  BY <1>1, SameWrites DEF Reflects
<1>5. QED
  BY <1>2, <1>3, <1>4 DEF Reflects

\* While a file is created and not filled, everything else is as it was.
LEMMA ReflectsCreate ==
  ASSUME NEW t, NEW c, NEW m, NEW D, NEW q, NEW d, Reflects(t, c, m, D, {})
  PROVE  Reflects(Put(t, q, d), c, m, D, {q})
<1> DEFINE u == Put(t, q, d)
<1>1. DOMAIN u = DOMAIN t \cup {q} /\ \A a \in DOMAIN u \ {q} : a \in DOMAIN t /\ u[a] = t[a]
  BY DEF Put
<1>2. Explained(u, c, m, D, {q})
  BY <1>1 DEF Reflects, Explained
<1>3. Present(u, c, m, D)
  BY <1>1 DEF Reflects, Present
<1>4. Latest(u, c, m, D, {q})
  BY <1>1 DEF Reflects, Latest
<1>5. QED
  BY <1>2, <1>3, <1>4 DEF Reflects

\* Filled, it holds what the last entry of its name has.
LEMMA ReflectsFill ==
  ASSUME NEW t, NEW c \in Path, NEW m \in Images, NEW D \in SUBSET Positions(m),
         NEW w \in Positions(m), \A v \in D : Before(v, w),
         EntryAt(m, w) \in Selected(m), EntryAt(m, w).type = "reg",
         Reflects(t, c, m, D, {c \o EntryAt(m, w).name})
  PROVE  Reflects(Put(t, c \o EntryAt(m, w).name, EntryAt(m, w).data), c, m, D \cup {w}, {})
<1> DEFINE q == c \o EntryAt(m, w).name
           u == Put(t, q, EntryAt(m, w).data)
           E == D \cup {w}
<1>1. /\ DOMAIN u = DOMAIN t \cup {q} /\ u[q] = EntryAt(m, w).data
      /\ \A a \in DOMAIN u \ {q} : a \in DOMAIN t \ {q} /\ u[a] = t[a]
  BY DEF Put
<1>2. q \in Path
  BY EntriesAt, ConcatPath DEF Entry
<1>3. Below(c, q) => q \in Prefixes(q)
  <2>1. Prefixes(<<>>) = {}
    BY DEF Prefixes
  <2>2. QED
    BY <1>2, <2>1, PrefixOfItself DEF Below
<1>4. \A a : a # q => WritesTo(c, m, E, a) = WritesTo(c, m, D, a)
  BY DEF WritesTo
<1>5. /\ w \in WritesTo(c, m, E, q)
      /\ \A v \in WritesTo(c, m, E, q) : v = w \/ Before(v, w)
  BY DEF WritesTo
<1> HIDE DEF q, u, E
<1>6. Explained(u, c, m, E, {})
  <2>1. \A a \in DOMAIN u \ {q} : Below(c, a) =>
          \E v \in D : EntryAt(m, v) \in Selected(m) /\ a \in Prefixes(c \o EntryAt(m, v).name)
    BY <1>1 DEF Reflects, Explained, q
  <2>2. \A a \in DOMAIN u \ {q} : Below(c, a) =>
          \E v \in E : EntryAt(m, v) \in Selected(m) /\ a \in Prefixes(c \o EntryAt(m, v).name)
    BY <2>1 DEF E
  <2>3. Below(c, q) =>
          \E v \in E : EntryAt(m, v) \in Selected(m) /\ q \in Prefixes(c \o EntryAt(m, v).name)
    BY <1>3 DEF E, q
  <2>4. QED
    BY <2>2, <2>3 DEF Explained
<1>7. Present(u, c, m, E)
  <2>1. \A v \in D : EntryAt(m, v) \in Selected(m) /\ EntryAt(m, v).name # <<>>
                       => c \o EntryAt(m, v).name \in DOMAIN u
    BY <1>1 DEF Reflects, Present
  <2>2. c \o EntryAt(m, w).name \in DOMAIN u
    BY <1>1 DEF q
  <2>3. QED
    BY <2>1, <2>2 DEF Present, E
<1>8. Latest(u, c, m, E, {})
  <2>1. \A a \in DOMAIN u \ {q} : Below(c, a) =>
          \/ u[a] = DirNode /\ WritesTo(c, m, D, a) = {}
          \/ \E x \in WritesTo(c, m, D, a) :
               u[a] = EntryAt(m, x).data /\ \A v \in WritesTo(c, m, D, a) : v = x \/ Before(v, x)
    BY <1>1 DEF Reflects, Latest, q
  <2>2. \A a \in DOMAIN u \ {q} : Below(c, a) =>
          \/ u[a] = DirNode /\ WritesTo(c, m, E, a) = {}
          \/ \E x \in WritesTo(c, m, E, a) :
               u[a] = EntryAt(m, x).data /\ \A v \in WritesTo(c, m, E, a) : v = x \/ Before(v, x)
    BY <1>4, <2>1
  <2>3. \E x \in WritesTo(c, m, E, q) :
          u[q] = EntryAt(m, x).data /\ \A v \in WritesTo(c, m, E, q) : v = x \/ Before(v, x)
    BY <1>1, <1>5
  <2>4. QED
    BY <2>2, <2>3 DEF Latest
<1>9. QED
  BY <1>6, <1>7, <1>8 DEF Reflects, u, q, E
-----------------------------------------------------------------------------
(* What the listing finds there *)

LEMMA ConcatFacts ==
  ASSUME NEW a \in Path, NEW b \in Path
  PROVE  /\ a \o b \in Path /\ Len(a \o b) = Len(a) + Len(b)
         /\ Len(a) \in Nat /\ Len(b) \in Nat
         /\ \A k \in 1..Len(a) : (a \o b)[k] = a[k]
         /\ \A k \in 1..Len(b) : (a \o b)[Len(a) + k] = b[k]
BY DEF Path

LEMMA ConcatCancels ==
  ASSUME NEW c \in Path, NEW a \in Path, NEW b \in Path, c \o a = c \o b
  PROVE  a = b
<1> DEFINE q == c \o a
<1>1. /\ Len(q) = Len(c) + Len(a) /\ Len(c) \in Nat /\ Len(a) \in Nat
      /\ \A k \in 1..Len(a) : q[Len(c) + k] = a[k]
  BY ConcatFacts
<1>2. /\ Len(q) = Len(c) + Len(b) /\ Len(b) \in Nat
      /\ \A k \in 1..Len(b) : q[Len(c) + k] = b[k]
  BY ConcatFacts
<1> HIDE DEF q
<1>3. Len(a) = Len(b)
  BY <1>1, <1>2
<1>4. \A k \in 1..Len(a) : a[k] = b[k]
  BY <1>1, <1>2, <1>3
<1>5. QED
  BY <1>3, <1>4, SamePath

\* The directory of a concatenation is a prefix of it.
LEMMA ConcatBelow ==
  ASSUME NEW c \in Path, c # <<>>, NEW b \in Path, b # <<>>
  PROVE  Below(c, c \o b)
<1>1. /\ c \o b \in Path /\ Len(c \o b) = Len(c) + Len(b) /\ Len(c) \in Nat /\ Len(b) \in Nat
      /\ \A k \in 1..Len(c) : (c \o b)[k] = c[k]
  BY ConcatFacts
<1>2. Len(c) > 0 /\ Len(b) > 0
  BY DEF Path
<1>3. Len(c) \in 1..Len(c \o b) /\ Len(c) # Len(c \o b)
  BY <1>1, <1>2
<1>4. c \in Prefixes(c \o b)
  BY <1>1, <1>3, PrefixFrom
<1>5. QED
  BY <1>3, <1>4 DEF Below

\* FinalData by positions.
LEMMA FinalDataIs ==
  ASSUME NEW m \in Images, NEW c \in Path, NEW q \in Path
  PROVE  LET W == WritesTo(c, m, Positions(m), c \o q) IN
         /\ W = {} => FinalData(m, q) = Unread
         /\ \A w \in W : (\A v \in W : v = w \/ Before(v, w)) => FinalData(m, q) = EntryAt(m, w).data
<1> DEFINE W == WritesTo(c, m, Positions(m), c \o q)
           writes == UNION {{<<l, n>> : n \in {k \in DOMAIN Layers[m][l].entries :
                                            /\ Layers[m][l].entries[k] \in Selected(m)
                                            /\ Layers[m][l].entries[k].type = "reg"
                                            /\ Layers[m][l].entries[k].name = q}} :
                       l \in DOMAIN Layers[m]}
           Last(w) == \A v \in writes : v = w \/ Before(v, w)
<1>1. \A w \in Positions(m) : EntryAt(m, w).name = q <=> c \o EntryAt(m, w).name = c \o q
  BY EntriesAt, ConcatCancels DEF Entry
<1>2. ASSUME NEW w \in writes PROVE w \in W
  <2>1. PICK l \in DOMAIN Layers[m] : w \in {<<l, n>> : n \in {k \in DOMAIN Layers[m][l].entries :
                                            /\ Layers[m][l].entries[k] \in Selected(m)
                                            /\ Layers[m][l].entries[k].type = "reg"
                                            /\ Layers[m][l].entries[k].name = q}}
    BY <1>2
  <2>2. PICK n \in DOMAIN Layers[m][l].entries :
          /\ w = <<l, n>>
          /\ Layers[m][l].entries[n] \in Selected(m)
          /\ Layers[m][l].entries[n].type = "reg"
          /\ Layers[m][l].entries[n].name = q
    BY <2>1
  <2>3. w \in Positions(m) /\ EntryAt(m, w) = Layers[m][l].entries[n]
    BY <2>2, UptoEntry DEF EntryAt
  <2>4. QED
    BY <2>2, <2>3 DEF WritesTo
<1>3. ASSUME NEW w \in W PROVE w \in writes
  <2>1. /\ w \in Positions(m) /\ EntryAt(m, w) \in Selected(m) /\ EntryAt(m, w).type = "reg"
        /\ EntryAt(m, w).name = q
    BY <1>1, <1>3 DEF WritesTo
  <2>2. /\ w = <<w[1], w[2]>> /\ w[1] \in DOMAIN Layers[m]
        /\ w[2] \in DOMAIN Layers[m][w[1]].entries
    BY <2>1, PositionFacts
  <2>3. QED
    BY <2>1, <2>2 DEF EntryAt
<1>4. writes = W
  BY <1>2, <1>3
<1>5. FinalData(m, q) = IF writes = {} THEN Unread
                        ELSE EntryAt(m, CHOOSE w \in writes : Last(w)).data
  BY DEF FinalData
<1> HIDE DEF writes, W
<1>6. W = {} => FinalData(m, q) = Unread
  BY <1>4, <1>5
<1>7. ASSUME NEW w \in W, \A v \in W : v = w \/ Before(v, w)
      PROVE  FinalData(m, q) = EntryAt(m, w).data
  <2> DEFINE x == CHOOSE y \in writes : Last(y)
  <2>1. w \in writes /\ Last(w)
    BY <1>4, <1>7
  <2>2. x \in writes /\ Last(x)
    BY <2>1
  <2> HIDE DEF x
  <2>3. x \in Positions(m) /\ w \in Positions(m)
    BY <1>4, <2>1, <2>2 DEF WritesTo, W
  <2>4. (x = w \/ Before(x, w)) /\ (w = x \/ Before(w, x))
    BY <2>1, <2>2
  <2>5. x[1] \in Nat /\ x[2] \in Nat /\ w[1] \in Nat /\ w[2] \in Nat
    BY <2>3, PositionFacts
  <2>6. x = w
    BY <2>4, <2>5 DEF Before
  <2>7. QED
    BY <1>5, <2>1, <2>6 DEF x
<1>8. QED
  BY <1>6, <1>7 DEF W
\* The names os.ReadDir gives are those of the catalogue.
LEMMA NamesAreOpNames ==
  ASSUME NEW t, IsTree(t), Rooted(t), NEW c \in Path, c # <<>>, NEW m \in Images,
         Reflects(t, c, m, Positions(m), {})
  PROVE  ReadDirNames(t, Append(c, "configs")) = OpNames(m)
<1> DEFINE cd == Append(c, "configs")
<1>1. /\ "configs" \in Segment /\ Len(c) \in Nat /\ Len(c) > 0
      /\ cd \in Path /\ Len(cd) = Len(c) + 1 /\ cd[Len(c) + 1] = "configs"
      /\ \A k \in 1..Len(c) : cd[k] = c[k]
  BY SegmentAssumption DEF Path
<1>2. \A e \in Selected(m) : e.name \in Path
  BY EntriesAt DEF Selected, Entry
<1> HIDE DEF cd
<1>3. ASSUME NEW o \in ReadDirNames(t, cd) PROVE o \in OpNames(m)
  <2>1. PICK a \in DOMAIN t : Len(a) = Len(cd) + 1 /\ cd \in Prefixes(a) /\ o = a[Len(cd) + 1]
    BY <1>3 DEF ReadDirNames
  <2>2. a \in Path /\ Len(a) = Len(c) + 2 /\ \A k \in 1..(Len(c) + 1) : cd[k] = a[k]
    BY <1>1, <2>1, PrefixFacts DEF IsTree
  <2>3. Below(c, a)
    <3>1. Len(c) \in 1..Len(a) /\ \A k \in 1..Len(c) : c[k] = a[k]
      BY <1>1, <2>2
    <3>2. c # a
      BY <1>1, <2>2
    <3>3. QED
      BY <2>2, <3>1, <3>2, PrefixFrom DEF Below
  <2>4. PICK w \in Positions(m) :
          EntryAt(m, w) \in Selected(m) /\ a \in Prefixes(c \o EntryAt(m, w).name)
    BY <2>3 DEF Reflects, Explained
  <2> DEFINE f == EntryAt(m, w).name
  <2>5. f \in Path
    BY <1>2, <2>4
  <2>6. c \o f \in Path /\ Len(c \o f) = Len(c) + Len(f) /\ Len(f) \in Nat
        /\ \A k \in 1..Len(f) : (c \o f)[Len(c) + k] = f[k]
    BY <2>5, ConcatFacts
  <2>7. Len(a) \in 1..Len(c \o f) /\ \A k \in 1..Len(a) : a[k] = (c \o f)[k]
    BY <2>4, <2>6, PrefixFacts
  <2> HIDE DEF f
  <2>8. Len(f) > 1
    BY <1>1, <2>2, <2>6, <2>7
  <2>9. f[1] = a[Len(c) + 1] /\ f[2] = a[Len(c) + 2]
    BY <1>1, <2>2, <2>6, <2>7, <2>8
  <2>10. f[1] = "configs" /\ f[2] = o
    BY <1>1, <2>1, <2>2, <2>9
  <2>11. QED
    BY <2>4, <2>8, <2>10 DEF OpNames, f
<1>4. ASSUME NEW o \in OpNames(m) PROVE o \in ReadDirNames(t, cd)
  <2>1. PICK e \in Selected(m) : Len(e.name) > 1 /\ e.name[1] = "configs" /\ o = e.name[2]
    BY <1>4 DEF OpNames
  <2>2. PICK w \in Positions(m) : EntryAt(m, w) = e
    BY EntriesAt DEF Selected
  <2> DEFINE f == e.name
             q == c \o f
             a == SubSeq(q, 1, Len(c) + 2)
  <2>3. f \in Path
    BY <1>2
  <2>4. /\ q \in Path /\ Len(q) = Len(c) + Len(f) /\ Len(f) \in Nat
        /\ \A k \in 1..Len(c) : q[k] = c[k]
        /\ \A k \in 1..Len(f) : q[Len(c) + k] = f[k]
    BY <2>3, ConcatFacts
  <2>5. f # <<>>
    BY <2>1
  <2>6. q \in DOMAIN t
    BY <2>2, <2>5 DEF Reflects, Present
  <2> HIDE DEF f, q
  <2>7. Len(c) + 2 \in 1..Len(q)
    BY <1>1, <2>1, <2>4 DEF f
  <2>8. /\ a \in Path /\ Len(a) = Len(c) + 2
        /\ \A k \in 1..(Len(c) + 2) : a[k] = q[k]
    BY <1>1, <2>4, <2>7 DEF Path
  <2>9. a \in Prefixes(q)
    BY <2>7 DEF Prefixes
  <2>10. a \in DOMAIN t
    BY <2>6, <2>9 DEF Rooted, IsDir
  <2> HIDE DEF a
  <2>11. f[1] = "configs" /\ f[2] = o /\ Len(f) > 1
    BY <2>1 DEF f
  <2>12. a[Len(c) + 1] = "configs" /\ a[Len(c) + 2] = o
    <3>1. 1 \in 1..Len(f) /\ 2 \in 1..Len(f)
      BY <2>4, <2>11
    <3>2. q[Len(c) + 1] = f[1] /\ q[Len(c) + 2] = f[2]
      BY <2>4, <3>1
    <3>3. a[Len(c) + 1] = q[Len(c) + 1] /\ a[Len(c) + 2] = q[Len(c) + 2]
      BY <1>1, <2>8
    <3>4. QED
      BY <2>11, <3>2, <3>3
  <2>13. \A k \in 1..Len(cd) : cd[k] = a[k]
    <3>1. \A k \in 1..Len(c) : cd[k] = a[k]
      BY <1>1, <2>4, <2>8
    <3>2. QED
      BY <1>1, <2>12, <3>1
  <2>14. cd \in Prefixes(a)
    <3>1. Len(cd) \in 1..Len(a)
      BY <1>1, <2>8
    <3>2. QED
      BY <1>1, <2>8, <2>13, <3>1, PrefixFrom
  <2>15. Len(a) = Len(cd) + 1 /\ o = a[Len(cd) + 1]
    BY <1>1, <2>8, <2>12
  <2>16. QED
    BY <2>10, <2>14, <2>15 DEF ReadDirNames
<1>5. QED
  BY <1>3, <1>4 DEF cd

\* What ListCatalogs is given for an operator is what the image has for it.
LEMMA ListedIsFinal ==
  ASSUME IsTree(tree), NEW c \in Path, c # <<>>, NEW m \in Images,
         Reflects(tree, c, m, Positions(m), {}), NEW o \in Segment,
         NEW d \in Listed(Append(c, "configs") \o <<o, "catalog.json">>)
  PROVE  d = FinalData(m, CatalogOf(o))
<1> DEFINE f == CatalogOf(o)
           q == c \o f
           W == WritesTo(c, m, Positions(m), q)
<1>1. f \in Path /\ f # <<>>
  BY SegmentAssumption DEF CatalogOf, Path
<1>2. q = Append(c, "configs") \o <<o, "catalog.json">>
  BY SegmentAssumption DEF CatalogOf, Path
<1>3. Below(c, q)
  BY <1>1, ConcatBelow
<1>4. /\ W = {} => FinalData(m, f) = Unread
      /\ \A w \in W : (\A v \in W : v = w \/ Before(v, w)) => FinalData(m, f) = EntryAt(m, w).data
  BY <1>1, FinalDataIs
<1>5. d \in Listed(q)
  BY <1>2
<1> HIDE DEF f, q
<1>6. CASE q \notin DOMAIN tree
  <2>1. d = Unread
    BY <1>5, <1>6 DEF Listed
  <2>2. ASSUME NEW w \in W PROVE FALSE
    <3>1. w \in Positions(m) /\ EntryAt(m, w) \in Selected(m) /\ c \o EntryAt(m, w).name = q
      BY <2>2 DEF WritesTo
    <3>2. c \o <<>> = c
      BY DEF Path
    <3>3. EntryAt(m, w).name # <<>>
      BY <1>3, <3>1, <3>2 DEF Below
    <3>4. QED
      BY <1>6, <3>1, <3>3 DEF Reflects, Present
  <2>3. QED
    BY <1>4, <2>1, <2>2 DEF f
<1>7. CASE q \in DOMAIN tree
  <2>1. CASE tree[q] = DirNode /\ W = {}
    BY <1>4, <1>5, <1>7, <2>1 DEF Listed, IsDir, f
  <2>2. CASE \E w \in W : tree[q] = EntryAt(m, w).data /\ \A v \in W : v = w \/ Before(v, w)
    <3>1. PICK w \in W : tree[q] = EntryAt(m, w).data /\ \A v \in W : v = w \/ Before(v, w)
      BY <2>2
    <3>2. EntryAt(m, w).data \in Data
      BY <3>1, EntriesAt DEF WritesTo, Entry
    <3>3. tree[q] # DirNode /\ tree[q] # Torn
      BY <3>1, <3>2, NodesAssumption
    <3>4. d = EntryAt(m, w).data
      BY <1>5, <1>7, <3>1, <3>3 DEF Listed, IsDir
    <3>5. QED
      BY <1>4, <3>1, <3>4 DEF f
  <2>3. QED
    BY <1>3, <1>7, <2>1, <2>2 DEF Reflects, Latest
<1>8. QED
  BY <1>6, <1>7
-----------------------------------------------------------------------------
(* Every step keeps the invariant *)

\* Where an operator run extracts, what it selects, and where it lists.
LEMMA OperatorNames ==
  ASSUME TypeOK, NEW p \in Procs, job[p].kind = "operator"
  PROVE  /\ toDir(slot(p)) = cacheDir(slot(p)) /\ label(p) = Label[img[p]]
         /\ cacheDir(slot(p)) \in Path /\ cacheDir(slot(p)) # <<>>
         /\ configsDir(slot(p)) = Append(cacheDir(slot(p)), "configs")
<1>1. slot(p) \in Slots /\ slot(p).kind = "operator"
  BY SlotIsSlot DEF slot, SlotOf
<1>2. cacheDir(slot(p)) \in Path
  BY <1>1, DirsArePaths
<1>3. cacheDir(slot(p)) # <<>>
  <2>1. slot(p).key \in Path
    <3>1. PICK r \in Refs : slot(p).key = imageIndexDir(r)
      BY <1>1 DEF Slots
    <3>2. r.name \in Segment /\ (r.tag # "" => r.tag \in Segment)
      BY RefsAssumption
    <3>3. QED
      BY <3>1, <3>2, ShortPath DEF imageIndexDir
  <2>2. cacheDir(slot(p)) = <<workingDir, "hold-operators">> \o slot(p).key
    BY <1>1 DEF cacheDir, extractDir
  <2>3. Len(cacheDir(slot(p))) = 2 + Len(slot(p).key) /\ Len(slot(p).key) \in Nat
    BY <2>1, <2>2 DEF Path
  <2>4. Len(cacheDir(slot(p))) # 0
    BY <2>3
  <2>5. QED
    BY <2>4
<1>4. QED
  BY <1>1, <1>2, <1>3 DEF toDir, label, labelOf, configsDir

\* The entry untar is at.
LEMMA AtPosition ==
  ASSUME TypeOK, Control, LocalNames, NEW p \in Procs, pc[p] \in {"untar", "fill"},
         cursor[p].entry \in DOMAIN layers(p)[cursor[p].layer].entries
  PROVE  LET w == <<cursor[p].layer, cursor[p].entry>> IN
         /\ img[p] \in Images
         /\ w \in Positions(img[p]) /\ EntryAt(img[p], w) = entry(p)
         /\ Upto(img[p], cursor[p].layer, cursor[p].entry + 1)
              = Upto(img[p], cursor[p].layer, cursor[p].entry) \cup {w}
         /\ \A v \in Upto(img[p], cursor[p].layer, cursor[p].entry) : Before(v, w)
         /\ Upto(img[p], cursor[p].layer, cursor[p].entry) \in SUBSET Positions(img[p])
         /\ job[p].kind = "operator" =>
              /\ target(p) = cacheDir(slot(p)) \o entry(p).name
              /\ wanted(p) <=> entry(p) \in Selected(img[p])
<1> DEFINE l == cursor[p].layer
           n == cursor[p].entry
<1>1. img[p] \in Images /\ l \in DOMAIN Layers[img[p]]
  BY DEF Control, Located
<1>2. n \in DOMAIN Layers[img[p]][l].entries
  BY DEF layers
<1>3. EntryAt(img[p], <<l, n>>) = entry(p)
  BY DEF EntryAt, entry, layers
<1>4. entry(p) \in Entries(img[p])
  BY TargetIsPath
<1>5. job[p].kind = "operator" =>
        /\ target(p) = cacheDir(slot(p)) \o entry(p).name
        /\ wanted(p) <=> entry(p) \in Selected(img[p])
  BY <1>4, LocalEntry, OperatorNames DEF wanted, Selected
<1>6. Upto(img[p], l, n) \in SUBSET Positions(img[p])
  BY DEF Upto
<1> HIDE DEF l, n
<1>7. /\ <<l, n>> \in Positions(img[p])
      /\ Upto(img[p], l, n + 1) = Upto(img[p], l, n) \cup {<<l, n>>}
      /\ \A v \in Upto(img[p], l, n) : Before(v, <<l, n>>)
  BY <1>1, <1>2, UptoEntry
<1>8. QED
  BY <1>1, <1>3, <1>5, <1>6, <1>7 DEF l, n

\* Every step keeps the directories of everything.
LEMMA NextRooted ==
  ASSUME TypeOK, Control, LocalNames, \A p \in Procs : Filling(p), Rooted(tree), [Next]_vars
  PROVE  Rooted(tree')
<1> USE DEF store, Go
<1>0. IsTree(tree)
  BY DEF TypeOK
<1>1. ASSUME NEW p \in Procs, Prepare(p) PROVE Rooted(tree')
  <2>1. CASE RunClean(p)
    BY <1>0, <2>1, RootedRemoveAll DEF RunClean
  <2>2. CASE RunMakeDir(p)
    <3>1. cursor[p].layer \in 1..4
      BY <2>2 DEF RunMakeDir, Control, Located
    <3>2. QED
      BY <1>0, <2>2, <3>1, RunDirsArePaths, RootedMkdirAll DEF RunMakeDir
  <2>3. CASE CreateLog(p)
    <3>1. logsFile \in Path
      BY ShortPath, SegmentAssumption DEF logsFile
    <3>2. QED
      BY <1>0, <2>3, <3>1, RootedPut DEF CreateLog
  <2>4. CASE StatCache(p)
    BY <2>4 DEF StatCache
  <2>5. CASE MakeCopyDir(p)
    BY <1>0, <2>5, SlotIsSlot, DirsArePaths, RootedMkdirAll DEF MakeCopyDir
  <2>6. QED
    BY <1>1, <2>1, <2>2, <2>3, <2>4, <2>5 DEF Prepare
<1>2. ASSUME NEW p \in Procs, Extract(p) PROVE Rooted(tree')
  <2>1. CASE UntarDir(p)
    <3>1. target(p) \in Path
      BY <2>1, TargetIsPath DEF UntarDir, AtEntry
    <3>2. \/ tree' = tree
          \/ tree' = MkdirAll(tree, target(p)) /\ CanMkdirAll(tree, target(p))
      BY <2>1, LocalEntry DEF UntarDir, AtEntry
    <3>3. QED
      BY <1>0, <3>1, <3>2, RootedMkdirAll
  <2>2. CASE UntarCreate(p)
    BY <1>0, <2>2, TargetIsPath, LocalEntry, RootedPut DEF UntarCreate, AtEntry
  <2>3. CASE UntarFill(p)
    <3>1. pc[p] = "fill" /\ \E d : tree' = Put(tree, target(p), d)
      BY <2>3 DEF UntarFill
    <3>2. target(p) \in Path
      BY <3>1, TargetIsPath DEF Control, Located, layers
    <3>3. target(p) \in DOMAIN tree /\ tree[target(p)] # DirNode
      BY <3>1, NodesAssumption DEF Filling
    <3>4. QED
      BY <1>0, <3>1, <3>2, <3>3, RootedPut
  <2>4. CASE ~(UntarDir(p) \/ UntarCreate(p) \/ UntarFill(p))
    BY <1>2, <2>4 DEF Extract, OpenLayer, OpenLayerFails, Extracted, CloseLayer, SkipEntry, UntarFails
  <2>5. QED
    BY <2>1, <2>2, <2>3, <2>4
<1>3. ASSUME NEW p \in Procs, Kill(p) \/ IOError(p) \/ CopyRetry(p) \/ Copy(p) \/ Locate(p) \/ List(p)
      PROVE UNCHANGED tree
  BY <1>3 DEF Kill, IOError, CopyRetry, Copy, OpenLayout, OpenLayoutFails, Pull, PutImage, PutManifest,
              CommitTruncate, CommitWrite, Locate, ReadIndex, ReadIndexFails, ReadManifest,
              StatLabel, List, ReadConfigs, ReadConfigsFails, ListCatalog, ListDone, ReadSchema
<1>4. ASSUME NEW p \in Procs, NEW kind \in Kinds \cup {"other"}, NEW r \in Refs,
             Start(p, kind, r) \/ Reject(p, kind, r)
      PROVE UNCHANGED tree
  BY <1>4 DEF Start, Reject
<1>5. ASSUME NEW r \in Refs, NEW m \in Images, Push(r, m) PROVE UNCHANGED tree
  BY <1>5 DEF Push
<1>6. CASE UNCHANGED vars
  BY <1>6 DEF vars
<1>7. QED
  BY <1>1, <1>2, <1>3, <1>4, <1>5, <1>6 DEF Next, Step, Finished
\* Outside extraction and listing there is nothing to keep but that nothing is shown.
LEMMA FreshElsewhere ==
  ASSUME NEW p \in Procs,
         pc'[p] \notin {"layer", "untar", "fill", "readdir", "list", "ok", "schema"},
         pc'[p] \in Steps => shown'[p] = {}
  PROVE  FreshRun(p)'
BY DEF FreshRun, Filling, Untarring, ListsFresh, Unlisted

LEMMA FreshUnchanged ==
  ASSUME NEW p \in Procs, FreshRun(p), UNCHANGED <<tree, pc, job, img, cursor, hit, todo, shown>>
  PROVE  FreshRun(p)'
BY DEF FreshRun, Filling, Untarring, ListsFresh, Unlisted, Extractions, Shows, Behind, Listed, slot,
       target, entry, layers

\* Extraction begins with nothing below the cache directory, and ends with the image.
LEMMA LocateFresh ==
  ASSUME TypeOK, Control, MissStillHolds, Rooted(tree), NEW p \in Procs, FreshRun(p), Locate(p)
  PROVE  FreshRun(p)'
<1> USE DEF Go, local, store
<1>1. CASE ReadIndex(p) \/ ReadIndexFails(p) \/ ReadManifest(p)
  <2>1. /\ pc'[p] \in {"manifest", "label", "err"} /\ shown' = shown
        /\ pc[p] \in Steps \ {"list"}
    BY <1>1 DEF TypeOK, ReadIndex, ReadIndexFails, ReadManifest, Steps
  <2>2. QED
    BY <2>1, FreshElsewhere DEF FreshRun, Unlisted
<1>2. CASE StatLabel(p)
  <2>1. /\ pc[p] = "label" /\ pc'[p] \in {listing(p), "layer"}
        /\ cursor'[p] = [layer |-> 1, entry |-> 1]
        /\ UNCHANGED <<tree, job, img, hit, shown>>
    BY <1>2 DEF TypeOK, StatLabel
  <2>2. shown'[p] = {} /\ slot(p)' = slot(p)
    BY <2>1 DEF FreshRun, Unlisted, Steps, slot
  <2>3. Filling(p)'
    BY <2>1 DEF Filling, listing
  <2>4. Unlisted(p)'
    BY <2>1, <2>2 DEF Unlisted, listing
  <2>5. ASSUME job[p].kind = "operator" PROVE Untarring(p)' /\ ListsFresh(p)'
    <3>1. cacheDir(slot(p)) \notin DOMAIN tree /\ cacheDir(slot(p)) \in Path
      BY <2>1, <2>5, OperatorNames DEF MissStillHolds
    <3>2. \A a \in DOMAIN tree : ~Below(cacheDir(slot(p)), a)
      BY <3>1 DEF Rooted, IsDir, Below
    <3>3. img[p] \in Images
      BY <2>1 DEF Control, Located
    <3>4. pc'[p] = "layer" => Behind(p)' = {}
      BY <2>1, <3>3, UptoStart DEF Behind
    <3>5. Reflects(tree, cacheDir(slot(p)), img[p], {}, {})
      BY <3>2, ReflectsNothing
    <3>6. Untarring(p)'
      BY <2>1, <2>2, <2>5, <3>4, <3>5 DEF Untarring, listing
    <3>7. configsDir(slot(p)) \notin DOMAIN tree
      <4>1. configsDir(slot(p)) = Append(cacheDir(slot(p)), "configs") /\ cacheDir(slot(p)) # <<>>
        BY <2>5, OperatorNames
      <4>2. Below(cacheDir(slot(p)), cacheDir(slot(p)) \o <<"configs">>)
        <5>1. <<"configs">> \in Path /\ <<"configs">> # <<>>
          BY SegmentAssumption, ShortPath
        <5>2. QED
          BY <3>1, <4>1, <5>1, ConcatBelow
      <4>3. Append(cacheDir(slot(p)), "configs") = cacheDir(slot(p)) \o <<"configs">>
        BY <3>1, SegmentAssumption DEF Path
      <4>4. QED
        BY <3>2, <4>1, <4>2, <4>3
    <3>8. ListsFresh(p)'
      BY <2>1, <2>2, <2>5, <3>7 DEF ListsFresh, listing
    <3>9. QED
      BY <3>6, <3>8
  <2>6. job[p].kind # "operator" => Untarring(p)' /\ ListsFresh(p)'
    BY <2>1 DEF Untarring, ListsFresh
  <2>7. QED
    BY <2>3, <2>4, <2>5, <2>6 DEF FreshRun
<1>3. QED
  BY <1>1, <1>2 DEF Locate

\* Every layer and every entry is taken in turn.
LEMMA ExtractFresh ==
  ASSUME TypeOK, Control, LocalNames, NEW p \in Procs, FreshRun(p), Extract(p)
  PROVE  FreshRun(p)'
<1> USE DEF Go, local, store
<1> DEFINE c == cacheDir(slot(p))
           m == img[p]
           l == cursor[p].layer
           n == cursor[p].entry
           w == <<l, n>>
<1>1. UNCHANGED <<job, img, hit, shown>> /\ slot(p)' = slot(p) /\ pc[p] \in {"layer", "untar", "fill"}
  BY DEF Extract, OpenLayer, OpenLayerFails, Extracted, CloseLayer, SkipEntry, UntarDir,
         UntarCreate, UntarFill, UntarFails, AtEntry, slot
<1>2. shown'[p] = {} /\ m \in Images
  BY <1>1 DEF FreshRun, Unlisted, Steps, Control, Located
<1>3. ASSUME job[p].kind = "operator"
      PROVE  /\ c \in Path /\ l \in Nat \ {0} /\ (pc[p] # "layer" => n \in Nat \ {0})
             /\ pc[p] = "layer" => Reflects(tree, c, m, Upto(m, l, 1), {})
             /\ pc[p] = "untar" => Reflects(tree, c, m, Upto(m, l, n), {})
             /\ pc[p] = "fill" => Reflects(tree, c, m, Upto(m, l, n), {target(p)})
  BY <1>1, <1>3, OperatorNames DEF FreshRun, Untarring, Behind
<1>4. CASE OpenLayerFails(p) \/ UntarFails(p)
  <2>1. pc'[p] = "err"
    BY <1>4 DEF TypeOK, OpenLayerFails, UntarFails
  <2>2. QED
    BY <1>2, <2>1, FreshElsewhere
<1>5. CASE OpenLayer(p)
  <2>1. /\ pc[p] = "layer" /\ pc'[p] = "untar" /\ UNCHANGED tree
        /\ cursor'[p].layer = l /\ cursor'[p].entry = 1
    BY <1>5 DEF TypeOK, OpenLayer
  <2>2. Behind(p)' = Upto(m, l, 1)
    BY <1>1, <2>1 DEF Behind
  <2>3. Untarring(p)'
    BY <1>1, <1>3, <2>1, <2>2 DEF Untarring
  <2>4. QED
    BY <1>2, <2>1, <2>3 DEF FreshRun, Filling, ListsFresh, Unlisted
<1>6. CASE Extracted(p)
  <2>1. /\ pc[p] = "layer" /\ pc'[p] = listing(p) /\ UNCHANGED tree /\ l \notin DOMAIN Layers[m]
    BY <1>6 DEF TypeOK, Extracted, layers
  <2>2. job[p].kind = "operator" => Upto(m, l, 1) = Positions(m)
    BY <1>2, <1>3, <2>1, UptoEnd
  <2>3. job[p].kind = "operator" => Extractions(p)'
    BY <1>1, <1>2, <1>3, <2>1, <2>2 DEF Extractions
  <2>4. ListsFresh(p)'
    BY <1>1, <2>1, <2>3 DEF ListsFresh, listing
  <2>5. QED
    BY <1>1, <1>2, <2>1, <2>4 DEF FreshRun, Filling, Untarring, Unlisted, listing
<1>7. CASE CloseLayer(p)
  <2>1. /\ pc[p] = "untar" /\ pc'[p] = "layer" /\ UNCHANGED tree
        /\ cursor'[p].layer = l + 1
        /\ n \notin DOMAIN Layers[m][l].entries /\ l \in DOMAIN Layers[m]
    BY <1>7 DEF TypeOK, CloseLayer, layers, Control, Located
  <2>2. job[p].kind = "operator" => Upto(m, l + 1, 1) = Upto(m, l, n)
    BY <1>2, <1>3, <2>1, UptoLayer
  <2>3. Behind(p)' = Upto(m, l + 1, 1)
    BY <1>1, <2>1 DEF Behind
  <2>4. Untarring(p)'
    BY <1>1, <1>3, <2>1, <2>2, <2>3 DEF Untarring
  <2>5. QED
    BY <1>2, <2>1, <2>4 DEF FreshRun, Filling, ListsFresh, Unlisted
<1>8. ASSUME pc[p] \in {"untar", "fill"}, n \in DOMAIN layers(p)[l].entries, pc'[p] = "untar",
             cursor'[p].layer = l, cursor'[p].entry = n + 1,
             job[p].kind = "operator" => Reflects(tree', c, m, Upto(m, l, n) \cup {w}, {})
      PROVE  FreshRun(p)'
  <2>1. Behind(p)' = Upto(m, l, n + 1)
    BY <1>1, <1>8 DEF Behind
  <2>2. Upto(m, l, n + 1) = Upto(m, l, n) \cup {w}
    BY <1>8, AtPosition
  <2>3. job[p].kind = "operator" =>
          /\ l \in Nat \ {0} /\ n + 1 \in Nat \ {0}
          /\ Reflects(tree', c, m, Behind(p)', {})
    <3>1. job[p].kind = "operator" => l \in Nat \ {0} /\ n + 1 \in Nat \ {0}
      BY <1>3, <1>8
    <3>2. Behind(p)' = Upto(m, l, n) \cup {w}
      BY <2>1, <2>2, Zenon
    <3>3. QED
      BY <1>8, <3>1, <3>2, Zenon
  <2>4. Untarring(p)'
    BY <1>1, <1>8, <2>3 DEF Untarring
  <2>5. QED
    BY <1>2, <1>8, <2>4 DEF FreshRun, Filling, ListsFresh, Unlisted
<1>9. CASE SkipEntry(p)
  <2>1. /\ pc[p] = "untar" /\ pc'[p] = "untar" /\ n \in DOMAIN layers(p)[l].entries
        /\ UNCHANGED tree /\ ~wanted(p)
        /\ cursor'[p].layer = l /\ cursor'[p].entry = n + 1
    BY <1>9 DEF TypeOK, SkipEntry, AtEntry, NextEntry
  <2>2. ASSUME job[p].kind = "operator" PROVE Reflects(tree, c, m, Upto(m, l, n) \cup {w}, {})
    <3>1. EntryAt(m, w) \notin Selected(m)
      BY <2>1, <2>2, AtPosition
    <3>2. Reflects(tree, c, m, Upto(m, l, n), {})
      BY <1>3, <2>1, <2>2
    <3>3. QED
      BY <3>1, <3>2, ReflectsSkip
  <2>3. QED
    BY <1>8, <2>1, <2>2
<1>10. CASE UntarDir(p)
  <2>1. /\ pc[p] = "untar" /\ pc'[p] = "untar" /\ n \in DOMAIN layers(p)[l].entries
        /\ tree' = IF entry(p).name = <<>> THEN tree ELSE MkdirAll(tree, target(p))
        /\ wanted(p) /\ entry(p).type = "dir"
        /\ cursor'[p].layer = l /\ cursor'[p].entry = n + 1
    BY <1>10, LocalEntry DEF TypeOK, UntarDir, AtEntry, NextEntry
  <2>2. ASSUME job[p].kind = "operator" PROVE Reflects(tree', c, m, Upto(m, l, n) \cup {w}, {})
    <3>1. /\ w \in Positions(m) /\ Upto(m, l, n) \in SUBSET Positions(m)
          /\ EntryAt(m, w) = entry(p) /\ entry(p) \in Selected(m)
          /\ target(p) = c \o entry(p).name
      BY <2>1, <2>2, AtPosition
    <3>2. Reflects(tree, c, m, Upto(m, l, n), {})
      BY <1>3, <2>1, <2>2
    <3>3. CASE entry(p).name # <<>>
      BY <1>2, <1>3, <2>1, <2>2, <3>1, <3>2, <3>3, ReflectsDir
    <3>4. CASE entry(p).name = <<>>
      BY <2>1, <3>1, <3>2, <3>4, ReflectsDot
    <3>5. QED
      BY <3>3, <3>4
  <2>3. QED
    BY <1>8, <2>1, <2>2
<1>11. CASE UntarCreate(p)
  <2>1. /\ pc[p] = "untar" /\ pc'[p] = "fill" /\ n \in DOMAIN layers(p)[l].entries
        /\ tree' = Put(tree, target(p), Torn) /\ wanted(p)
        /\ cursor' = cursor
    BY <1>11 DEF TypeOK, UntarCreate, AtEntry
  <2>2. target(p)' = target(p) /\ entry(p)' = entry(p)
    BY <1>1, <2>1 DEF target, entry, layers
  <2>3. Filling(p)'
    BY <2>1, <2>2 DEF Filling, Put
  <2>4. ASSUME job[p].kind = "operator"
        PROVE  Reflects(tree', c, m, Upto(m, l, n), {target(p)}) /\ entry(p) \in Selected(m)
    <3>1. Reflects(tree, c, m, Upto(m, l, n), {})
      BY <1>3, <2>1, <2>4
    <3>2. QED
      BY <2>1, <2>4, <3>1, AtPosition, ReflectsCreate
  <2>5. Behind(p)' = Upto(m, l, n)
    BY <1>1, <2>1 DEF Behind
  <2>6. Untarring(p)'
    BY <1>1, <1>3, <2>1, <2>2, <2>4, <2>5 DEF Untarring
  <2>7. QED
    BY <1>2, <2>1, <2>3, <2>6 DEF FreshRun, ListsFresh, Unlisted
<1>12. CASE UntarFill(p)
  <2>1. /\ pc[p] = "fill" /\ pc'[p] = "untar"
        /\ \E d \in Written(tree[target(p)], entry(p).data) : tree' = Put(tree, target(p), d)
        /\ cursor'[p].layer = l /\ cursor'[p].entry = n + 1
    BY <1>12 DEF TypeOK, UntarFill, NextEntry
  <2>2. n \in DOMAIN layers(p)[l].entries /\ entry(p).type = "reg"
    BY <2>1 DEF Control, Located, layers
  <2>3. tree' = Put(tree, target(p), entry(p).data)
    BY <2>1 DEF FreshRun, Filling, Written
  <2>4. ASSUME job[p].kind = "operator" PROVE Reflects(tree', c, m, Upto(m, l, n) \cup {w}, {})
    <3>1. /\ w \in Positions(m) /\ Upto(m, l, n) \in SUBSET Positions(m)
          /\ \A v \in Upto(m, l, n) : Before(v, w)
          /\ EntryAt(m, w) = entry(p) /\ target(p) = c \o entry(p).name
      BY <2>1, <2>2, <2>4, AtPosition
    <3>2. entry(p) \in Selected(m)
      BY <2>1, <2>4 DEF FreshRun, Untarring
    <3>3. Reflects(tree, c, m, Upto(m, l, n), {target(p)})
      BY <1>3, <2>1, <2>4
    <3>4. QED
      BY <1>2, <1>3, <2>2, <2>3, <2>4, <3>1, <3>2, <3>3, ReflectsFill
  <2>5. QED
    BY <1>8, <2>1, <2>2, <2>4
<1>13. QED
  BY <1>4, <1>5, <1>6, <1>7, <1>9, <1>10, <1>11, <1>12 DEF Extract
\* The names of the catalogue are listed one by one, each as the image has it.
LEMMA ListFresh ==
  ASSUME TypeOK, Rooted(tree), NEW p \in Procs, FreshRun(p), List(p)
  PROVE  FreshRun(p)'
<1> USE DEF Go, local, store
<1> DEFINE c == cacheDir(slot(p))
           m == img[p]
<1>1. UNCHANGED <<tree, job, img, hit, cursor>> /\ slot(p)' = slot(p) /\ IsTree(tree)
  BY DEF TypeOK, List, ReadConfigs, ReadConfigsFails, ListCatalog, ListDone, ReadSchema, slot
<1>2. ASSUME Extractions(p) PROVE Extractions(p)'
  BY <1>1, <1>2 DEF Extractions
<1>3. CASE ReadConfigs(p)
  <2>1. /\ pc[p] = "readdir" /\ pc'[p] = "list" /\ shown' = shown
        /\ todo'[p] = ReadDirNames(tree, configsDir(slot(p)))
        /\ configsDir(slot(p)) \in DOMAIN tree
    BY <1>3 DEF TypeOK, ReadConfigs, IsDir
  <2>2. shown[p] = {}
    BY <2>1 DEF FreshRun, Unlisted, Steps
  <2>3. ASSUME job[p].kind = "operator", ~hit[p]
        PROVE  /\ Extractions(p)' /\ Shows(p)'
               /\ todo'[p] \cup {x.op : x \in shown'[p]} = OpNames(m)
    <3>1. Extractions(p)
      BY <2>1, <2>3 DEF FreshRun, ListsFresh
    <3>2. c \in Path /\ c # <<>> /\ configsDir(slot(p)) = Append(c, "configs")
      BY <2>3, OperatorNames
    <3>3. ReadDirNames(tree, Append(c, "configs")) = OpNames(m)
      BY <1>1, <3>1, <3>2, NamesAreOpNames DEF Extractions
    <3>4. todo'[p] \cup {x.op : x \in shown'[p]} = OpNames(m)
      BY <2>1, <2>2, <3>2, <3>3
    <3>5. Shows(p)'
      BY <2>1, <2>2 DEF Shows
    <3>6. QED
      BY <1>2, <3>1, <3>4, <3>5
  <2>4. ListsFresh(p)'
    BY <1>1, <2>1, <2>3 DEF ListsFresh
  <2>5. QED
    BY <2>1, <2>4 DEF FreshRun, Filling, Untarring, Unlisted
<1>4. CASE ReadConfigsFails(p)
  <2>1. pc'[p] = "err"
    BY <1>4 DEF TypeOK, ReadConfigsFails
  <2>2. "err" \notin Steps
    BY DEF Steps
  <2>3. QED
    BY <2>1, <2>2, FreshElsewhere
<1>5. CASE ListCatalog(p)
  <2>1. PICK o \in todo[p] :
          /\ pc[p] = "list" /\ pc'[p] = "list" /\ todo'[p] = todo[p] \ {o}
          /\ \E d \in Listed(configsDir(slot(p)) \o <<o, "catalog.json">>) :
               shown'[p] = shown[p] \cup {[op |-> o, got |-> d]}
    BY <1>5 DEF TypeOK, ListCatalog
  <2>2. PICK d \in Listed(configsDir(slot(p)) \o <<o, "catalog.json">>) :
          shown'[p] = shown[p] \cup {[op |-> o, got |-> d]}
    BY <2>1
  <2>3. ASSUME job[p].kind = "operator", ~hit[p]
        PROVE  /\ Extractions(p)' /\ Shows(p)'
               /\ todo'[p] \cup {x.op : x \in shown'[p]} = OpNames(m)
    <3>1. /\ Extractions(p) /\ Shows(p)
          /\ todo[p] \cup {x.op : x \in shown[p]} = OpNames(m)
      BY <2>1, <2>3 DEF FreshRun, ListsFresh
    <3>2. c \in Path /\ c # <<>> /\ configsDir(slot(p)) = Append(c, "configs")
      BY <2>3, OperatorNames
    <3>3. o \in Segment
      BY DEF TypeOK
    <3>4. d = FinalData(m, CatalogOf(o))
      BY <1>1, <2>2, <3>1, <3>2, <3>3, ListedIsFinal DEF Extractions
    <3>5. [op |-> o, got |-> d].op = o /\ [op |-> o, got |-> d].got = d
      OBVIOUS
    <3>6. {x.op : x \in shown'[p]} = {x.op : x \in shown[p]} \cup {o}
      BY <2>2, <3>5
    <3>7. todo'[p] \cup {x.op : x \in shown'[p]} = OpNames(m)
      BY <2>1, <3>1, <3>6
    <3>8. Shows(p)'
      BY <1>1, <2>2, <3>1, <3>4, <3>5 DEF Shows
    <3>9. QED
      BY <1>2, <3>1, <3>7, <3>8
  <2>4. ListsFresh(p)'
    BY <1>1, <2>1, <2>3 DEF ListsFresh
  <2>5. QED
    BY <2>1, <2>4 DEF FreshRun, Filling, Untarring, Unlisted
<1>6. CASE ListDone(p)
  <2>1. pc[p] = "list" /\ pc'[p] = "ok" /\ todo[p] = {} /\ shown' = shown
    BY <1>6 DEF TypeOK, ListDone
  <2>2. ASSUME job[p].kind = "operator", ~hit[p] PROVE shown[p] = Catalogue(m)
    <3>1. Shows(p) /\ {x.op : x \in shown[p]} = OpNames(m)
      BY <2>1, <2>2 DEF FreshRun, ListsFresh
    <3>2. Catalogue(m) = {[op |-> o, got |-> FinalData(m, CatalogOf(o))] : o \in OpNames(m)}
      BY DEF Catalogue, OpNames, CatalogOf
    <3>3. ASSUME NEW x \in shown[p] PROVE x \in Catalogue(m)
      BY <3>1, <3>2 DEF Shows
    <3>4. ASSUME NEW o \in OpNames(m)
          PROVE  [op |-> o, got |-> FinalData(m, CatalogOf(o))] \in shown[p]
      <4>1. PICK x \in shown[p] : x.op = o
        BY <3>1
      <4>2. x = [op |-> x.op, got |-> FinalData(m, CatalogOf(x.op))]
        BY <3>1 DEF Shows
      <4>3. QED
        BY <4>1, <4>2
    <3>5. QED
      BY <3>2, <3>3, <3>4
  <2>3. ListsFresh(p)'
    BY <1>1, <2>1, <2>2 DEF ListsFresh
  <2>4. "ok" \notin Steps
    BY DEF Steps
  <2>5. QED
    BY <2>1, <2>3, <2>4 DEF FreshRun, Filling, Untarring, Unlisted
<1>7. CASE ReadSchema(p)
  <2>1. pc[p] = "schema" /\ pc'[p] \in {"ok", "err"}
    BY <1>7 DEF TypeOK, ReadSchema
  <2>2. job[p].kind # "operator"
    BY <2>1 DEF FreshRun, Unlisted
  <2>3. "ok" \notin Steps /\ "err" \notin Steps
    BY DEF Steps
  <2>4. QED
    BY <1>1, <2>1, <2>2, <2>3 DEF FreshRun, Filling, Untarring, ListsFresh, Unlisted
<1>8. QED
  BY <1>3, <1>4, <1>5, <1>6, <1>7 DEF List

\* Up to the copy and during it, nothing is extracted or shown.
LEMMA PrepareFresh ==
  ASSUME TypeOK, NEW p \in Procs, FreshRun(p), Prepare(p) \/ Copy(p) \/ CopyRetry(p)
  PROVE  FreshRun(p)'
<1> USE DEF Go, local, store
<1>1. shown' = shown /\ UNCHANGED job
  BY DEF Prepare, RunClean, RunMakeDir, CreateLog, StatCache, MakeCopyDir, Copy, OpenLayout,
         OpenLayoutFails, Pull, PutImage, PutManifest, CommitTruncate, CommitWrite, CopyRetry
<1>2. pc[p] \in Steps \ {"list"}
  BY DEF Steps, Prepare, RunClean, RunMakeDir, CreateLog, StatCache, MakeCopyDir, Copy, OpenLayout,
         OpenLayoutFails, Pull, PutImage, PutManifest, CommitTruncate, CommitWrite, CopyRetry
<1>3. shown'[p] = {}
  BY <1>1, <1>2 DEF FreshRun, Unlisted
<1>4. CASE StatCache(p)
  <2>1. \/ pc'[p] = "mkcopy"
        \/ hit'[p] /\ pc'[p] = listing(p)
    BY <1>4 DEF TypeOK, StatCache
  <2>2. QED
    BY <1>1, <1>3, <2>1 DEF listing, FreshRun, Filling, Untarring, ListsFresh, Unlisted
<1>5. CASE ~StatCache(p)
  <2>1. pc'[p] \in {"mkdir", "err", "log", "stat", "copy", "pull", "put", "seal", "commit", "write", "index"}
    BY <1>5 DEF TypeOK, Prepare, RunClean, RunMakeDir, CreateLog, MakeCopyDir, Copy, OpenLayout,
         OpenLayoutFails, Pull, PutImage, PutManifest, CommitTruncate, CommitWrite, CopyRetry
  <2>2. QED
    BY <1>3, <2>1, FreshElsewhere
<1>6. QED
  BY <1>4, <1>5

LEMMA NextFresh ==
  ASSUME TypeOK, Control, LocalNames, MissStillHolds, FreshInv, [Next]_vars, NEW only, Procs = {only}
  PROVE  FreshInv'
<1>1. Rooted(tree) /\ FreshRun(only) /\ only \in Procs
  BY DEF FreshInv
<1>2. Rooted(tree')
  BY NextRooted DEF FreshInv, FreshRun
<1>3. SUFFICES FreshRun(only)'
  BY <1>2 DEF FreshInv
<1>4. "err" \notin Steps /\ "killed" \notin Steps
  BY DEF Steps
<1>5. CASE Step(only) \/ CopyRetry(only)
  BY <1>1, <1>5, PrepareFresh, LocateFresh, ExtractFresh, ListFresh DEF Step
<1>6. CASE IOError(only) \/ Kill(only)
  <2>1. pc'[only] \in {"err", "killed"}
    BY <1>1, <1>6 DEF IOError, Kill, TypeOK
  <2>2. QED
    BY <1>1, <1>4, <2>1, FreshElsewhere
<1>7. ASSUME NEW kind \in Kinds \cup {"other"}, NEW r \in Refs, Start(only, kind, r) \/ Reject(only, kind, r)
      PROVE  FreshRun(only)'
  <2>1. pc'[only] \in {"clean", "err"} /\ shown'[only] = {}
    BY <1>1, <1>7 DEF Start, Reject, TypeOK
  <2>2. QED
    BY <1>1, <2>1, FreshElsewhere
<1>8. CASE UNCHANGED vars \/ \E r \in Refs, m \in Images : Push(r, m)
  <2>1. UNCHANGED <<tree, pc, job, img, cursor, hit, todo, shown>>
    BY <1>8 DEF vars, Push, local
  <2>2. QED
    BY <1>1, <2>1, FreshUnchanged
<1>9. QED
  BY <1>5, <1>6, <1>7, <1>8 DEF Next, Finished

LEMMA InitFresh == Init => FreshInv
<1> SUFFICES ASSUME Init PROVE FreshInv
  OBVIOUS
<1>1. Rooted(tree)
  BY CollectorAssumption DEF Init
<1>2. "idle" \notin Steps
  BY DEF Steps
<1>3. \A p \in Procs : FreshRun(p)
  BY <1>2 DEF Init, FreshRun, Filling, Untarring, ListsFresh, Unlisted
<1>4. QED
  BY <1>1, <1>3 DEF FreshInv

\* Runs that do not overlap: an operator run that downloads and exits 0 has listed
\* exactly the catalogue of the image it extracted, for any layers without ".." in
\* their names, any label and tag, and after any runs that failed, were killed or
\* left another image's files.
THEOREM FreshListing ==
  ASSUME NEW only, Procs = {only}, LocalNames
  PROVE  Spec => []FreshListingComplete
<1> DEFINE I == IInv /\ MissStillHolds /\ FreshInv
<1>1. Init => I
  <2> SUFFICES ASSUME Init PROVE I
    OBVIOUS
  <2>1. IInv /\ MissStillHolds
    BY InitIInv DEF Init, MissStillHolds
  <2>2. QED
    BY <2>1, InitFresh
<1>2. I /\ [Next]_vars => I'
  BY NextTypeOK, NextControl, NextMiss, NextFresh DEF IInv
<1>3. I => FreshListingComplete
  BY DEF FreshInv, FreshRun, ListsFresh, FreshListingComplete
<1> HIDE DEF I
<1>4. QED
  BY <1>1, <1>2, <1>3, PTL DEF Spec
=============================================================================
