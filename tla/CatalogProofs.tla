--------------------------- MODULE CatalogProofs ----------------------------
(***************************************************************************)
(* What a reader makes of a listing is what the catalogues say, for any    *)
(* operators, catalogues and tags, and however often and however slowly    *)
(* another run writes the files meanwhile.                                 *)
(*                                                                         *)
(* The invariant behind it gives the reading of the lines in closed form:  *)
(* the listings before the current one have ended, and the current one is  *)
(* what the loops of ListCatalogs have passed, up to the entry and the     *)
(* skipped version they are at.                                            *)
(***************************************************************************)
EXTENDS Catalog, SequenceTheorems, WellFoundedInduction, TLAPS

Values == STRING \cup Strings
LineKinds == {"operator", "error", "channel", "name", "replaces", "skips", "skiprange", "bundle", "component"}
Lines == [kind : LineKinds, value : Values]
Entries == Seq(ChannelEntry)
Objects == Seq(DeclarativeConfig)
Reading == [op : STRING, objs : Objects, failed : BOOLEAN]

Upto(s, k) == SubSeq(s, 1, k)

Entry(name, replaces, skips, range) ==
  [name |-> name, replaces |-> replaces, skips |-> skips, skipRange |-> range]
Begun(name, replaces, skips) == Entry(name, replaces, skips, "")
Channel(name, entries) == [schema |-> "olm.channel", name |-> name, entries |-> entries]
Bundle(name) == [schema |-> "olm.bundle", name |-> name, entries |-> <<>>]

\* The listing of the operator o, as far as objs, without an error.
Showing(o, objs) == [op |-> o, objs |-> objs, failed |-> FALSE]

-----------------------------------------------------------------------------
(* The invariant *)

FilesInv ==
  /\ text \in [Range(Operators) -> Texts] /\ creates \in [Range(Operators) -> Nat]
  /\ written \in [Range(Operators) -> [there : BOOLEAN, k : Nat, inside : BOOLEAN]]
  /\ \A o \in Range(Operators) :
       /\ written[o].k <= Len(text[o].objs)
       /\ creates[o] = 0 => written[o] \in {Absent, Whole(o)}

Listing == {"failed", "objects", "entries", "skips"}
listed == Operators[next - 1]

\* The file, of which w is on disk, is complete and its objects well separated.
Readable(t, w) == w.there /\ Joined(t, Len(t.objs))

\* What readOperatorCatalog returned of the text t.
ReadInv ==
  LET t == text[listed] IN
  /\ pc \in Listing => \E k \in 0..Len(t.objs) :
       /\ olm = Decoded(t, k)
       /\ creates[listed] = 0 /\ pc # "failed" => Readable(t, written[listed]) /\ k = Len(t.objs)
  /\ pc = "failed" => olm = <<>> /\ (creates[listed] = 0 => ~Readable(t, written[listed]))

\* Where the loops are.
LoopsInv ==
  /\ next \in Nat \ {0} /\ at \in [object : Nat \ {0}, entry : Nat \ {0}, skip : Nat \ {0}]
  /\ pc \in {"files"} \cup Listing => next <= Len(Operators) + 1
  /\ pc \in Listing => next >= 2 /\ at.object <= Len(olm) + 1
  /\ pc = "failed" => at.object = 1
  /\ pc \in {"entries", "skips"} =>
       /\ at.object <= Len(olm) /\ object.schema = "olm.channel"
       /\ at.entry <= Len(object.entries) + 1
  /\ pc = "skips" => at.entry <= Len(object.entries) /\ at.skip <= Len(entry.skips) + 1

\* What has been printed of the objects objs when the loops are at the i-th of
\* them, its j-th entry and the k-th version that it skips.
SoFar(p, objs, i, j, k) ==
  LET before  == Shown(Upto(objs, i - 1))
      entries == Upto(objs[i].entries, j - 1)
      e       == objs[i].entries[j]
      begun   == Begun(e.name, e.replaces, Upto(e.skips, k - 1))
  IN CASE p = "entries" -> Append(before, Channel(objs[i].name, entries))
       [] p = "skips"   -> Append(before, Channel(objs[i].name, Append(entries, begun)))
       [] OTHER         -> before

Current == Showing(listed, SoFar(pc, olm, at.object, at.entry, at.skip))

\* A listing of the operator o, with text t, has ended: with an error, or with the
\* objects of a first part of the file.
Ended(r, o, t, w, c) ==
  /\ r.op = o
  /\ \/ r.failed = TRUE /\ r.objs = <<>>
     \/ r.failed = FALSE /\ \E k \in 0..Len(t.objs) : r.objs = Shown(Decoded(t, k))
  /\ c = 0 => IF Readable(t, w) THEN r.objs = Shown(Decoded(t, Len(t.objs))) ELSE r.failed = TRUE

\* The lines so far, of operators or of a release.
OperatorLines ==
  LET read == Understand(out) IN
  /\ pc \in {"files", "done"} \cup Listing
  /\ \A k \in 1..Len(out) : out[k].kind # "component"
  /\ read \in Seq(Reading) /\ Len(read) = next - 1
  /\ pc = "done" => next = Len(Operators) + 1
  /\ pc \in Listing => read[next - 1] = Current
  /\ \A i \in 1..(next - 1) : LET o == Operators[i] IN
       (i = next - 1 /\ pc \in Listing) \/ Ended(read[i], o, text[o], written[o], creates[o])

ReleaseLines ==
  /\ pc \in {"schema", "tags", "error", "done"}
  /\ next <= Len(Tags) + 1 /\ (pc = "done" => next = Len(Tags) + 1)
  /\ out = Upto(Components, next - 1) /\ Understand(out) = <<>>

LinesInv == Prints => out \in Seq(Lines) /\ (OperatorLines \/ ReleaseLines)

CatalogInv == FilesInv /\ ReadInv /\ LoopsInv /\ LinesInv

-----------------------------------------------------------------------------
(* Sequences *)

\* A set of naturals has a smallest member.
LEMMA SmallestOf ==
  ASSUME NEW S, S \subseteq Nat, S # {}
  PROVE  \E n \in S : \A m \in S : n <= m
<1>1. \E n \in S : \A m \in S : ~(<<m, n>> \in OpToRel(<, Nat))
  BY WFMin, NatLessThanWellFounded, Zenon
<1>2. \E n \in S : \A m \in S : ~(m < n)
  BY <1>1, Zenon DEF OpToRel
<1> QED
  BY <1>2

\* So what holds of 0, and of n + 1 if of n, holds of every natural.
LEMMA Naturals1 ==
  ASSUME NEW P, P \subseteq Nat, 0 \in P, \A n \in P : n + 1 \in P
  PROVE  P = Nat
<1> SUFFICES ASSUME Nat \ P # {} PROVE FALSE
  OBVIOUS
<1>1. PICK n \in Nat \ P : \A m \in Nat \ P : n <= m
  BY SmallestOf
<1>2. n # 0 /\ n - 1 \in P
  BY <1>1
<1> QED
  BY <1>1, <1>2

\* Two functions that start alike and step alike end alike.
LEMMA SameSteps ==
  ASSUME NEW n \in Nat, NEW c, NEW f, c[0] = f[0],
         \A k \in 0..(n - 1) : c[k] = f[k] => c[k + 1] = f[k + 1]
  PROVE  c[n] = f[n]
<1> DEFINE P == {k \in Nat : k <= n => c[k] = f[k]}
<1>1. P = Nat
  <2>1. P \subseteq Nat /\ 0 \in P /\ \A k \in P : k + 1 \in P
    OBVIOUS
  <2> HIDE DEF P
  <2> QED
    BY <2>1, Naturals1
<1>2. n \in P
  BY <1>1
<1> QED
  BY <1>2

\* The first k of a sequence, and one more.
LEMMA UptoStep ==
  ASSUME NEW S, NEW s \in Seq(S), NEW k \in 0..Len(s)
  PROVE  /\ Upto(s, k) \in Seq(S) /\ Len(Upto(s, k)) = k
         /\ Upto(s, 0) = <<>> /\ Upto(s, Len(s)) = s
         /\ k < Len(s) => Upto(s, k + 1) = Append(Upto(s, k), s[k + 1])
         /\ \A i \in 1..k : Upto(s, k)[i] = s[i]
<1>1. Upto(s, k) \in Seq(S) /\ Len(Upto(s, k)) = k /\ \A i \in 1..k : Upto(s, k)[i] = s[i]
  BY DEF Upto
<1>2. Upto(s, 0) = <<>> /\ Upto(s, Len(s)) = s
  BY SubSeqFull DEF Upto
<1>3. ASSUME k < Len(s) PROVE Upto(s, k + 1) = Append(Upto(s, k), s[k + 1])
  BY <1>3 DEF Upto
<1> QED
  BY <1>1, <1>2, <1>3

\* A change of the last element.
LEMMA AmendAppend ==
  ASSUME NEW S, NEW s \in Seq(S), NEW x \in S, NEW y \in S
  PROVE  [Append(s, x) EXCEPT ![Len(Append(s, x))] = y] = Append(s, y)
<1> DEFINE a == Append(s, x)
           e == [a EXCEPT ![Len(a)] = y]
           b == Append(s, y)
<1>1. /\ a \in Seq(S) /\ Len(a) = Len(s) + 1 /\ \A i \in 1..Len(s) : a[i] = s[i]
      /\ b \in Seq(S) /\ Len(b) = Len(s) + 1 /\ \A i \in 1..Len(s) : b[i] = s[i]
      /\ b[Len(s) + 1] = y
  BY AppendProperties
<1> HIDE DEF a, b
<1>2. e \in Seq(S) /\ Len(e) = Len(a) /\ \A i \in 1..Len(a) : e[i] = IF i = Len(a) THEN y ELSE a[i]
  BY <1>1, ExceptSeq
<1> HIDE DEF e
<1>3. e = b
  BY <1>1, <1>2, SeqEqual
<1> QED
  BY <1>3 DEF e, a, b

-----------------------------------------------------------------------------
(* Reading line by line *)

\* The readings of the first lines exist, however many.
LEMMA HeardSoFar ==
  ASSUME NEW lines
  PROVE  \A n \in Nat : \E f : f = [k \in 0..n |-> IF k = 0 THEN <<>> ELSE Heard(f[k - 1], lines[k])]
<1> DEFINE P == {n \in Nat : \E f : f = [k \in 0..n |-> IF k = 0 THEN <<>> ELSE Heard(f[k - 1], lines[k])]}
<1>1. 0 \in P
  <2> DEFINE f == [k \in 0..0 |-> <<>>]
  <2>1. f = [k \in 0..0 |-> IF k = 0 THEN <<>> ELSE Heard(f[k - 1], lines[k])]
    OBVIOUS
  <2> QED
    BY <2>1
<1>2. ASSUME NEW n \in P PROVE n + 1 \in P
  <2>1. PICK f : f = [k \in 0..n |-> IF k = 0 THEN <<>> ELSE Heard(f[k - 1], lines[k])]
    OBVIOUS
  <2> DEFINE g == [k \in 0..(n + 1) |-> IF k <= n THEN f[k] ELSE Heard(f[k - 1], lines[k])]
  <2>2. \A k \in 0..(n + 1) : g[k] = IF k = 0 THEN <<>> ELSE Heard(g[k - 1], lines[k])
    BY <2>1
  <2>3. g = [k \in 0..(n + 1) |-> IF k = 0 THEN <<>> ELSE Heard(g[k - 1], lines[k])]
    BY <2>2
  <2> HIDE DEF g
  <2> QED
    BY <2>3
<1>3. P = Nat
  <2> HIDE DEF P
  <2> QED
    BY <1>1, <1>2, Naturals1 DEF P
<1> QED
  BY <1>3

\* Understand is the last of them.
LEMMA UnderstandDef ==
  ASSUME NEW lines, NEW f, Len(lines) \in Nat,
         f = [k \in 0..Len(lines) |-> IF k = 0 THEN <<>> ELSE Heard(f[k - 1], lines[k])]
  PROVE  Understand(lines) = f[Len(lines)]
<1> DEFINE c == CHOOSE g : g = [k \in 0..Len(lines) |-> IF k = 0 THEN <<>> ELSE Heard(g[k - 1], lines[k])]
<1>1. c = [k \in 0..Len(lines) |-> IF k = 0 THEN <<>> ELSE Heard(c[k - 1], lines[k])]
  BY Zenon
<1>2. Understand(lines) = c[Len(lines)]
  BY DEF Understand
<1> HIDE DEF c
<1>3. c[0] = f[0] /\ \A k \in 0..(Len(lines) - 1) : c[k] = f[k] => c[k + 1] = f[k + 1]
  <2>1. c[0] = f[0]
    BY <1>1
  <2>2. ASSUME NEW k \in 0..(Len(lines) - 1) PROVE c[k + 1] = Heard(c[k], lines[k + 1]) /\ f[k + 1] = Heard(f[k], lines[k + 1])
    BY <1>1
  <2> QED
    BY <2>1, <2>2
<1> QED
  BY <1>2, <1>3, SameSteps

\* No lines say nothing.
LEMMA UnderstandNone ==
  Understand(<<>>) = <<>>
<1> DEFINE f == [k \in 0..0 |-> <<>>]
<1>1. f = [k \in 0..Len(<<>>) |-> IF k = 0 THEN <<>> ELSE Heard(f[k - 1], <<>>[k])] /\ f[0] = <<>>
  OBVIOUS
<1> HIDE DEF f
<1> QED
  BY <1>1, UnderstandDef

\* One more line adds what it says to what has been understood.
LEMMA UnderstandAppend ==
  ASSUME NEW S, NEW lines \in Seq(S), NEW line \in S
  PROVE  Understand(Append(lines, line)) = Heard(Understand(lines), line)
<1> DEFINE more == Append(lines, line)
           n    == Len(lines)
<1>1. PICK f : f = [k \in 0..n |-> IF k = 0 THEN <<>> ELSE Heard(f[k - 1], lines[k])]
  BY HeardSoFar
<1>2. Understand(lines) = f[n]
  BY <1>1, UnderstandDef
<1>3. Len(more) = n + 1 /\ more[n + 1] = line /\ \A k \in 1..n : more[k] = lines[k]
  BY AppendProperties
<1> HIDE DEF more
<1> DEFINE g == [k \in 0..(n + 1) |-> IF k <= n THEN f[k] ELSE Heard(f[n], line)]
<1>4. \A k \in 0..(n + 1) : g[k] = IF k = 0 THEN <<>> ELSE Heard(g[k - 1], more[k])
  BY <1>1, <1>3, SMTT(30)
<1>5. g = [k \in 0..Len(more) |-> IF k = 0 THEN <<>> ELSE Heard(g[k - 1], more[k])] /\ g[n + 1] = Heard(f[n], line)
  BY <1>3, <1>4
<1> HIDE DEF g
<1>6. Understand(more) = Heard(f[n], line)
  BY <1>3, <1>5, UnderstandDef, SMTT(30)
<1> QED
  BY <1>2, <1>6 DEF more
-----------------------------------------------------------------------------
(* What a catalogue shows, object by object *)

\* What the first objects show exists, however many.
LEMMA ShownSoFar ==
  ASSUME NEW objs
  PROVE  \A n \in Nat : \E f : f = [k \in 0..n |-> IF k = 0 THEN <<>> ELSE Shows(f[k - 1], objs[k])]
<1> DEFINE P == {n \in Nat : \E f : f = [k \in 0..n |-> IF k = 0 THEN <<>> ELSE Shows(f[k - 1], objs[k])]}
<1>1. 0 \in P
  <2> DEFINE f == [k \in 0..0 |-> <<>>]
  <2>1. f = [k \in 0..0 |-> IF k = 0 THEN <<>> ELSE Shows(f[k - 1], objs[k])]
    OBVIOUS
  <2> QED
    BY <2>1
<1>2. ASSUME NEW n \in P PROVE n + 1 \in P
  <2>1. PICK f : f = [k \in 0..n |-> IF k = 0 THEN <<>> ELSE Shows(f[k - 1], objs[k])]
    OBVIOUS
  <2> DEFINE g == [k \in 0..(n + 1) |-> IF k <= n THEN f[k] ELSE Shows(f[k - 1], objs[k])]
  <2>2. \A k \in 0..(n + 1) : g[k] = IF k = 0 THEN <<>> ELSE Shows(g[k - 1], objs[k])
    BY <2>1
  <2>3. g = [k \in 0..(n + 1) |-> IF k = 0 THEN <<>> ELSE Shows(g[k - 1], objs[k])]
    BY <2>2
  <2> HIDE DEF g
  <2> QED
    BY <2>3
<1>3. P = Nat
  <2> HIDE DEF P
  <2> QED
    BY <1>1, <1>2, Naturals1 DEF P
<1> QED
  BY <1>3

\* Shown is the last of them.
LEMMA ShownDef ==
  ASSUME NEW objs, NEW f, Len(objs) \in Nat,
         f = [k \in 0..Len(objs) |-> IF k = 0 THEN <<>> ELSE Shows(f[k - 1], objs[k])]
  PROVE  Shown(objs) = f[Len(objs)]
<1> DEFINE c == CHOOSE g : g = [k \in 0..Len(objs) |-> IF k = 0 THEN <<>> ELSE Shows(g[k - 1], objs[k])]
<1>1. c = [k \in 0..Len(objs) |-> IF k = 0 THEN <<>> ELSE Shows(c[k - 1], objs[k])]
  BY Zenon
<1>2. Shown(objs) = c[Len(objs)]
  BY DEF Shown
<1> HIDE DEF c
<1>3. c[0] = f[0] /\ \A k \in 0..(Len(objs) - 1) : c[k] = f[k] => c[k + 1] = f[k + 1]
  <2>1. c[0] = f[0]
    BY <1>1
  <2>2. ASSUME NEW k \in 0..(Len(objs) - 1) PROVE c[k + 1] = Shows(c[k], objs[k + 1]) /\ f[k + 1] = Shows(f[k], objs[k + 1])
    BY <1>1
  <2> QED
    BY <2>1, <2>2
<1> QED
  BY <1>2, <1>3, SameSteps

\* No objects show nothing.
LEMMA ShownNone ==
  Shown(<<>>) = <<>>
<1> DEFINE f == [k \in 0..0 |-> <<>>]
<1>1. f = [k \in 0..Len(<<>>) |-> IF k = 0 THEN <<>> ELSE Shows(f[k - 1], <<>>[k])] /\ f[0] = <<>>
  OBVIOUS
<1> HIDE DEF f
<1> QED
  BY <1>1, ShownDef

\* One more object adds what it shows.
LEMMA ShownAppend ==
  ASSUME NEW S, NEW objs \in Seq(S), NEW obj \in S
  PROVE  Shown(Append(objs, obj)) = Shows(Shown(objs), obj)
<1> DEFINE more == Append(objs, obj)
           n    == Len(objs)
<1>1. PICK f : f = [k \in 0..n |-> IF k = 0 THEN <<>> ELSE Shows(f[k - 1], objs[k])]
  BY ShownSoFar
<1>2. Shown(objs) = f[n]
  BY <1>1, ShownDef
<1>3. Len(more) = n + 1 /\ more[n + 1] = obj /\ \A k \in 1..n : more[k] = objs[k]
  BY AppendProperties
<1> HIDE DEF more
<1> DEFINE g == [k \in 0..(n + 1) |-> IF k <= n THEN f[k] ELSE Shows(f[n], obj)]
<1>4. \A k \in 0..(n + 1) : g[k] = IF k = 0 THEN <<>> ELSE Shows(g[k - 1], more[k])
  BY <1>1, <1>3, SMTT(30)
<1>5. g = [k \in 0..Len(more) |-> IF k = 0 THEN <<>> ELSE Shows(g[k - 1], more[k])] /\ g[n + 1] = Shows(f[n], obj)
  BY <1>3, <1>4
<1> HIDE DEF g
<1>6. Shown(more) = Shows(f[n], obj)
  BY <1>3, <1>5, ShownDef, SMTT(30)
<1> QED
  BY <1>2, <1>6 DEF more

-----------------------------------------------------------------------------
(* What each line adds *)

\* The reading with r for the last listing.
Revised(read, r) == [read EXCEPT ![Len(read)] = r]

\* The name of an operator begins a listing.
LEMMA HeardOperator ==
  ASSUME NEW read, NEW line, line.kind = "operator"
  PROVE  Heard(read, line) = Append(read, Showing(line.value, <<>>))
BY Zenon DEF Heard, Showing

\* A component is not of a listing.
LEMMA HeardComponent ==
  ASSUME NEW read, NEW line, line.kind = "component"
  PROVE  Heard(read, line) = read
BY Zenon DEF Heard

\* An error marks the last listing.
LEMMA HeardError ==
  ASSUME NEW read, NEW line, NEW o, NEW objs, line.kind = "error", read[Len(read)] = Showing(o, objs)
  PROVE  Heard(read, line) = Revised(read, [op |-> o, objs |-> objs, failed |-> TRUE])
<1>1. Heard(read, line) = [read EXCEPT ![Len(read)] = [Showing(o, objs) EXCEPT !.failed = TRUE]]
  BY Zenon DEF Heard
<1>2. \A f, g : [[op |-> o, objs |-> objs, failed |-> f] EXCEPT !.failed = g] = [op |-> o, objs |-> objs, failed |-> g]
  OBVIOUS
<1>3. [Showing(o, objs) EXCEPT !.failed = TRUE] = [op |-> o, objs |-> objs, failed |-> TRUE]
  BY <1>2, Zenon DEF Showing
<1> QED
  BY <1>1, <1>3, Zenon DEF Revised

\* The reading with X for the entries of the channel after the objects B.
WithEntries(read, B, X) == [read EXCEPT ![Len(read)].objs[Len(B) + 1].entries = X]

\* Other objects for the same operator.
LEMMA AmendShowing ==
  ASSUME NEW o, NEW objs, NEW more
  PROVE  [Showing(o, objs) EXCEPT !.objs = more] = Showing(o, more)
<1>1. \A f : [[op |-> o, objs |-> objs, failed |-> f] EXCEPT !.objs = more] = [op |-> o, objs |-> more, failed |-> f]
  OBVIOUS
<1> QED
  BY <1>1, Zenon DEF Showing

\* A channel or a bundle is one more object of the last listing.
LEMMA HeardObject ==
  ASSUME NEW read, NEW line, NEW o, NEW B, NEW obj, read[Len(read)] = Showing(o, B),
         \/ line.kind = "channel" /\ obj = Channel(line.value, <<>>)
         \/ line.kind = "bundle" /\ obj = Bundle(line.value)
  PROVE  Heard(read, line) = Revised(read, Showing(o, Append(B, obj)))
<1> DEFINE n == Len(read)
<1>1. Heard(read, line) = [read EXCEPT ![n].objs = Append(@, obj)]
  BY Zenon DEF Heard, Channel, Bundle
<1>2. [read EXCEPT ![n].objs = Append(@, obj)] = [read EXCEPT ![n] = [Showing(o, B) EXCEPT !.objs = Append(Showing(o, B).objs, obj)]]
  BY Zenon
<1>3. [Showing(o, B) EXCEPT !.objs = Append(Showing(o, B).objs, obj)] = Showing(o, Append(B, obj))
  <2>1. Showing(o, B).objs = B
    BY DEF Showing
  <2>2. \A X : [Showing(o, B) EXCEPT !.objs = X] = Showing(o, X)
    BY AmendShowing
  <2> QED
    BY <2>1, <2>2, Zenon
<1> QED
  BY <1>1, <1>2, <1>3, Zenon DEF Revised

\* Such a line for a channel ...
LEMMA HeardChannel ==
  ASSUME NEW read, NEW line, NEW o, NEW B, read[Len(read)] = Showing(o, B), line.kind = "channel"
  PROVE  Heard(read, line) = Revised(read, Showing(o, Append(B, Channel(line.value, <<>>))))
BY HeardObject, ZenonT(40)

\* ... and for a bundle.
LEMMA HeardBundle ==
  ASSUME NEW read, NEW line, NEW o, NEW B, read[Len(read)] = Showing(o, B), line.kind = "bundle"
  PROVE  Heard(read, line) = Revised(read, Showing(o, Append(B, Bundle(line.value))))
BY HeardObject, ZenonT(40)

\* Other entries for the last channel.
LEMMA AmendChannel ==
  ASSUME NEW B \in Objects, NEW c \in Strings, NEW E \in Entries, NEW X \in Entries
  PROVE  [Append(B, Channel(c, E)) EXCEPT ![Len(B) + 1].entries = X] = Append(B, Channel(c, X))
<1> DEFINE C == Channel(c, E)
           a == Append(B, C)
<1>1. C \in DeclarativeConfig /\ Channel(c, X) \in DeclarativeConfig
  BY DEF DeclarativeConfig, Channel, Entries
<1>2. a[Len(B) + 1] = C /\ Len(a) = Len(B) + 1
  BY <1>1, AppendProperties DEF Objects
<1>3. [C EXCEPT !.entries = X] = Channel(c, X)
  BY DEF Channel
<1>4. [a EXCEPT ![Len(a)] = Channel(c, X)] = Append(B, Channel(c, X))
  BY <1>1, AmendAppend DEF Objects
<1>5. [a EXCEPT ![Len(B) + 1].entries = X] = [a EXCEPT ![Len(B) + 1] = [C EXCEPT !.entries = X]]
  BY <1>2, Zenon
<1> QED
  BY <1>2, <1>3, <1>4, <1>5, Zenon

\* And so for the last listing.
LEMMA AmendReading ==
  ASSUME NEW read, NEW o, NEW B \in Objects, NEW c \in Strings, NEW E \in Entries, NEW X \in Entries,
         read[Len(read)] = Showing(o, Append(B, Channel(c, E)))
  PROVE  WithEntries(read, B, X) = Revised(read, Showing(o, Append(B, Channel(c, X))))
<1> DEFINE n == Len(read)
           objs == Append(B, Channel(c, E))
           L == Showing(o, objs)
<1>1. [objs EXCEPT ![Len(B) + 1].entries = X] = Append(B, Channel(c, X))
  BY AmendChannel
<1> HIDE DEF objs
<1>2. \A Y : [L EXCEPT !.objs = Y] = Showing(o, Y)
  BY AmendShowing
<1>3. L.objs = objs
  BY DEF Showing
<1>4. WithEntries(read, B, X) = [read EXCEPT ![n] = [L EXCEPT !.objs = [objs EXCEPT ![Len(B) + 1].entries = X]]]
  BY <1>3, Zenon DEF objs, WithEntries
<1> QED
  BY <1>1, <1>2, <1>4, Zenon DEF Revised

\* Where a listing has its last channel and the entries of it.
LEMMA Shape ==
  ASSUME NEW o, NEW B \in Objects, NEW c \in Strings, NEW E \in Entries
  PROVE  LET objs == Showing(o, Append(B, Channel(c, E))).objs
         IN Len(objs) = Len(B) + 1 /\ objs[Len(B) + 1].entries = E
<1>1. Channel(c, E) \in DeclarativeConfig
  BY DEF DeclarativeConfig, Channel, Entries
<1>2. Showing(o, Append(B, Channel(c, E))).objs = Append(B, Channel(c, E)) /\ Channel(c, E).entries = E
  BY DEF Showing, Channel
<1>3. Append(B, Channel(c, E))[Len(B) + 1] = Channel(c, E) /\ Len(Append(B, Channel(c, E))) = Len(B) + 1
  BY <1>1, AppendProperties DEF Objects
<1> QED
  BY <1>2, <1>3, Zenon

\* The line that begins an entry, and what it begins.
Names(line) == line.kind = "name"
Fresh(name) == Begun(name, "", <<>>)

\* A name is one more entry of the last channel.
LEMMA HeardName ==
  ASSUME NEW read, NEW line, NEW o, NEW B \in Objects, NEW c \in Strings, NEW E \in Entries,
         read[Len(read)] = Showing(o, Append(B, Channel(c, E))),
         Names(line), line.value \in Strings
  PROVE  Heard(read, line) =
           Revised(read, Showing(o, Append(B, Channel(c, Append(E, Fresh(line.value))))))
<1> DEFINE n == Len(read)
           m == Len(B) + 1
           X == Append(E, Fresh(line.value))
<1>1. Len(read[n].objs) = m /\ read[n].objs[m].entries = E
  BY Shape
<1>2. Heard(read, line) = WithEntries(read, B, X)
  BY <1>1, Zenon DEF Heard, Names, Fresh, Begun, Entry, WithEntries
<1>3. X \in Entries
  <2>1. Fresh(line.value) \in ChannelEntry
    <3>1. <<>> \in Seq(Strings) /\ "" \in Strings
      BY EmptySeq, CatalogAssumption
    <3> QED
      BY <3>1 DEF Fresh, Begun, Entry, ChannelEntry
  <2> QED
    BY <2>1, AppendProperties DEF Entries
<1>4. WithEntries(read, B, X) = Revised(read, Showing(o, Append(B, Channel(c, X))))
  <2> SUFFICES ASSUME NEW Y \in Entries PROVE WithEntries(read, B, Y) = Revised(read, Showing(o, Append(B, Channel(c, Y))))
    BY <1>3
  <2> QED
    BY AmendReading
<1> QED
  BY <1>2, <1>4, Zenon

\* What a line changes in the entry e, with the field that it fills.
Replacing(e, v) == [e EXCEPT !.replaces = v]
Skipping(e, v) == [e EXCEPT !.skips = Append(@, v)]
Ranging(e, v) == [e EXCEPT !.skipRange = v]
Amends(line, e, y) ==
  \/ line.kind = "replaces" /\ y = Replacing(e, line.value)
  \/ line.kind = "skips" /\ y = Skipping(e, line.value)
  \/ line.kind = "skiprange" /\ y = Ranging(e, line.value)

\* A line of an entry changes the last entry of the last channel.
LEMMA HeardEntry ==
  ASSUME NEW read, NEW line, NEW o, NEW B \in Objects, NEW c \in Strings, NEW E \in Entries, NEW e \in ChannelEntry,
         read[Len(read)] = Showing(o, Append(B, Channel(c, Append(E, e)))),
         NEW y \in ChannelEntry, Amends(line, e, y)
  PROVE  Heard(read, line) = Revised(read, Showing(o, Append(B, Channel(c, Append(E, y)))))
<1> DEFINE n == Len(read)
           m == Len(B) + 1
           ES == Append(E, e)
           k == Len(ES)
<1>1. ES \in Entries /\ ES[k] = e /\ Append(E, y) \in Entries
  BY AppendProperties DEF Entries
<1>2. [ES EXCEPT ![k] = y] = Append(E, y)
  BY AmendAppend DEF Entries
<1> HIDE DEF ES
<1>3. Len(read[n].objs) = m /\ read[n].objs[m].entries = ES
  <2>1. read[n] = Showing(o, Append(B, Channel(c, ES)))
    BY DEF ES
  <2> QED
    BY <1>1, <2>1, Shape
<1>4. Heard(read, line) = WithEntries(read, B, [ES EXCEPT ![k] = y])
  <2>1. CASE line.kind = "replaces" /\ y = Replacing(e, line.value)
    BY <2>1, <1>1, <1>3, Zenon DEF Heard, WithEntries, Replacing
  <2>2. CASE line.kind = "skips" /\ y = Skipping(e, line.value)
    BY <2>2, <1>1, <1>3, Zenon DEF Heard, WithEntries, Skipping
  <2>3. CASE line.kind = "skiprange" /\ y = Ranging(e, line.value)
    BY <2>3, <1>1, <1>3, Zenon DEF Heard, WithEntries, Ranging
  <2> QED
    BY <2>1, <2>2, <2>3 DEF Amends
<1>5. WithEntries(read, B, Append(E, y)) = Revised(read, Showing(o, Append(B, Channel(c, Append(E, y)))))
  <2>1. read[n] = Showing(o, Append(B, Channel(c, ES)))
    BY DEF ES
  <2> DEFINE Y == Append(E, y)
  <2> HIDE DEF Y
  <2>2. WithEntries(read, B, Y) = Revised(read, Showing(o, Append(B, Channel(c, Y))))
    BY <1>1, <2>1, AmendReading DEF Y
  <2> QED
    BY <2>2 DEF Y
<1> QED
  BY <1>2, <1>4, <1>5, Zenon

-----------------------------------------------------------------------------
(* The objects of a catalogue *)

\* What the first k + 1 objects show.
LEMMA ShownStep ==
  ASSUME NEW s \in Objects, NEW k \in 0..(Len(s) - 1)
  PROVE  Shown(Upto(s, k + 1)) = Shows(Shown(Upto(s, k)), s[k + 1])
<1>1. Upto(s, k) \in Objects /\ s[k + 1] \in DeclarativeConfig /\ Upto(s, k + 1) = Append(Upto(s, k), s[k + 1])
  BY UptoStep DEF Objects
<1> QED
  BY <1>1, ShownAppend, Zenon DEF Objects

\* What an object of each schema shows.
LEMMA ShowsObject ==
  ASSUME NEW seen, NEW obj \in DeclarativeConfig
  PROVE  /\ obj.schema = "olm.package" => Shows(seen, obj) = seen
         /\ obj.schema = "olm.channel" => Shows(seen, obj) = Append(seen, obj)
         /\ obj.schema = "olm.bundle" => Shows(seen, obj) = Append(seen, Bundle(obj.name))
         /\ obj.schema \in {"olm.package", "olm.channel", "olm.bundle"}
<1>1. obj.schema \in {"olm.package", "olm.channel", "olm.bundle"}
  BY DEF DeclarativeConfig
<1>2. obj.schema = "olm.bundle" => [obj EXCEPT !.entries = <<>>] = Bundle(obj.name)
  BY DEF DeclarativeConfig, Bundle
<1> QED
  BY <1>1, <1>2, Zenon DEF Shows

\* A bundle without its entries is an object.
LEMMA BundleType ==
  ASSUME NEW name \in Strings
  PROVE  Bundle(name) \in DeclarativeConfig
<1>1. <<>> \in Seq(ChannelEntry)
  BY EmptySeq
<1> QED
  BY <1>1 DEF Bundle, DeclarativeConfig

\* What is shown only grows.
LEMMA ShowsGrows ==
  ASSUME NEW seen \in Objects, NEW obj \in DeclarativeConfig
  PROVE  Shows(seen, obj) \in Objects /\ IsPrefix(seen, Shows(seen, obj))
<1>1. \A x \in DeclarativeConfig : Append(seen, x) \in Objects /\ IsPrefix(seen, Append(seen, x))
  BY AppendProperties DEF IsPrefix, Objects
<1>2. IsPrefix(seen, seen)
  BY DEF IsPrefix, Objects
<1>3. Bundle(obj.name) \in DeclarativeConfig
  BY BundleType DEF DeclarativeConfig
<1> QED
  BY <1>1, <1>2, <1>3, ShowsObject

\* Prefixes are transitive.
LEMMA PrefixTransitive ==
  ASSUME NEW S, NEW a \in Seq(S), NEW b \in Seq(S), NEW c \in Seq(S), IsPrefix(a, b), IsPrefix(b, c)
  PROVE  IsPrefix(a, c)
BY DEF IsPrefix

\* A prefix, element by element.
LEMMA PrefixDef ==
  ASSUME NEW S, NEW a \in Seq(S), NEW b \in Seq(S)
  PROVE  IsPrefix(a, b) <=> Len(a) <= Len(b) /\ \A i \in 1..Len(a) : a[i] = b[i]
<1>1. Len(a) <= Len(b) => SubSeq(a, 1, Len(a)) = a /\ SubSeq(b, 1, Len(a)) \in Seq(S) /\ Len(SubSeq(b, 1, Len(a))) = Len(a)
        /\ \A i \in 1..Len(a) : SubSeq(b, 1, Len(a))[i] = b[i]
  BY SubSeqFull
<1>2. Len(a) <= Len(b) => (SubSeq(a, 1, Len(a)) = SubSeq(b, 1, Len(a)) <=> \A i \in 1..Len(a) : a[i] = b[i])
  BY <1>1, SeqEqual
<1> QED
  BY <1>2, Zenon DEF IsPrefix

\* What the first objects show are objects, and a prefix of what more of them show.
LEMMA ShownObjects ==
  ASSUME NEW s \in Objects
  PROVE  /\ \A k \in 0..Len(s) : Shown(Upto(s, k)) \in Objects
         /\ \A k \in 0..Len(s) : \A j \in 0..k : IsPrefix(Shown(Upto(s, j)), Shown(Upto(s, k)))
         /\ Shown(s) \in Objects
<1> DEFINE P == {k \in Nat : k <= Len(s) =>
                   /\ Shown(Upto(s, k)) \in Objects
                   /\ \A j \in 0..k : Shown(Upto(s, j)) \in Objects /\ IsPrefix(Shown(Upto(s, j)), Shown(Upto(s, k)))}
<1>1. 0 \in P
  <2>1. Upto(s, 0) = <<>>
    BY UptoStep DEF Objects
  <2>2. <<>> \in Objects /\ IsPrefix(<<>>, <<>>)
    BY DEF Objects, IsPrefix
  <2> QED
    BY <2>1, <2>2, ShownNone
<1>2. ASSUME NEW k \in P PROVE k + 1 \in P
  <2> SUFFICES ASSUME k + 1 <= Len(s)
               PROVE  /\ Shown(Upto(s, k + 1)) \in Objects
                      /\ \A j \in 0..(k + 1) : Shown(Upto(s, j)) \in Objects /\ IsPrefix(Shown(Upto(s, j)), Shown(Upto(s, k + 1)))
    OBVIOUS
  <2>1. k \in 0..(Len(s) - 1) /\ s[k + 1] \in DeclarativeConfig
    BY DEF Objects
  <2>2. Shown(Upto(s, k + 1)) \in Objects /\ IsPrefix(Shown(Upto(s, k)), Shown(Upto(s, k + 1)))
    BY <2>1, ShownStep, ShowsGrows
  <2>3. ASSUME NEW j \in 0..(k + 1) PROVE Shown(Upto(s, j)) \in Objects /\ IsPrefix(Shown(Upto(s, j)), Shown(Upto(s, k + 1)))
    <3>1. CASE j <= k
      BY <2>1, <2>2, <3>1, PrefixTransitive DEF Objects
    <3>2. CASE j = k + 1
      BY <2>2, <3>2 DEF IsPrefix
    <3> QED
      BY <3>1, <3>2
  <2> QED
    BY <2>2, <2>3
<1>3. P = Nat
  <2> HIDE DEF P
  <2> QED
    BY <1>1, <1>2, Naturals1 DEF P
<1>4. \A k \in 0..Len(s) : Shown(Upto(s, k)) \in Objects /\ \A j \in 0..k : IsPrefix(Shown(Upto(s, j)), Shown(Upto(s, k)))
  BY <1>3
<1>5. Upto(s, Len(s)) = s /\ Len(s) \in Nat
  BY UptoStep DEF Objects
<1> QED
  BY <1>4, <1>5

\* What comes after the first k objects, if it is a channel.
LEMMA ShownNext ==
  ASSUME NEW s \in Objects, NEW k \in 0..(Len(s) - 1), s[k + 1].schema = "olm.channel"
  PROVE  /\ Len(Shown(Upto(s, k))) < Len(Shown(s))
         /\ IsPrefix(Shown(Upto(s, k)), Shown(s))
         /\ Shown(s)[Len(Shown(Upto(s, k))) + 1] = s[k + 1]
<1> DEFINE a == Shown(Upto(s, k))
           b == Shown(Upto(s, k + 1))
           c == Shown(s)
<1>1. a \in Objects /\ b \in Objects /\ c \in Objects /\ s[k + 1] \in DeclarativeConfig
  BY ShownObjects DEF Objects
<1>2. b = Append(a, s[k + 1])
  BY <1>1, ShownStep, ShowsObject
<1>3. IsPrefix(a, c) /\ IsPrefix(b, c)
  <2>1. Upto(s, Len(s)) = s
    BY UptoStep DEF Objects
  <2> QED
    BY <2>1, ShownObjects
<1> HIDE DEF a, b, c
<1>4. Len(b) = Len(a) + 1 /\ b[Len(a) + 1] = s[k + 1] /\ Len(a) \in Nat
  BY <1>1, <1>2, AppendProperties DEF Objects
<1>5. Len(b) <= Len(c) /\ \A i \in 1..Len(b) : b[i] = c[i]
  BY <1>1, <1>3, PrefixDef DEF Objects
<1>6. Len(a) < Len(c) /\ c[Len(a) + 1] = s[k + 1]
  BY <1>1, <1>4, <1>5 DEF Objects
<1> QED
  BY <1>3, <1>6 DEF a, b, c

-----------------------------------------------------------------------------
(* Decoding *)

\* Strings without their spaces are strings.
LEMMA StrippedAll ==
  ASSUME NEW s \in Seq(Strings)
  PROVE  [n \in DOMAIN s |-> Stripped[s[n]]] \in Seq(Strings)
<1>1. DOMAIN s = 1..Len(s) /\ Len(s) \in Nat /\ \A n \in 1..Len(s) : s[n] \in Strings
  OBVIOUS
<1>2. \A n \in 1..Len(s) : Stripped[s[n]] \in Strings
  BY <1>1, CatalogAssumption
<1> QED
  BY <1>1, <1>2, IsASeq

\* A decoded entry is an entry.
LEMMA EntryDecoded ==
  ASSUME NEW e \in ChannelEntry
  PROVE  DecodedEntry(e) \in ChannelEntry
<1>1. e.skips \in Seq(Strings) /\ e.name \in Strings /\ e.replaces \in Strings /\ e.skipRange \in Strings
  BY DEF ChannelEntry
<1>2. [n \in DOMAIN e.skips |-> Stripped[e.skips[n]]] \in Seq(Strings)
  BY <1>1, StrippedAll
<1>3. \A v \in Strings : Stripped[v] \in Strings
  BY CatalogAssumption
<1> QED
  BY <1>1, <1>2, <1>3 DEF ChannelEntry, DecodedEntry

\* A decoded object is an object.
LEMMA ObjectDecoded ==
  ASSUME NEW c \in DeclarativeConfig
  PROVE  DecodedObject(c) \in DeclarativeConfig
<1>1. c.entries \in Seq(ChannelEntry) /\ c.name \in Strings /\ c.schema \in {"olm.package", "olm.channel", "olm.bundle"}
  BY DEF DeclarativeConfig
<1>2. \A j \in DOMAIN c.entries : DecodedEntry(c.entries[j]) \in ChannelEntry
  BY <1>1, EntryDecoded
<1>3. [j \in DOMAIN c.entries |-> DecodedEntry(c.entries[j])] \in Seq(ChannelEntry)
  BY <1>1, <1>2
<1>4. \A v \in Strings : Stripped[v] \in Strings
  BY CatalogAssumption
<1> QED
  BY <1>1, <1>3, <1>4 DEF DeclarativeConfig, DecodedObject

\* The objects of a text.
LEMMA TextType ==
  ASSUME NEW t \in Texts
  PROVE  t.objs \in Objects /\ t.objs # <<>> /\ t \in Text
BY CatalogAssumption DEF Text, Objects

\* What has been decoded of a text are as many objects.
LEMMA DecodedObjects ==
  ASSUME NEW t \in Texts, NEW k \in 0..Len(t.objs)
  PROVE  /\ Decoded(t, k) \in Objects /\ Len(Decoded(t, k)) = k
         /\ \A i \in 1..k : Decoded(t, k)[i] = DecodedObject(t.objs[i])
<1>1. Len(t.objs) \in Nat /\ \A i \in 1..k : t.objs[i] \in DeclarativeConfig
  BY TextType DEF Objects
<1>2. \A i \in 1..k : DecodedObject(t.objs[i]) \in DeclarativeConfig
  BY <1>1, ObjectDecoded
<1> QED
  BY <1>1, <1>2 DEF Objects, Decoded

\* What has been decoded of a text without spaces is the first of its objects.
LEMMA DecodedSpaceFree ==
  ASSUME NEW t \in Texts, NEW k \in 0..Len(t.objs), t.objs = Decoded(t, Len(t.objs))
  PROVE  Decoded(t, k) = Upto(t.objs, k)
<1> DEFINE d == Decoded(t, k)
           u == Upto(t.objs, k)
<1>1. t.objs \in Objects /\ Len(t.objs) \in Nat
  BY TextType DEF Objects
<1>2. d \in Objects /\ Len(d) = k /\ \A i \in 1..k : d[i] = DecodedObject(t.objs[i])
  BY DecodedObjects
<1>3. \A i \in 1..Len(t.objs) : t.objs[i] = DecodedObject(t.objs[i])
  BY <1>1 DEF Decoded
<1>4. u \in Objects /\ Len(u) = k /\ \A i \in 1..k : u[i] = t.objs[i]
  BY <1>1, UptoStep DEF Objects
<1> HIDE DEF d, u
<1>5. \A i \in 1..k : d[i] = u[i]
  BY <1>1, <1>2, <1>3, <1>4
<1>6. d = u
  BY <1>2, <1>4, <1>5, SeqEqual DEF Objects
<1> QED
  BY <1>6 DEF d, u

-----------------------------------------------------------------------------
(* The files and the loops *)

\* The operators and the tags are sequences of names.
LEMMA OperatorTypes ==
  Operators \in Seq(STRING) /\ Tags \in Seq(STRING)
BY CatalogAssumption, Zenon

\* An index names an operator.
LEMMA InRange ==
  ASSUME NEW i \in 1..Len(Operators)
  PROVE  Operators[i] \in Range(Operators) /\ Operators[i] \in STRING
<1>1. DOMAIN Operators = 1..Len(Operators) /\ Operators[i] \in STRING
  BY OperatorTypes
<1> QED
  BY <1>1 DEF Range

\* While a catalogue is listed, the loops are at something it has.
LEMMA ListedWhere ==
  ASSUME FilesInv, ReadInv, LoopsInv, pc \in Listing
  PROVE  /\ next - 1 \in 1..Len(Operators) /\ listed \in Range(Operators) /\ listed \in STRING
         /\ text[listed] \in Texts /\ olm \in Objects
         /\ pc \in {"entries", "skips"} =>
              object \in DeclarativeConfig /\ object.entries \in Entries /\ object.name \in Strings
         /\ pc = "skips" => entry \in ChannelEntry /\ entry.skips \in Seq(Strings)
<1>1. next - 1 \in 1..Len(Operators)
  <2>1. Len(Operators) \in Nat
    BY OperatorTypes
  <2> QED
    BY <2>1 DEF LoopsInv, Listing
<1>2. listed \in Range(Operators) /\ listed \in STRING
  BY <1>1, InRange DEF listed
<1>3. text[listed] \in Texts
  BY <1>2 DEF FilesInv
<1>4. olm \in Objects
  BY <1>3, DecodedObjects DEF ReadInv
<1>5. ASSUME pc \in {"entries", "skips"}
      PROVE  object \in DeclarativeConfig /\ object.entries \in Entries /\ object.name \in Strings
  <2>1. object \in DeclarativeConfig
    BY <1>4, <1>5 DEF LoopsInv, object, Objects
  <2> QED
    BY <2>1 DEF DeclarativeConfig, Entries
<1>6. ASSUME pc = "skips" PROVE entry \in ChannelEntry /\ entry.skips \in Seq(Strings)
  <2>1. entry \in ChannelEntry
    BY <1>5, <1>6 DEF LoopsInv, entry, Entries
  <2> QED
    BY <2>1 DEF ChannelEntry
<1> QED
  BY <1>1, <1>2, <1>3, <1>4, <1>5, <1>6

\* The steps of the listing leave the files alone, and the other run the listing.
Lists ==
  \/ NextOperator \/ LogError \/ ListObject \/ ListChannel \/ ListEntry \/ ListSkip
  \/ EndEntry \/ EndChannel \/ ListedAll \/ GetReleaseSchema \/ ListTag \/ Finished

\* The listing writes neither the files nor its level.
LEMMA ListsFiles ==
  ASSUME Lists
  PROVE  UNCHANGED <<files, level>>
BY DEF Lists, NextOperator, LogError, ListObject, ListChannel, ListEntry, ListSkip,
       EndEntry, EndChannel, ListedAll, GetReleaseSchema, ListTag, Finished, files, vars

\* What the other run does to the file of o, and to no other.
OnDisk == [there : BOOLEAN, k : Nat, inside : BOOLEAN]
Rewritten(o) ==
  /\ UNCHANGED <<pc, level, text, next, olm, at, out>>
  /\ creates' \in [Range(Operators) -> Nat] /\ creates'[o] # 0
  /\ \A p \in Range(Operators) \ {o} : creates'[p] = creates[p]
  /\ \E w \in OnDisk : w.k <= Len(text[o].objs) /\ written' = [written EXCEPT ![o] = w]

\* Create and Grow do no more than Rewritten allows.
LEMMA OtherRun ==
  ASSUME FilesInv, NEW o \in Range(Operators), Create(o) \/ Grow(o)
  PROVE  Rewritten(o)
<1>0. /\ written[o] \in OnDisk /\ creates \in [Range(Operators) -> Nat]
      /\ text[o].objs \in Objects /\ Len(text[o].objs) \in Nat
  <2>1. text[o].objs \in Objects
    BY TextType DEF FilesInv
  <2> QED
    BY <2>1 DEF FilesInv, OnDisk, Objects
<1>1. CASE Create(o)
  <2>1. [Absent EXCEPT !.there = TRUE] \in OnDisk /\ [Absent EXCEPT !.there = TRUE].k = 0
    BY DEF Absent, OnDisk
  <2>2. creates' = [creates EXCEPT ![o] = @ + 1]
    BY <1>1 DEF Create
  <2>3. /\ creates' \in [Range(Operators) -> Nat] /\ creates'[o] # 0
        /\ \A p \in Range(Operators) \ {o} : creates'[p] = creates[p]
    BY <1>0, <2>2
  <2>4. written' = [written EXCEPT ![o] = [Absent EXCEPT !.there = TRUE]] /\ UNCHANGED <<pc, level, text, next, olm, at, out>>
    BY <1>1, Zenon DEF Create
  <2>5. \E w \in OnDisk : w.k <= Len(text[o].objs) /\ written' = [written EXCEPT ![o] = w]
    <3>1. [Absent EXCEPT !.there = TRUE].k <= Len(text[o].objs)
      BY <1>0, <2>1
    <3> QED
      BY <2>1, <2>4, <3>1, Zenon
  <2> QED
    BY <2>3, <2>4, <2>5, Zenon DEF Rewritten
<1>2. CASE Grow(o)
  <2>1. written[o].there /\ written[o] # Whole(o)
    BY <1>2 DEF Grow
  <2>2. creates[o] # 0
    <3>1. ~Absent.there
      BY DEF Absent
    <3> QED
      BY <2>1, <3>1, Zenon DEF FilesInv
  <2>3. PICK k \in written[o].k..Len(text[o].objs) : \E b \in BOOLEAN :
          written' = [written EXCEPT ![o].k = k, ![o].inside = b]
    BY <1>2 DEF Grow
  <2>4. PICK b \in BOOLEAN : written' = [written EXCEPT ![o].k = k, ![o].inside = b]
    BY <2>3
  <2> DEFINE w == [[written[o] EXCEPT !.k = k] EXCEPT !.inside = b]
  <2>5. w \in OnDisk /\ w.k = k
    <3>1. k \in Nat
      BY <1>0 DEF OnDisk
    <3>2. ASSUME NEW v \in OnDisk
          PROVE  [v EXCEPT !.k = k] \in OnDisk /\ [v EXCEPT !.k = k].k = k
      BY <3>1 DEF OnDisk
    <3>3. ASSUME NEW v \in OnDisk
          PROVE  [v EXCEPT !.inside = b] \in OnDisk /\ [v EXCEPT !.inside = b].k = v.k
      BY DEF OnDisk
    <3> QED
      BY <1>0, <3>2, <3>3
  <2>6. written' = [written EXCEPT ![o] = w]
    BY <2>4
  <2>7. k <= Len(text[o].objs)
    BY <1>0 DEF OnDisk
  <2> HIDE DEF w
  <2>8. \E x \in OnDisk : x.k <= Len(text[o].objs) /\ written' = [written EXCEPT ![o] = x]
    BY <2>5, <2>6, <2>7, Zenon
  <2>9. creates' = creates /\ UNCHANGED <<pc, level, text, next, olm, at, out>>
    BY <1>2, Zenon DEF Grow
  <2> QED
    BY <1>0, <2>2, <2>8, <2>9, Zenon DEF Rewritten
<1> QED
  BY <1>1, <1>2

\* The files stay in their types, and a file that was never created stays as it was.
LEMMA FilesStep ==
  ASSUME FilesInv, \/ UNCHANGED files
                   \/ \E o \in Range(Operators) : Rewritten(o)
  PROVE  /\ FilesInv' /\ text' = text
         /\ \A o \in Range(Operators) :
              creates'[o] = 0 => creates[o] = 0 /\ written'[o] = written[o]
<1>1. CASE UNCHANGED files
  BY <1>1 DEF FilesInv, files, Whole, Absent
<1>2. ASSUME NEW o \in Range(Operators), Rewritten(o)
      PROVE  /\ FilesInv' /\ text' = text
             /\ \A p \in Range(Operators) :
                  creates'[p] = 0 => creates[p] = 0 /\ written'[p] = written[p]
  <2>1. PICK w \in OnDisk : w.k <= Len(text[o].objs) /\ written' = [written EXCEPT ![o] = w]
    BY <1>2 DEF Rewritten
  <2>2. text' = text /\ creates' \in [Range(Operators) -> Nat] /\ creates'[o] # 0
    BY <1>2 DEF Rewritten
  <2>3. written' \in [Range(Operators) -> OnDisk] /\ written'[o] = w
    BY <2>1 DEF FilesInv, OnDisk
  <2>4. \A p \in Range(Operators) \ {o} : creates'[p] = creates[p] /\ written'[p] = written[p]
    BY <1>2, <2>1 DEF FilesInv, Rewritten
  <2>5. \A p \in Range(Operators) : creates'[p] = 0 => creates[p] = 0 /\ written'[p] = written[p]
    BY <2>2, <2>4, Zenon
  <2>6. \A p \in Range(Operators) : written'[p].k <= Len(text'[p].objs)
    BY <2>1, <2>2, <2>3, <2>4 DEF FilesInv
  <2>7. \A p \in Range(Operators) : creates'[p] = 0 => written'[p] \in {Absent', Whole(p)'}
    BY <2>2, <2>5, Zenon DEF FilesInv, Whole, Absent
  <2>8. text' \in [Range(Operators) -> Texts]
    BY <2>2 DEF FilesInv
  <2> QED
    BY <2>2, <2>3, <2>5, <2>6, <2>7, <2>8, Zenon DEF FilesInv, OnDisk
<1> QED
  BY <1>1, <1>2

\* The steps of ListCatalogs between the objects of one operator.
Within ==
  /\ pc \in Listing \ {"failed"} /\ pc' \in Listing \ {"failed"}
  /\ UNCHANGED <<text, written, creates, next, olm>>

\* The steps of ListCatalogs stay within the listing of the operator.
LEMMA LoopSteps ==
  ASSUME ListObject \/ ListChannel \/ ListEntry \/ ListSkip \/ EndEntry \/ EndChannel
  PROVE  Within
BY DEF ListObject, ListChannel, ListEntry, ListSkip, EndEntry, EndChannel, Within, Listing, files

\* Every step keeps what is known of the objects that were read.
LEMMA ReadStep ==
  ASSUME FilesInv, ReadInv, LoopsInv, Next
  PROVE  ReadInv'
<1>1. CASE NextOperator
  <2> DEFINE o == Operators[next]
             t == text[o]
             w == written[o]
  <2>1. /\ next \in 1..Len(Operators) /\ next' = next + 1 /\ UNCHANGED files
        /\ pc' = IF readOperatorCatalog(o).ok THEN "objects" ELSE "failed"
        /\ olm' = readOperatorCatalog(o).olm
    BY <1>1 DEF NextOperator, LoopsInv
  <2>2. o \in Range(Operators) /\ listed' = o
    BY <2>1, InRange DEF listed
  <2>3. w.k \in 0..Len(t.objs) /\ (creates[o] = 0 => w \in {Absent, Whole(o)})
    BY <2>2 DEF FilesInv
  <2>4. CASE w.there /\ ~w.inside /\ Joined(t, w.k)
    <3>1. readOperatorCatalog(o).ok = TRUE /\ readOperatorCatalog(o).olm = Decoded(t, w.k)
      BY <2>4, Zenon DEF readOperatorCatalog
    <3>2. ~Absent.there /\ Whole(o).k = Len(t.objs)
      BY DEF Absent, Whole
    <3>3. creates[o] = 0 => Readable(t, w) /\ w.k = Len(t.objs)
      BY <2>3, <2>4, <3>2, Zenon DEF Readable
    <3>4. pc' = "objects" /\ olm' = Decoded(t, w.k)
      BY <2>1, <3>1
    <3> QED
      BY <2>1, <2>2, <2>3, <3>3, <3>4 DEF ReadInv, files
  <2>5. CASE ~(w.there /\ ~w.inside /\ Joined(t, w.k))
    <3>1. readOperatorCatalog(o).ok = FALSE /\ readOperatorCatalog(o).olm = <<>>
      BY <2>5, Zenon DEF readOperatorCatalog
    <3>2. ~Absent.there /\ Whole(o).k = Len(t.objs) /\ ~Whole(o).inside
      BY DEF Absent, Whole
    <3>3. creates[o] = 0 => ~Readable(t, w)
      BY <2>3, <2>5, <3>2, Zenon DEF Readable
    <3>4. pc' = "failed" /\ olm' = <<>>
      BY <2>1, <3>1
    <3>5. t \in Texts /\ 0 \in 0..Len(t.objs)
      BY <2>2, <2>3 DEF FilesInv
    <3>6. Decoded(t, 0) = <<>>
      BY DEF Decoded
    <3> QED
      BY <2>1, <2>2, <3>3, <3>4, <3>5, <3>6 DEF ReadInv, files
  <2> QED
    BY <2>4, <2>5
<1>2. CASE Within
  BY <1>2 DEF Within, ReadInv, listed, Listing
<1>3. CASE ListedAll \/ LogError \/ GetReleaseSchema \/ ListTag \/ Finished
  <2>1. CASE pc' \notin Listing
    BY <2>1 DEF ReadInv, Listing
  <2>2. CASE pc' \in Listing
    BY <1>3, <2>2 DEF ListedAll, LogError, GetReleaseSchema, ListTag, Finished, Listing, vars
  <2> QED
    BY <2>1, <2>2
<1>4. ASSUME NEW o \in Range(Operators), Create(o) \/ Grow(o) PROVE ReadInv'
  <2>1. Rewritten(o)
    BY <1>4, OtherRun
  <2>2. /\ text' = text
        /\ \A p \in Range(Operators) : creates'[p] = 0 => creates[p] = 0 /\ written'[p] = written[p]
    BY <2>1, FilesStep
  <2>3. UNCHANGED <<pc, next, olm>> /\ listed' = listed
    BY <2>1 DEF Rewritten, listed
  <2>4. pc \in Listing => listed \in Range(Operators)
    BY ListedWhere
  <2>5. "failed" \in Listing
    BY DEF Listing
  <2> QED
    BY <2>2, <2>3, <2>4, <2>5, Zenon DEF ReadInv
<1> QED
  BY <1>1, <1>2, <1>3, <1>4, LoopSteps DEF Next

\* Every step keeps the loops within the objects.
LEMMA LoopsStep ==
  ASSUME FilesInv, ReadInv, LoopsInv, Next
  PROVE  LoopsInv'
<1> DEFINE At == [object : Nat \ {0}, entry : Nat \ {0}, skip : Nat \ {0}]
<1>0. at \in At /\ next \in Nat \ {0} /\ Len(Operators) \in Nat
  BY OperatorTypes DEF LoopsInv
<1>1. CASE NextOperator
  <2>1. next <= Len(Operators) /\ next' = next + 1 /\ at' = [at EXCEPT !.object = 1] /\ pc' \in {"objects", "failed"}
    BY <1>1 DEF NextOperator
  <2>2. at' \in At /\ at'.object = 1
    BY <1>0, <2>1
  <2>3. ReadInv' /\ FilesInv'
    BY ReadStep, <1>1, FilesStep, ListsFiles DEF Next, Lists
  <2>4. olm' \in Objects
    <3>1. next' - 1 \in 1..Len(Operators) /\ listed' \in Range(Operators)
      BY <1>0, <2>1, InRange DEF listed
    <3>2. text'[listed'] \in Texts
      BY <2>3, <3>1 DEF FilesInv
    <3> QED
      BY <2>1, <2>3, <3>2, DecodedObjects DEF ReadInv, Listing
  <2>5. Len(olm') \in Nat
    BY <2>4 DEF Objects
  <2> QED
    BY <1>0, <2>1, <2>2, <2>5 DEF LoopsInv, Listing
<1>2. CASE ListObject \/ ListChannel \/ ListEntry \/ ListSkip \/ EndEntry \/ EndChannel
  <2>0. Within
    BY <1>2, LoopSteps
  <2>1. next' = next /\ olm' = olm /\ pc \in Listing
    BY <2>0 DEF Within
  <2>2. olm \in Objects /\ Len(olm) \in Nat /\ next >= 2 /\ next <= Len(Operators) + 1
    BY <2>1, ListedWhere DEF Objects, LoopsInv
  <2>3. at.object <= Len(olm) => object.entries \in Entries /\ Len(object.entries) \in Nat
    <3> SUFFICES ASSUME at.object <= Len(olm) PROVE object.entries \in Entries /\ Len(object.entries) \in Nat
      OBVIOUS
    <3>1. object \in DeclarativeConfig
      BY <1>0, <2>2 DEF object, Objects
    <3> QED
      BY <3>1 DEF DeclarativeConfig, Entries
  <2>4. at.object <= Len(olm) /\ at.entry <= Len(object.entries) => Len(entry.skips) \in Nat
    <3> SUFFICES ASSUME at.object <= Len(olm), at.entry <= Len(object.entries) PROVE Len(entry.skips) \in Nat
      OBVIOUS
    <3>1. entry \in ChannelEntry
      BY <1>0, <2>3 DEF entry, Entries
    <3> QED
      BY <3>1 DEF ChannelEntry
  <2>5. CASE ListObject
    <3>1. pc' = "objects" /\ at.object <= Len(olm) /\ at' = [at EXCEPT !.object = @ + 1]
      BY <2>5 DEF ListObject
    <3>2. at' \in At /\ at'.object = at.object + 1
      BY <1>0, <3>1
    <3> QED
      BY <1>0, <2>1, <2>2, <3>1, <3>2 DEF LoopsInv, Listing
  <2>6. CASE ListChannel
    <3>1. /\ pc' = "entries" /\ at.object <= Len(olm) /\ at' = [at EXCEPT !.entry = 1]
          /\ object.schema = "olm.channel"
      BY <2>6 DEF ListChannel
    <3>2. at' \in At /\ at'.object = at.object /\ at'.entry = 1
      BY <1>0, <3>1
    <3>3. object' = object
      BY <2>1, <3>2 DEF object
    <3> QED
      BY <1>0, <2>1, <2>2, <2>3, <3>1, <3>2, <3>3 DEF LoopsInv, Listing
  <2>7. CASE ListEntry
    <3>1. /\ pc = "entries" /\ pc' = "skips" /\ at.entry <= Len(object.entries) /\ at' = [at EXCEPT !.skip = 1]
          /\ at.object <= Len(olm) /\ object.schema = "olm.channel"
      BY <2>7 DEF ListEntry, LoopsInv
    <3>2. at' \in At /\ at'.object = at.object /\ at'.entry = at.entry /\ at'.skip = 1
      BY <1>0, <3>1
    <3>3. object' = object /\ entry' = entry
      BY <2>1, <3>2 DEF object, entry
    <3> QED
      BY <1>0, <2>1, <2>2, <2>3, <2>4, <3>1, <3>2, <3>3 DEF LoopsInv, Listing
  <2>8. CASE ListSkip
    <3>1. /\ pc = "skips" /\ pc' = "skips" /\ at.skip <= Len(entry.skips) /\ at' = [at EXCEPT !.skip = @ + 1]
          /\ at.object <= Len(olm) /\ object.schema = "olm.channel" /\ at.entry <= Len(object.entries)
      BY <2>8 DEF ListSkip, LoopsInv
    <3>2. at' \in At /\ at'.object = at.object /\ at'.entry = at.entry /\ at'.skip = at.skip + 1
      BY <1>0, <3>1
    <3>3. object' = object /\ entry' = entry
      BY <2>1, <3>2 DEF object, entry
    <3> QED
      BY <1>0, <2>1, <2>2, <2>3, <2>4, <3>1, <3>2, <3>3 DEF LoopsInv, Listing
  <2>9. CASE EndEntry
    <3>1. /\ pc = "skips" /\ pc' = "entries" /\ at' = [at EXCEPT !.entry = @ + 1]
          /\ at.object <= Len(olm) /\ object.schema = "olm.channel" /\ at.entry <= Len(object.entries)
      BY <2>9 DEF EndEntry, LoopsInv
    <3>2. at' \in At /\ at'.object = at.object /\ at'.entry = at.entry + 1
      BY <1>0, <3>1
    <3>3. object' = object
      BY <2>1, <3>2 DEF object
    <3> QED
      BY <1>0, <2>1, <2>2, <2>3, <3>1, <3>2, <3>3 DEF LoopsInv, Listing
  <2>10. CASE EndChannel
    <3>1. /\ pc = "entries" /\ pc' = "objects" /\ at' = [at EXCEPT !.object = @ + 1] /\ at.object <= Len(olm)
      BY <2>10 DEF EndChannel, LoopsInv
    <3>2. at' \in At /\ at'.object = at.object + 1
      BY <1>0, <3>1
    <3> QED
      BY <1>0, <2>1, <2>2, <3>1, <3>2 DEF LoopsInv, Listing
  <2> QED
    BY <1>2, <2>5, <2>6, <2>7, <2>8, <2>9, <2>10
<1>3. CASE ListedAll \/ LogError \/ GetReleaseSchema \/ ListTag \/ Finished
  <2>1. CASE ListedAll
    BY <1>0, <2>1 DEF ListedAll, LoopsInv, Listing
  <2>2. CASE LogError
    BY <1>0, <2>2 DEF LogError, LoopsInv, Listing
  <2>3. CASE GetReleaseSchema \/ ListTag
    BY <1>0, <2>3 DEF GetReleaseSchema, ListTag, LoopsInv, Listing
  <2>4. CASE Finished
    BY <2>4 DEF Finished, vars, LoopsInv, object, entry, Listing
  <2> QED
    BY <1>3, <2>1, <2>2, <2>3, <2>4
<1>4. ASSUME NEW o \in Range(Operators), Rewritten(o) PROVE LoopsInv'
  BY <1>4 DEF Rewritten, LoopsInv, object, entry
<1> QED
  BY <1>1, <1>2, <1>3, <1>4, OtherRun DEF Next

-----------------------------------------------------------------------------
(* The lines *)

\* A line, and one more line.
LEMMA LineType ==
  ASSUME NEW kind \in LineKinds, NEW v \in Values, NEW lines \in Seq(Lines)
  PROVE  /\ Line(kind, v) \in Lines /\ Line(kind, v).kind = kind /\ Line(kind, v).value = v
         /\ Append(lines, Line(kind, v)) \in Seq(Lines)
         /\ kind # "component" /\ (\A k \in 1..Len(lines) : lines[k].kind # "component") =>
              \A k \in 1..Len(Append(lines, Line(kind, v))) : Append(lines, Line(kind, v))[k].kind # "component"
<1>1. Line(kind, v) \in Lines /\ Line(kind, v).kind = kind /\ Line(kind, v).value = v
  BY DEF Line, Lines
<1> DEFINE x == Line(kind, v)
<1> HIDE DEF x
<1>2. /\ Append(lines, x) \in Seq(Lines) /\ Len(Append(lines, x)) = Len(lines) + 1
      /\ \A i \in 1..Len(lines) : Append(lines, x)[i] = lines[i]
      /\ Append(lines, x)[Len(lines) + 1] = x
  BY <1>1, AppendProperties DEF x
<1>3. ASSUME kind # "component", \A k \in 1..Len(lines) : lines[k].kind # "component",
             NEW k \in 1..(Len(lines) + 1)
      PROVE  Append(lines, x)[k].kind # "component"
  <2>1. CASE k \in 1..Len(lines)
    BY <1>2, <1>3, <2>1
  <2>2. CASE k = Len(lines) + 1
    BY <1>1, <1>2, <1>3, <2>2 DEF x
  <2> QED
    BY <2>1, <2>2
<1> QED
  BY <1>1, <1>2, <1>3 DEF x

\* What Info adds, when it prints: nothing, a line or two.
LEMMA InfoLines ==
  ASSUME Prints, out \in Seq(Lines), NEW x \in Lines, NEW y \in Lines
  PROVE  /\ Info(<<>>) => out' = out
         /\ Info(<<x>>) => out' = Append(out, x)
         /\ Info(<<x>> \o <<>>) => out' = Append(out, x)
         /\ Info(<<x>> \o <<y>>) => out' = Append(Append(out, x), y)
<1>1. \A ls : Info(ls) => out' = out \o ls
  BY Zenon DEF Info
<1>2. out \o <<>> = out /\ out \o <<x>> = Append(out, x) /\ out \o (<<x>> \o <<>>) = Append(out, x)
  OBVIOUS
<1>3. out \o (<<x>> \o <<y>>) = Append(Append(out, x), y)
  OBVIOUS
<1> QED
  BY <1>1, <1>2, <1>3, Zenon

\* A listing is a reading.
LEMMA ShowingType ==
  ASSUME NEW o \in STRING, NEW objs \in Objects
  PROVE  Showing(o, objs) \in Reading
BY DEF Showing, Reading

\* What has been printed between two entries,
LEMMA SoFarEntries ==
  ASSUME NEW objs, NEW i, NEW j, NEW k
  PROVE  SoFar("entries", objs, i, j, k) =
           Append(Shown(Upto(objs, i - 1)), Channel(objs[i].name, Upto(objs[i].entries, j - 1)))
BY Zenon DEF SoFar

\* within an entry,
LEMMA SoFarSkips ==
  ASSUME NEW objs, NEW i, NEW j, NEW k
  PROVE  LET e == objs[i].entries[j]
         IN SoFar("skips", objs, i, j, k) =
              Append(Shown(Upto(objs, i - 1)), Channel(objs[i].name,
                Append(Upto(objs[i].entries, j - 1), Begun(e.name, e.replaces, Upto(e.skips, k - 1)))))
BY Zenon DEF SoFar

\* and between two objects.
LEMMA SoFarObjects ==
  ASSUME NEW p, NEW objs, NEW i, NEW j, NEW k, p \notin {"entries", "skips"}
  PROVE  SoFar(p, objs, i, j, k) = Shown(Upto(objs, i - 1))
BY Zenon DEF SoFar

\* The fields of an entry, changed one at a time.
LEMMA FieldAmended ==
  ASSUME NEW name, NEW replaces, NEW skips, NEW range, NEW v
  PROVE  /\ Replacing(Entry(name, replaces, skips, range), v) = Entry(name, v, skips, range)
         /\ Skipping(Entry(name, replaces, skips, range), v) = Entry(name, replaces, Append(skips, v), range)
         /\ Ranging(Entry(name, replaces, skips, range), v) = Entry(name, replaces, skips, v)
BY DEF Entry, Replacing, Skipping, Ranging

\* The same for an entry that has no range yet, none standing for the lack of one.
LEMMA BegunAmended ==
  ASSUME NEW name, NEW replaces, NEW skips, NEW v, NEW none,
         \A n, r, s : Begun(n, r, s) = Entry(n, r, s, none)
  PROVE  /\ Replacing(Begun(name, replaces, skips), v) = Begun(name, v, skips)
         /\ Skipping(Begun(name, replaces, skips), v) = Begun(name, replaces, Append(skips, v))
         /\ Ranging(Begun(name, replaces, skips), v) = Entry(name, replaces, skips, v)
<1>1. Replacing(Entry(name, replaces, skips, none), v) = Entry(name, v, skips, none)
  BY FieldAmended
<1>2. Skipping(Entry(name, replaces, skips, none), v) = Entry(name, replaces, Append(skips, v), none)
  BY FieldAmended
<1>3. Ranging(Entry(name, replaces, skips, none), v) = Entry(name, replaces, skips, v)
  BY FieldAmended
<1> QED
  BY <1>1, <1>2, <1>3, Zenon

\* What each line of an entry fills in.
LEMMA EntryAmended ==
  ASSUME NEW name, NEW replaces, NEW skips, NEW v
  PROVE  /\ Amends(Line("replaces", v), Begun(name, replaces, skips), Begun(name, v, skips))
         /\ Amends(Line("skips", v), Begun(name, replaces, skips), Begun(name, replaces, Append(skips, v)))
         /\ Amends(Line("skiprange", v), Begun(name, replaces, skips), Entry(name, replaces, skips, v))
<1>1. \A kind, x : Line(kind, x).kind = kind /\ Line(kind, x).value = x
  BY DEF Line
<1>2. \A n, r, s : Begun(n, r, s) = Entry(n, r, s, "")
  BY Zenon DEF Begun
<1>3. \A none : (\A n, r, s : Begun(n, r, s) = Entry(n, r, s, none)) =>
         /\ Replacing(Begun(name, replaces, skips), v) = Begun(name, v, skips)
         /\ Skipping(Begun(name, replaces, skips), v) = Begun(name, replaces, Append(skips, v))
         /\ Ranging(Begun(name, replaces, skips), v) = Entry(name, replaces, skips, v)
  <2> SUFFICES ASSUME NEW none, \A n, r, s : Begun(n, r, s) = Entry(n, r, s, none)
               PROVE  /\ Replacing(Begun(name, replaces, skips), v) = Begun(name, v, skips)
                      /\ Skipping(Begun(name, replaces, skips), v) = Begun(name, replaces, Append(skips, v))
                      /\ Ranging(Begun(name, replaces, skips), v) = Entry(name, replaces, skips, v)
    OBVIOUS
  <2>1. Begun(name, replaces, skips) = Entry(name, replaces, skips, none)
    OBVIOUS
  <2> QED
    BY BegunAmended, SMTT(30)
<1>4. /\ Replacing(Begun(name, replaces, skips), v) = Begun(name, v, skips)
      /\ Skipping(Begun(name, replaces, skips), v) = Begun(name, replaces, Append(skips, v))
      /\ Ranging(Begun(name, replaces, skips), v) = Entry(name, replaces, skips, v)
  BY <1>2, <1>3, Zenon
<1>5. \A x, z : Amends(Line("replaces", z), x, Replacing(x, z))
  BY <1>1, Zenon DEF Amends
<1>6. \A x, z : Amends(Line("skips", z), x, Skipping(x, z))
  BY <1>1, Zenon DEF Amends
<1>7. \A x, z : Amends(Line("skiprange", z), x, Ranging(x, z))
  BY <1>1, Zenon DEF Amends
<1>8. Amends(Line("replaces", v), Begun(name, replaces, skips), Begun(name, v, skips))
  BY <1>4, <1>5
<1>9. Amends(Line("skips", v), Begun(name, replaces, skips), Begun(name, replaces, Append(skips, v)))
  BY <1>4, <1>6
<1>10. Amends(Line("skiprange", v), Begun(name, replaces, skips), Entry(name, replaces, skips, v))
  BY <1>4, <1>7
<1> QED
  BY <1>8, <1>9, <1>10, Zenon

\* An entry has its type,
LEMMA EntryType ==
  ASSUME NEW name \in Strings, NEW replaces \in Strings, NEW skips \in Seq(Strings), NEW range \in Strings
  PROVE  Entry(name, replaces, skips, range) \in ChannelEntry
BY DEF Entry, ChannelEntry

\* also without a range,
LEMMA BegunType ==
  ASSUME NEW name \in Strings, NEW replaces \in Strings, NEW skips \in Seq(Strings)
  PROVE  Begun(name, replaces, skips) \in ChannelEntry
<1>1. \A range \in Strings : Entry(name, replaces, skips, range) \in ChannelEntry
  BY EntryType
<1>2. "" \in Strings
  BY CatalogAssumption, Zenon
<1> QED
  BY <1>1, <1>2, Zenon DEF Begun

\* and so has a channel.
LEMMA ChannelType ==
  ASSUME NEW name \in Strings, NEW entries \in Entries
  PROVE  Channel(name, entries) \in DeclarativeConfig
BY DEF Channel, DeclarativeConfig, Entries

\* An ended listing stays as the files have been when it was made, or nobody
\* claims anything of it any more.
LEMMA EndedStays ==
  ASSUME NEW r, NEW o, NEW t, NEW w, NEW c, NEW ww, NEW cc,
         cc = 0 => c = 0 /\ ww = w, Ended(r, o, t, w, c)
  PROVE  Ended(r, o, t, ww, cc)
BY Zenon DEF Ended

-----------------------------------------------------------------------------
(* Release *)

\* Every step keeps the components of a release in order.
LEMMA ReleaseStep ==
  ASSUME LoopsInv, Prints, out \in Seq(Lines), ReleaseLines, Next
  PROVE  out' \in Seq(Lines) /\ ReleaseLines'
<1>0. Len(Tags) \in Nat /\ Tags \in Seq(STRING) /\ next \in Nat \ {0}
  BY OperatorTypes DEF LoopsInv
<1>1. CASE ListTag
  <2> DEFINE line == Line("component", Tags[next])
  <2>1. next <= Len(Tags) /\ next' = next + 1 /\ pc = "tags" /\ pc' = pc /\ Info(<<line>>)
    BY <1>1 DEF ListTag
  <2>2. Tags[next] \in Values
    BY <1>0, <2>1 DEF Values
  <2>3. line \in Lines /\ line.kind = "component" /\ Append(out, line) \in Seq(Lines)
    BY <2>2, LineType DEF LineKinds
  <2>4. out' = Append(out, line)
    BY <2>1, <2>3, InfoLines
  <2>5. Components \in Seq(Lines) /\ Len(Components) = Len(Tags) /\ Components[next] = line
    <3>1. \A i \in 1..Len(Tags) : Line("component", Tags[i]) \in Lines
      <4> SUFFICES ASSUME NEW i \in 1..Len(Tags) PROVE Line("component", Tags[i]) \in Lines
        OBVIOUS
      <4>1. Tags[i] \in Values
        BY <1>0 DEF Values
      <4> QED
        BY <4>1, LineType DEF LineKinds
    <3> QED
      BY <1>0, <2>1, <3>1 DEF Components
  <2>6. Upto(Components, next) = Append(Upto(Components, next - 1), line)
    <3>1. next - 1 \in 0..Len(Components) /\ next - 1 < Len(Components) /\ (next - 1) + 1 = next
      BY <1>0, <2>1, <2>5
    <3> HIDE DEF line
    <3> QED
      BY <2>5, <3>1, UptoStep, SMTT(30)
  <2>7. Understand(out') = <<>>
    BY <2>3, <2>4, UnderstandAppend, HeardComponent DEF ReleaseLines
  <2>8. out' = Upto(Components, next' - 1)
    BY <1>0, <2>1, <2>4, <2>6 DEF ReleaseLines
  <2>9. next' <= Len(Tags) + 1 /\ pc' = "tags" /\ pc' # "done"
    BY <1>0, <2>1
  <2>10. out' \in Seq(Lines)
    BY <2>3, <2>4
  <2> QED
    BY <2>7, <2>8, <2>9, <2>10 DEF ReleaseLines, Components
<1>2. CASE ListedAll \/ GetReleaseSchema \/ Finished
  <2>1. UNCHANGED <<next, out>> /\ pc' \in {"schema", "tags", "error", "done"} /\ (pc' = "done" /\ pc # "done" => next > Len(Tags))
    BY <1>2 DEF ListedAll, GetReleaseSchema, Finished, ReleaseLines, vars
  <2> QED
    BY <1>0, <2>1 DEF ReleaseLines, Components
<1>3. CASE \E o \in Range(Operators) : Create(o) \/ Grow(o)
  <2>1. UNCHANGED <<pc, next, out>>
    BY <1>3, Zenon DEF Create, Grow
  <2> QED
    BY <2>1 DEF ReleaseLines, Components
<1> QED
  BY <1>1, <1>2, <1>3 DEF Next, ReleaseLines, NextOperator, LogError, ListObject, ListChannel, ListEntry,
       ListSkip, EndEntry, EndChannel

-----------------------------------------------------------------------------
(* The listing of one operator *)

NoComponent(lines) == \A k \in 1..Len(lines) : lines[k].kind # "component"

\* A changed last listing leaves the others alone.
LEMMA RevisedSeq ==
  ASSUME NEW read \in Seq(Reading), Len(read) # 0, NEW r \in Reading
  PROVE  /\ Revised(read, r) \in Seq(Reading) /\ Len(Revised(read, r)) = Len(read)
         /\ Revised(read, r)[Len(read)] = r
         /\ \A i \in 1..Len(read) : i # Len(read) => Revised(read, r)[i] = read[i]
BY ExceptSeq DEF Revised

\* A change to what it is already is none.
LEMMA RevisedSame ==
  ASSUME NEW read \in Seq(Reading), Len(read) # 0
  PROVE  Revised(read, read[Len(read)]) = read
BY DEF Revised

\* Of two changes the last one counts.
LEMMA RevisedTwice ==
  ASSUME NEW read \in Seq(Reading), Len(read) # 0, NEW r \in Reading, NEW x \in Reading
  PROVE  Revised(Revised(read, r), x) = Revised(read, x)
<1> DEFINE a == Revised(read, r)
           b == Revised(a, x)
           c == Revised(read, x)
<1>1. /\ a \in Seq(Reading) /\ Len(a) = Len(read)
      /\ \A i \in 1..Len(read) : i # Len(read) => a[i] = read[i]
  BY RevisedSeq
<1>2. /\ c \in Seq(Reading) /\ Len(c) = Len(read) /\ c[Len(read)] = x
      /\ \A i \in 1..Len(read) : i # Len(read) => c[i] = read[i]
  BY RevisedSeq
<1> HIDE DEF a, c
<1>3. /\ b \in Seq(Reading) /\ Len(b) = Len(read) /\ b[Len(read)] = x
      /\ \A i \in 1..Len(read) : i # Len(read) => b[i] = a[i]
  <2>1. Len(a) # 0
    BY <1>1
  <2>2. /\ b \in Seq(Reading) /\ Len(b) = Len(a) /\ b[Len(a)] = x
        /\ \A i \in 1..Len(a) : i # Len(a) => b[i] = a[i]
    BY <1>1, <2>1, RevisedSeq
  <2> QED
    BY <1>1, <2>2, Zenon
<1> HIDE DEF b
<1>4. b = c
  BY <1>1, <1>2, <1>3, SeqEqual
<1> QED
  BY <1>4 DEF a, b, c

\* The lines after a step within a listing: what has been understood ends with
\* what has been printed so far, and nothing before it changes.
LEMMA CurrentLines ==
  ASSUME LoopsInv, OperatorLines, Within,
         out' \in Seq(Lines), NoComponent(out'),
         NEW objs \in Objects, objs = SoFar(pc', olm', at'.object, at'.entry, at'.skip),
         listed \in STRING,
         Understand(out') = Revised(Understand(out), Showing(listed, objs))
  PROVE  OperatorLines'
<1> DEFINE read == Understand(out)
           more == Understand(out')
           n    == next - 1
<1>1. /\ read \in Seq(Reading) /\ Len(read) = n /\ n \in 1..Len(read) /\ n \in Nat
      /\ pc \in Listing /\ pc' \in Listing /\ pc # "done" /\ pc' # "done"
      /\ UNCHANGED <<text, written, creates, next>>
  BY DEF LoopsInv, OperatorLines, Within, Listing
<1>2. more = Revised(read, Showing(listed, objs))
  OBVIOUS
<1> HIDE DEF read, more
<1>3. Showing(listed, objs) \in Reading
  BY ShowingType
<1>4. /\ more \in Seq(Reading) /\ Len(more) = n /\ more[n] = Showing(listed, objs)
      /\ \A i \in 1..n : i # n => more[i] = read[i]
  <2>1. Len(read) # 0
    BY <1>1
  <2>2. /\ more \in Seq(Reading) /\ Len(more) = Len(read) /\ more[Len(read)] = Showing(listed, objs)
        /\ \A i \in 1..Len(read) : i # Len(read) => more[i] = read[i]
    BY <1>1, <1>2, <1>3, <2>1, RevisedSeq
  <2> QED
    BY <1>1, <2>2, Zenon
<1>5. Current' = Showing(listed, objs)
  BY <1>1 DEF Current, listed
<1>6. \A i \in 1..n : i # n => LET o == Operators[i] IN Ended(more[i], o, text[o], written[o], creates[o])
  BY <1>1, <1>4, Zenon DEF OperatorLines, read
<1>7. more \in Seq(Reading) /\ Len(more) = next' - 1 /\ more[next' - 1] = Current'
  BY <1>1, <1>4, <1>5
<1>8. \A i \in 1..(next' - 1) : LET o == Operators[i] IN
         (i = next' - 1 /\ pc' \in Listing) \/ Ended(more[i], o, text'[o], written'[o], creates'[o])
  BY <1>1, <1>6, Zenon
<1> QED
  BY <1>1, <1>7, <1>8, Zenon DEF OperatorLines, NoComponent, more

\* The terminal after lines that make of the current listing objs.
Printed(objs) ==
  /\ out' \in Seq(Lines) /\ NoComponent(out')
  /\ Understand(out') = Revised(Understand(out), Showing(listed, objs))

\* One more line, and what it says.
LEMMA LineAdded ==
  ASSUME NEW lines \in Seq(Lines), NoComponent(lines), NEW kind \in LineKinds \ {"component"}, NEW v \in Values
  PROVE  /\ Line(kind, v) \in Lines /\ Line(kind, v).kind = kind /\ Line(kind, v).value = v
         /\ Append(lines, Line(kind, v)) \in Seq(Lines)
         /\ NoComponent(Append(lines, Line(kind, v)))
         /\ Understand(Append(lines, Line(kind, v))) = Heard(Understand(lines), Line(kind, v))
<1>1. /\ Line(kind, v) \in Lines /\ Line(kind, v).kind = kind /\ Line(kind, v).value = v
      /\ Append(lines, Line(kind, v)) \in Seq(Lines)
      /\ NoComponent(Append(lines, Line(kind, v)))
  BY LineType DEF NoComponent
<1>2. Understand(Append(lines, Line(kind, v))) = Heard(Understand(lines), Line(kind, v))
  BY <1>1, UnderstandAppend
<1> QED
  BY <1>1, <1>2, Zenon

\* A line that makes objs of the current listing.
LEMMA PrintedLine ==
  ASSUME out \in Seq(Lines), NoComponent(out),
         NEW kind \in LineKinds \ {"component"}, NEW v \in Values, NEW objs,
         out' = Append(out, Line(kind, v)),
         Heard(Understand(out), Line(kind, v)) = Revised(Understand(out), Showing(listed, objs))
  PROVE  Printed(objs)
BY LineAdded, Zenon DEF Printed

\* No line, when the current listing has objs already.
LEMMA PrintedNothing ==
  ASSUME out \in Seq(Lines), NoComponent(out),
         Understand(out) \in Seq(Reading), Len(Understand(out)) # 0, NEW objs, out' = out,
         Understand(out)[Len(Understand(out))] = Showing(listed, objs)
  PROVE  Printed(objs)
<1>1. Revised(Understand(out), Understand(out)[Len(Understand(out))]) = Understand(out)
  BY RevisedSame
<1> QED
  BY <1>1, Zenon DEF Printed

\* The steps of ListCatalogs print what the loops pass.
LEMMA WithinStep ==
  ASSUME FilesInv, ReadInv, LoopsInv, Prints, out \in Seq(Lines), OperatorLines,
         ListObject \/ ListChannel \/ ListEntry \/ ListSkip \/ EndEntry \/ EndChannel
  PROVE  out' \in Seq(Lines) /\ OperatorLines'
<1> DEFINE read == Understand(out)
           i == at.object
           j == at.entry
           k == at.skip
           B == Shown(Upto(olm, i - 1))
           E == Upto(object.entries, j - 1)
           c == object.name
           e == Begun(entry.name, entry.replaces, Upto(entry.skips, k - 1))
           now == SoFar(pc, olm, i, j, k)
           so == SoFar(pc', olm', at'.object, at'.entry, at'.skip)
<1>1. /\ Within /\ pc \in Listing \ {"failed"} /\ pc' \in Listing \ {"failed"} /\ listed \in STRING
      /\ olm' = olm /\ olm \in Objects /\ read \in Seq(Reading) /\ Len(read) # 0
      /\ read[Len(read)] = Showing(listed, now)
      /\ NoComponent(out)
  BY LoopSteps, ListedWhere DEF Within, OperatorLines, LoopsInv, Current, NoComponent
<1>2. i \in 1..(Len(olm) + 1) /\ j \in Nat \ {0} /\ k \in Nat \ {0} /\ Len(olm) \in Nat
  BY <1>1 DEF LoopsInv, Objects
<1>3. B \in Objects /\ (i <= Len(olm) => Shown(Upto(olm, (i + 1) - 1)) = Shows(B, object))
  <2>1. i - 1 \in 0..Len(olm)
    BY <1>2
  <2>2. ASSUME i <= Len(olm) PROVE Shown(Upto(olm, (i + 1) - 1)) = Shows(B, object)
    <3>1. i - 1 \in 0..(Len(olm) - 1) /\ (i - 1) + 1 = i /\ (i + 1) - 1 = i
      BY <1>2, <2>2
    <3>2. Shown(Upto(olm, (i - 1) + 1)) = Shows(B, olm[(i - 1) + 1])
      BY <1>1, <3>1, ShownStep
    <3> QED
      BY <3>1, <3>2, Zenon DEF object
  <2> QED
    BY <1>1, <2>1, <2>2, ShownObjects
<1>4. i <= Len(olm) => object \in DeclarativeConfig /\ object.entries \in Entries /\ c \in Strings
  <2> SUFFICES ASSUME i <= Len(olm) PROVE object \in DeclarativeConfig /\ object.entries \in Entries /\ c \in Strings
    OBVIOUS
  <2>1. object \in DeclarativeConfig
    BY <1>1, <1>2 DEF object, Objects
  <2> QED
    BY <2>1 DEF DeclarativeConfig, Entries
<1>5. ASSUME i <= Len(olm), j <= Len(object.entries)
      PROVE  /\ entry \in ChannelEntry /\ E \in Entries /\ Upto(object.entries, (j + 1) - 1) = Append(E, entry)
             /\ entry.name \in Strings /\ entry.replaces \in Strings /\ entry.skips \in Seq(Strings)
             /\ entry.skipRange \in Strings
  <2>1. j - 1 \in 0..Len(object.entries) /\ j - 1 < Len(object.entries) /\ (j - 1) + 1 = j /\ (j + 1) - 1 = j
    BY <1>2, <1>4, <1>5 DEF Entries
  <2>2. entry \in ChannelEntry
    BY <1>4, <1>5, <2>1 DEF entry, Entries
  <2>3. E \in Entries /\ Upto(object.entries, (j - 1) + 1) = Append(E, object.entries[(j - 1) + 1])
    BY <1>4, <1>5, <2>1, UptoStep DEF Entries
  <2>4. Upto(object.entries, (j + 1) - 1) = Append(E, entry)
    BY <2>1, <2>3, Zenon DEF entry
  <2> QED
    BY <2>2, <2>3, <2>4 DEF ChannelEntry
<1>6. \A r, n, s : r \in Strings /\ n \in Strings /\ s \in Seq(Strings) => Begun(n, r, s) \in ChannelEntry
  BY BegunType
<1>7. "" \in Strings /\ <<>> \in Seq(Strings)
  BY CatalogAssumption, EmptySeq, Zenon
<1>8. \A x \in ChannelEntry : i <= Len(olm) /\ j <= Len(object.entries) =>
        Append(B, Channel(c, Append(E, x))) \in Objects
  <2> SUFFICES ASSUME NEW x \in ChannelEntry, i <= Len(olm), j <= Len(object.entries)
               PROVE  Append(B, Channel(c, Append(E, x))) \in Objects
    OBVIOUS
  <2>1. Append(E, x) \in Entries
    BY <1>5, AppendProperties DEF Entries
  <2>2. Channel(c, Append(E, x)) \in DeclarativeConfig
    BY <1>4, <2>1, ChannelType
  <2> QED
    BY <1>3, <2>2, AppendProperties DEF Objects
<1>9. /\ pc = "objects" => now = B
      /\ pc = "entries" => now = Append(B, Channel(c, E))
      /\ pc = "skips" => now = Append(B, Channel(c, Append(E, e)))
  BY Zenon DEF SoFar, object, entry
<1>10. so \in Objects /\ Printed(so)
  <2>1. CASE ListObject
    <3>1. /\ pc = "objects" /\ pc' = "objects" /\ i <= Len(olm) /\ object.schema # "olm.channel"
          /\ at' = [at EXCEPT !.object = @ + 1]
          /\ Info(IF object.schema = "olm.bundle" THEN <<Line("bundle", c)>> ELSE <<>>)
      BY <2>1 DEF ListObject
    <3>2. at'.object = i + 1
      BY <3>1 DEF LoopsInv
    <3>3. so = Shows(B, object)
      <4>1. so = SoFar("objects", olm, i + 1, at'.entry, at'.skip)
        BY <1>1, <3>1, <3>2, Zenon
      <4>2. SoFar("objects", olm, i + 1, at'.entry, at'.skip) = Shown(Upto(olm, (i + 1) - 1))
        BY SoFarObjects, Zenon
      <4> QED
        BY <1>3, <3>1, <4>1, <4>2, Zenon
    <3>4. read[Len(read)] = Showing(listed, B)
      BY <1>1, <1>9, <3>1, Zenon
    <3>5. CASE object.schema = "olm.bundle"
      <4> DEFINE line == Line("bundle", c)
      <4>1. c \in Values /\ "bundle" \in LineKinds \ {"component"}
        BY <1>4, <3>1 DEF Values, LineKinds
      <4>2. line \in Lines /\ line.kind = "bundle" /\ line.value = c
        BY <1>1, <4>1, LineAdded
      <4>3. out' = Append(out, line)
        <5>1. Info(<<line>>)
          BY <3>1, <3>5, Zenon
        <5> QED
          BY <5>1, <4>2, InfoLines
      <4>4. so = Append(B, Bundle(c))
        BY <1>4, <3>1, <3>3, <3>5, ShowsObject
      <4>5. Heard(read, line) = Revised(read, Showing(listed, Append(B, Bundle(c))))
        BY <3>4, <4>2, HeardBundle, Zenon
      <4>6. so \in Objects
        BY <1>3, <1>4, <3>1, <3>3, ShowsGrows
      <4> HIDE DEF so
      <4>7. Printed(so)
        BY <1>1, <4>1, <4>3, <4>4, <4>5, PrintedLine, Zenon
      <4> QED
        BY <4>6, <4>7
    <3>6. CASE object.schema # "olm.bundle"
      <4>1. out' = out
        <5>1. Info(<<>>)
          BY <3>1, <3>6, Zenon
        <5>2. out \o <<>> = out
          OBVIOUS
        <5> QED
          BY <5>1, <5>2, Zenon DEF Info
      <4>2. so = B
        BY <1>4, <3>1, <3>3, <3>6, ShowsObject
      <4> HIDE DEF so
      <4> QED
        BY <1>1, <1>3, <3>4, <4>1, <4>2, PrintedNothing
    <3> QED
      BY <3>5, <3>6
  <2>2. CASE ListChannel
    <3>1. /\ pc = "objects" /\ pc' = "entries" /\ i <= Len(olm)
          /\ at' = [at EXCEPT !.entry = 1] /\ Info(<<Line("channel", c)>>)
      BY <2>2 DEF ListChannel
    <3>2. at'.object = i /\ at'.entry = 1
      BY <3>1 DEF LoopsInv
    <3>3. so = Append(B, Channel(c, <<>>))
      <4>1. so = SoFar("entries", olm, i, 1, at'.skip)
        BY <1>1, <3>1, <3>2, Zenon
      <4>2. SoFar("entries", olm, i, 1, at'.skip) = Append(B, Channel(c, Upto(object.entries, 1 - 1)))
        BY SoFarEntries, Zenon DEF object
      <4>3. Upto(object.entries, 1 - 1) = <<>>
        BY <1>4, <3>1, UptoStep DEF Entries
      <4> QED
        BY <4>1, <4>2, <4>3, Zenon
    <3>4. read[Len(read)] = Showing(listed, B)
      BY <1>1, <1>9, <3>1, Zenon
    <3> DEFINE line == Line("channel", c)
    <3>5. c \in Values /\ "channel" \in LineKinds \ {"component"}
      BY <1>4, <3>1 DEF Values, LineKinds
    <3>6. line \in Lines /\ line.kind = "channel" /\ line.value = c
      BY <1>1, <3>5, LineAdded
    <3>7. out' = Append(out, line)
      BY <3>1, <3>6, InfoLines
    <3>8. Heard(read, line) = Revised(read, Showing(listed, Append(B, Channel(c, <<>>))))
      BY <3>4, <3>6, HeardChannel, Zenon
    <3>9. Append(B, Channel(c, <<>>)) \in Objects
      <4>1. Channel(c, <<>>) \in DeclarativeConfig
        BY <1>4, <3>1, ChannelType, EmptySeq DEF Entries
      <4> QED
        BY <1>3, <4>1, AppendProperties DEF Objects
    <3> HIDE DEF so
    <3> QED
      BY <1>1, <3>3, <3>5, <3>7, <3>8, <3>9, PrintedLine, Zenon
  <2>3. CASE ListEntry
    <3> DEFINE first  == Line("name", entry.name)
               second == Line("replaces", entry.replaces)
               begun  == Fresh(entry.name)
               full   == Begun(entry.name, entry.replaces, <<>>)
               X      == Append(B, Channel(c, Append(E, begun)))
               Y      == Append(B, Channel(c, Append(E, full)))
    <3>0. i <= Len(olm) /\ j <= Len(object.entries)
      BY <2>3 DEF ListEntry, LoopsInv
    <3>1. /\ pc = "entries" /\ pc' = "skips" /\ at' = [at EXCEPT !.skip = 1]
          /\ Info(<<first>> \o Given("replaces", entry.replaces))
      BY <2>3 DEF ListEntry
    <3>a. /\ c \in Strings /\ E \in Entries /\ entry.name \in Strings /\ entry.replaces \in Strings
          /\ entry.skips \in Seq(Strings)
      BY <1>4, <1>5, <3>0, Zenon
    <3>2. at'.object = i /\ at'.entry = j /\ at'.skip = 1
      BY <3>1 DEF LoopsInv
    <3>3. so = Y
      <4>1. so = SoFar("skips", olm, i, j, 1)
        BY <1>1, <3>1, <3>2, Zenon
      <4>2. SoFar("skips", olm, i, j, 1)
              = Append(B, Channel(c, Append(E, Begun(entry.name, entry.replaces, Upto(entry.skips, 1 - 1)))))
        BY Zenon DEF SoFar, object, entry
      <4>3. Upto(entry.skips, 1 - 1) = <<>>
        BY <3>a, UptoStep
      <4> QED
        BY <4>1, <4>2, <4>3, Zenon
    <3>4. read[Len(read)] = Showing(listed, Append(B, Channel(c, E)))
      BY <1>1, <1>9, <3>1, Zenon
    <3>5. /\ entry.name \in Values /\ entry.replaces \in Values
          /\ "name" \in LineKinds \ {"component"} /\ "replaces" \in LineKinds \ {"component"}
      BY <3>a DEF Values, LineKinds
    <3>6. /\ first \in Lines /\ first.kind = "name" /\ first.value = entry.name
          /\ Append(out, first) \in Seq(Lines) /\ NoComponent(Append(out, first))
          /\ Understand(Append(out, first)) = Heard(read, first)
      BY <1>1, <3>5, LineAdded
    <3>7. /\ second \in Lines
          /\ Append(Append(out, first), second) \in Seq(Lines) /\ NoComponent(Append(Append(out, first), second))
          /\ Understand(Append(Append(out, first), second)) = Heard(Understand(Append(out, first)), second)
      <4> DEFINE lines == Append(out, first)
      <4> HIDE DEF lines
      <4>1. \A kind \in LineKinds \ {"component"}, v \in Values :
              /\ Line(kind, v) \in Lines
              /\ Append(lines, Line(kind, v)) \in Seq(Lines) /\ NoComponent(Append(lines, Line(kind, v)))
              /\ Understand(Append(lines, Line(kind, v))) = Heard(Understand(lines), Line(kind, v))
        <5>1. lines \in Seq(Lines) /\ NoComponent(lines)
          BY <3>6, Zenon DEF lines
        <5> QED
          BY <5>1, LineAdded
      <4> QED
        BY <3>5, <4>1, Zenon DEF lines
    <3>8. Heard(read, first) = Revised(read, Showing(listed, X))
      <4> HIDE DEF read, first, B, E
      <4>1. Names(first) /\ first.value = entry.name
        BY <3>6, Zenon DEF Names
      <4> QED
        BY <1>3, <3>a, <3>4, <4>1, HeardName
    <3>9. begun \in ChannelEntry /\ full \in ChannelEntry /\ X \in Objects /\ Y \in Objects
      BY <1>6, <1>7, <1>8, <3>0, <3>a, Zenon DEF Fresh
    <3>10. CASE entry.replaces = ""
      <4>1. out' = Append(out, first)
        <5>1. Info(<<first>> \o <<>>)
          BY <3>1, <3>10, Zenon DEF Given
        <5> QED
          BY <5>1, <3>6, InfoLines
      <4>2. X = Y
        BY <3>10, Zenon DEF Fresh
      <4> HIDE DEF so
      <4> QED
        BY <3>3, <3>6, <3>8, <3>9, <4>1, <4>2, Zenon DEF Printed
    <3>11. CASE entry.replaces # ""
      <4>1. out' = Append(Append(out, first), second)
        <5>1. Info(<<first>> \o <<second>>)
          BY <3>1, <3>11, Zenon DEF Given
        <5> QED
          BY <5>1, <3>6, <3>7, InfoLines
      <4> DEFINE middle == Revised(read, Showing(listed, X))
      <4>2. Showing(listed, X) \in Reading /\ Showing(listed, Y) \in Reading
        BY <1>1, <3>9, ShowingType, Zenon
      <4>3. middle[Len(middle)] = Showing(listed, X)
        <5>1. Len(middle) = Len(read) /\ middle[Len(read)] = Showing(listed, X)
          BY <1>1, <4>2, RevisedSeq, Zenon
        <5> QED
          BY <5>1, Zenon
      <4>4. Amends(second, begun, full)
        BY EntryAmended, Zenon DEF Fresh
      <4>5. Heard(middle, second) = Revised(middle, Showing(listed, Y))
        <5> HIDE DEF middle, second, begun, full, B, E
        <5> QED
          BY <1>3, <3>a, <3>9, <4>3, <4>4, HeardEntry
      <4>6. Revised(middle, Showing(listed, Y)) = Revised(read, Showing(listed, Y))
        BY <1>1, <4>2, RevisedTwice, Zenon
      <4> HIDE DEF so
      <4> QED
        BY <3>3, <3>7, <3>6, <3>8, <3>9, <4>1, <4>5, <4>6, Zenon DEF Printed
    <3> QED
      BY <3>10, <3>11
  <2>4. CASE ListSkip
    <3> DEFINE v == entry.skips[k]
               more == Begun(entry.name, entry.replaces, Append(Upto(entry.skips, k - 1), v))
               Y == Append(B, Channel(c, Append(E, more)))
               line == Line("skips", v)
    <3>0. i <= Len(olm) /\ j <= Len(object.entries) /\ k <= Len(entry.skips)
      BY <2>4 DEF ListSkip, LoopsInv
    <3>1. pc = "skips" /\ pc' = "skips" /\ at' = [at EXCEPT !.skip = @ + 1] /\ Info(<<line>>)
      BY <2>4 DEF ListSkip
    <3>a. /\ c \in Strings /\ E \in Entries /\ entry.name \in Strings /\ entry.replaces \in Strings
          /\ entry.skips \in Seq(Strings)
      BY <1>4, <1>5, <3>0, Zenon
    <3>2. at'.object = i /\ at'.entry = j /\ at'.skip = k + 1
      BY <3>1 DEF LoopsInv
    <3>3. /\ Upto(entry.skips, (k + 1) - 1) = Append(Upto(entry.skips, k - 1), v) /\ v \in Strings
          /\ Upto(entry.skips, k - 1) \in Seq(Strings) /\ Append(Upto(entry.skips, k - 1), v) \in Seq(Strings)
      <4>1. k - 1 \in 0..Len(entry.skips) /\ k - 1 < Len(entry.skips) /\ (k - 1) + 1 = k /\ (k + 1) - 1 = k
        BY <1>2, <3>0, <3>a
      <4>2. v \in Strings /\ entry.skips \in Seq(Strings)
        BY <1>2, <3>0, <3>a
      <4>3. Upto(entry.skips, k - 1) \in Seq(Strings) /\ Upto(entry.skips, (k - 1) + 1) = Append(Upto(entry.skips, k - 1), entry.skips[(k - 1) + 1])
        BY <4>1, <4>2, UptoStep
      <4>4. Append(Upto(entry.skips, k - 1), v) \in Seq(Strings)
        BY <4>2, <4>3, AppendProperties
      <4> QED
        BY <4>1, <4>2, <4>3, <4>4, Zenon
    <3>4. so = Y
      <4>1. so = SoFar("skips", olm, i, j, k + 1)
        BY <1>1, <3>1, <3>2, Zenon
      <4>2. SoFar("skips", olm, i, j, k + 1)
              = Append(B, Channel(c, Append(E, Begun(entry.name, entry.replaces, Upto(entry.skips, (k + 1) - 1)))))
        BY Zenon DEF SoFar, object, entry
      <4> QED
        BY <3>3, <4>1, <4>2, Zenon
    <3>5. read[Len(read)] = Showing(listed, Append(B, Channel(c, Append(E, e))))
      BY <1>1, <1>9, <3>1, Zenon
    <3>6. v \in Values /\ "skips" \in LineKinds \ {"component"}
      BY <3>3 DEF Values, LineKinds
    <3>7. line \in Lines
      BY <1>1, <3>6, LineAdded, Zenon
    <3>8. out' = Append(out, line)
      BY <3>1, <3>7, InfoLines
    <3>9. e \in ChannelEntry /\ more \in ChannelEntry /\ Y \in Objects
      BY <1>6, <1>8, <3>0, <3>a, <3>3, Zenon
    <3>10. Amends(line, e, more)
      BY EntryAmended, Zenon
    <3>11. Heard(read, line) = Revised(read, Showing(listed, Y))
      <4> HIDE DEF read, line, e, more, B, E
      <4> QED
        BY <1>3, <3>a, <3>5, <3>9, <3>10, HeardEntry
    <3> HIDE DEF so
    <3> QED
      BY <1>1, <3>4, <3>6, <3>8, <3>9, <3>11, PrintedLine, Zenon
  <2>5. CASE EndEntry
    <3> DEFINE Y == Append(B, Channel(c, Append(E, entry)))
               line == Line("skiprange", entry.skipRange)
    <3>0. /\ i <= Len(olm) /\ j <= Len(object.entries)
          /\ k > Len(entry.skips) /\ k <= Len(entry.skips) + 1
      BY <2>5 DEF EndEntry, LoopsInv
    <3>1. /\ pc = "skips" /\ pc' = "entries"
          /\ at' = [at EXCEPT !.entry = @ + 1] /\ Info(Given("skiprange", entry.skipRange))
      BY <2>5 DEF EndEntry
    <3>a. /\ c \in Strings /\ E \in Entries /\ entry.name \in Strings /\ entry.replaces \in Strings
          /\ entry.skips \in Seq(Strings) /\ entry.skipRange \in Strings /\ entry \in ChannelEntry
          /\ Upto(object.entries, (j + 1) - 1) = Append(E, entry)
      BY <1>4, <1>5, <3>0, Zenon
    <3>2. at'.object = i /\ at'.entry = j + 1
      BY <3>1 DEF LoopsInv
    <3>3. so = Y
      <4>1. so = SoFar("entries", olm, i, j + 1, at'.skip)
        BY <1>1, <3>1, <3>2, Zenon
      <4>2. SoFar("entries", olm, i, j + 1, at'.skip) = Append(B, Channel(c, Upto(object.entries, (j + 1) - 1)))
        BY SoFarEntries, Zenon DEF object
      <4> QED
        BY <3>a, <4>1, <4>2, Zenon
    <3>4. e = Begun(entry.name, entry.replaces, entry.skips)
      <4>1. k - 1 = Len(entry.skips)
        <5>1. Len(entry.skips) \in Nat
          BY <3>a
        <5> QED
          BY <1>2, <3>0, <5>1
      <4>2. Upto(entry.skips, Len(entry.skips)) = entry.skips
        BY <3>a, UptoStep
      <4> QED
        BY <4>1, <4>2, Zenon
    <3>5. entry = Entry(entry.name, entry.replaces, entry.skips, entry.skipRange)
      BY <3>a DEF ChannelEntry, Entry
    <3>6. read[Len(read)] = Showing(listed, Append(B, Channel(c, Append(E, e))))
      BY <1>1, <1>9, <3>1, Zenon
    <3>7. Y \in Objects
      BY <1>8, <3>0, <3>a, Zenon
    <3>8. CASE entry.skipRange = ""
      <4>1. out' = out
        <5>1. Info(<<>>)
          BY <3>1, <3>8, Zenon DEF Given
        <5>2. out \o <<>> = out
          OBVIOUS
        <5> QED
          BY <5>1, <5>2, Zenon DEF Info
      <4>2. e = entry
        BY <3>4, <3>5, <3>8, Zenon DEF Begun
      <4>3. read[Len(read)] = Showing(listed, Y)
        BY <3>6, <4>2, Zenon
      <4> HIDE DEF so
      <4> QED
        BY <1>1, <3>3, <3>7, <4>1, <4>3, PrintedNothing, Zenon
    <3>9. CASE entry.skipRange # ""
      <4>1. entry.skipRange \in Values /\ "skiprange" \in LineKinds \ {"component"}
        BY <3>a DEF Values, LineKinds
      <4>2. line \in Lines
        BY <1>1, <4>1, LineAdded, Zenon
      <4>3. out' = Append(out, line)
        <5>1. Info(<<line>>)
          BY <3>1, <3>9, Zenon DEF Given
        <5> QED
          BY <5>1, <4>2, InfoLines
      <4>4. Amends(line, e, entry)
        <5>1. Amends(line, Begun(entry.name, entry.replaces, entry.skips),
                     Entry(entry.name, entry.replaces, entry.skips, entry.skipRange))
          BY EntryAmended, Zenon
        <5> QED
          BY <3>4, <3>5, <5>1, Zenon
      <4>5. e \in ChannelEntry
        BY <1>6, <3>a, <3>4, Zenon
      <4>6. Heard(read, line) = Revised(read, Showing(listed, Y))
        <5> HIDE DEF read, line, e, B, E
        <5> QED
          BY <1>3, <3>a, <3>6, <4>4, <4>5, HeardEntry
      <4> HIDE DEF so
      <4> QED
        BY <1>1, <3>3, <3>7, <4>1, <4>3, <4>6, PrintedLine, Zenon
    <3> QED
      BY <3>8, <3>9
  <2>6. CASE EndChannel
    <3>1. /\ pc = "entries" /\ pc' = "objects" /\ i <= Len(olm) /\ object.schema = "olm.channel"
          /\ at' = [at EXCEPT !.object = @ + 1] /\ out' = out /\ j > Len(object.entries) /\ j <= Len(object.entries) + 1
      BY <2>6 DEF EndChannel, LoopsInv
    <3>2. at'.object = i + 1
      BY <3>1 DEF LoopsInv
    <3>3. so = Shows(B, object)
      <4>1. so = SoFar("objects", olm, i + 1, at'.entry, at'.skip)
        BY <1>1, <3>1, <3>2, Zenon
      <4>2. SoFar("objects", olm, i + 1, at'.entry, at'.skip) = Shown(Upto(olm, (i + 1) - 1))
        BY SoFarObjects, Zenon
      <4> QED
        BY <1>3, <3>1, <4>1, <4>2, Zenon
    <3>4. E = object.entries
      <4>1. j - 1 = Len(object.entries)
        <5>1. Len(object.entries) \in Nat
          <6>1. object.entries \in Seq(ChannelEntry)
            BY <1>4, <3>1, Zenon DEF Entries
          <6> QED
            BY <6>1
        <5>2. j > Len(object.entries) /\ j <= Len(object.entries) + 1
          BY <3>1, Zenon
        <5> QED
          BY <1>2, <5>1, <5>2
      <4>2. Upto(object.entries, Len(object.entries)) = object.entries
        BY <1>4, <3>1, UptoStep DEF Entries
      <4> QED
        BY <4>1, <4>2, Zenon
    <3>5. Channel(c, object.entries) = object
      BY <1>4, <3>1 DEF Channel, DeclarativeConfig
    <3>6. so = Append(B, object) /\ so \in Objects
      BY <1>3, <1>4, <3>1, <3>3, ShowsObject, ShowsGrows
    <3>7. read[Len(read)] = Showing(listed, so)
      BY <1>1, <1>9, <3>1, <3>4, <3>5, <3>6, Zenon
    <3> HIDE DEF so
    <3> QED
      BY <1>1, <3>1, <3>6, <3>7, PrintedNothing
  <2> QED
    BY <2>1, <2>2, <2>3, <2>4, <2>5, <2>6
<1> QED
  <2> HIDE DEF so
  <2>1. OperatorLines'
    BY <1>1, <1>10, CurrentLines, Zenon DEF Printed, so
  <2> QED
    BY <1>10, <2>1, Zenon DEF Printed

\* The i-th listing has ended with the reading r, for the files t, w and c.
EndedAt(i, r, t, w, c) == LET o == Operators[i] IN Ended(r, o, t[o], w[o], c[o])

\* What has to be shown of the lines after a step.
LEMMA OperatorLinesAfter ==
  ASSUME NEW more, more = Understand(out'), NoComponent(out'),
         pc' \in {"files", "done"} \cup Listing, more \in Seq(Reading), Len(more) = next' - 1,
         pc' = "done" => next' = Len(Operators) + 1,
         pc' \in Listing => more[next' - 1] = Current',
         \A i \in 1..(next' - 1) :
           (i = next' - 1 /\ pc' \in Listing) \/ EndedAt(i, more[i], text', written', creates')
  PROVE  OperatorLines'
BY Zenon DEF OperatorLines, NoComponent, EndedAt

\* The first line of a listing.
LEMMA BeginStep ==
  ASSUME LoopsInv, Prints, out \in Seq(Lines), OperatorLines, NextOperator
  PROVE  out' \in Seq(Lines) /\ OperatorLines'
<1> DEFINE o    == Operators[next]
           read == Understand(out)
           line == Line("operator", o)
           more == Append(read, Showing(o, <<>>))
<1>1. /\ pc = "files" /\ next \in 1..Len(Operators) /\ next' = next + 1 /\ pc' \in {"objects", "failed"}
      /\ Info(<<line>>) /\ next \in Nat
      /\ UNCHANGED <<text, written, creates>>
  BY DEF NextOperator, LoopsInv, files
<1>2. pc \notin Listing /\ pc' \in Listing /\ pc' # "done" /\ pc' \notin {"entries", "skips"}
  BY <1>1 DEF Listing
<1>3. o \in STRING /\ o \in Values /\ "operator" \in LineKinds \ {"component"}
  BY <1>1, InRange DEF Values, LineKinds
<1>4. NoComponent(out) /\ read \in Seq(Reading) /\ Len(read) = next - 1
  BY DEF OperatorLines, NoComponent
<1>5. /\ line \in Lines /\ line.kind = "operator" /\ line.value = o
      /\ Append(out, line) \in Seq(Lines) /\ NoComponent(Append(out, line))
      /\ Understand(Append(out, line)) = Heard(read, line)
  BY <1>3, <1>4, LineAdded
<1>6. out' = Append(out, line)
  BY <1>1, <1>5, InfoLines
<1>7. Heard(read, line) = more
  BY <1>5, HeardOperator, Zenon
<1>8. Showing(o, <<>>) \in Reading
  <2>1. <<>> \in Objects
    BY EmptySeq DEF Objects
  <2> QED
    BY <1>3, <2>1, ShowingType, Zenon
<1>9. next' - 1 = next /\ listed' = o
  BY <1>1 DEF listed
<1>10. Current' = Showing(o, <<>>)
  <2>1. Upto(olm', 1 - 1) = <<>>
    BY DEF Upto
  <2>2. SoFar(pc', olm', 1, at'.entry, at'.skip) = Shown(Upto(olm', 1 - 1))
    BY <1>2, SoFarObjects, Zenon
  <2>3. SoFar(pc', olm', 1, at'.entry, at'.skip) = <<>>
    BY <2>1, <2>2, ShownNone, Zenon
  <2>4. at'.object = 1
    BY DEF NextOperator, LoopsInv
  <2> QED
    BY <1>9, <2>3, <2>4, Zenon DEF Current
<1>11. \A i \in 1..(next - 1) : EndedAt(i, read[i], text, written, creates)
  BY <1>2, Zenon DEF OperatorLines, EndedAt
<1>12. more = Understand(out')
  BY <1>5, <1>6, <1>7, Zenon
<1> HIDE DEF read, o
<1>13. /\ more \in Seq(Reading) /\ Len(more) = next /\ more[next] = Showing(o, <<>>)
       /\ \A i \in 1..(next - 1) : more[i] = read[i]
  <2> DEFINE r == Showing(o, <<>>)
  <2> HIDE DEF r
  <2>1. /\ Append(read, r) \in Seq(Reading) /\ Len(Append(read, r)) = next /\ Append(read, r)[next] = r
        /\ \A i \in 1..(next - 1) : Append(read, r)[i] = read[i]
    BY <1>1, <1>4, <1>8, AppendProperties DEF r
  <2> QED
    BY <2>1 DEF r
<1> HIDE DEF more
<1>14. \A i \in 1..(next' - 1) :
         (i = next' - 1 /\ pc' \in Listing) \/ EndedAt(i, more[i], text', written', creates')
  <2> SUFFICES ASSUME NEW i \in 1..(next' - 1), i # next PROVE EndedAt(i, more[i], text, written, creates)
    BY <1>1, <1>2, <1>9, Zenon
  <2>1. i \in 1..(next - 1)
    BY <1>1
  <2> QED
    BY <1>11, <1>13, <2>1, Zenon
<1>15. out' \in Seq(Lines) /\ NoComponent(out')
  BY <1>5, <1>6, Zenon
<1>16. more[next' - 1] = Current' /\ Len(more) = next' - 1
  BY <1>9, <1>10, <1>13, Zenon
<1>17. OperatorLines'
  BY <1>2, <1>12, <1>13, <1>14, <1>15, <1>16, OperatorLinesAfter, Zenon
<1> QED
  BY <1>15, <1>17

\* The error of a catalogue that could not be read ends its listing.
LEMMA ErrorStep ==
  ASSUME FilesInv, ReadInv, LoopsInv, out \in Seq(Lines), OperatorLines, LogError
  PROVE  out' \in Seq(Lines) /\ OperatorLines'
<1> DEFINE n    == next - 1
           o    == Operators[n]
           read == Understand(out)
           line == Line("error", o)
           r    == [op |-> o, objs |-> <<>>, failed |-> TRUE]
           more == Revised(read, r)
<1>1. pc = "failed" /\ pc' = "files" /\ out' = Append(out, line) /\ UNCHANGED <<text, written, creates, next>>
  BY DEF LogError, files
<1>2. pc \in Listing /\ pc' \notin Listing /\ pc' # "done" /\ pc \notin {"entries", "skips"}
  BY <1>1 DEF Listing
<1>3. /\ n \in 1..Len(Operators) /\ n \in Nat /\ o \in STRING /\ o \in Values /\ o = listed
      /\ "error" \in LineKinds \ {"component"}
  BY <1>2, ListedWhere DEF Values, LineKinds, listed
<1>4. NoComponent(out) /\ read \in Seq(Reading) /\ Len(read) = n /\ Len(read) # 0
  BY <1>3 DEF OperatorLines, NoComponent
<1>5. /\ line \in Lines /\ line.kind = "error"
      /\ Append(out, line) \in Seq(Lines) /\ NoComponent(Append(out, line))
      /\ Understand(Append(out, line)) = Heard(read, line)
  BY <1>3, <1>4, LineAdded
<1>6. olm = <<>> /\ at.object = 1 /\ (creates[o] = 0 => ~Readable(text[o], written[o]))
  BY <1>1, <1>3, Zenon DEF ReadInv, LoopsInv
<1>7. read[n] = Showing(o, <<>>)
  <2>1. Upto(<<>>, 1 - 1) = <<>>
    BY DEF Upto
  <2>2. SoFar(pc, <<>>, 1, at.entry, at.skip) = Shown(Upto(<<>>, 1 - 1))
    BY <1>2, SoFarObjects, Zenon
  <2>3. SoFar(pc, <<>>, 1, at.entry, at.skip) = <<>>
    BY <2>1, <2>2, ShownNone, Zenon
  <2>4. read[n] = Current
    BY <1>2, Zenon DEF OperatorLines
  <2> QED
    BY <1>3, <1>6, <2>3, <2>4, Zenon DEF Current
<1>8. Heard(read, line) = more
  <2> DEFINE none == <<>>
             x == line
  <2>1. read[Len(read)] = Showing(o, none) /\ x.kind = "error"
    BY <1>4, <1>5, <1>7, Zenon
  <2> HIDE DEF read, x, none, o
  <2>2. Heard(read, x) = Revised(read, [op |-> o, objs |-> none, failed |-> TRUE])
    BY <2>1, HeardError, Zenon
  <2> QED
    BY <2>2, Zenon DEF read, x, none, o
<1>9. more = Understand(out')
  BY <1>1, <1>5, <1>8, Zenon
<1>10. r \in Reading
  <2>1. <<>> \in Objects
    BY EmptySeq DEF Objects
  <2> QED
    BY <1>3, <2>1 DEF Reading
<1>11. EndedAt(n, r, text, written, creates)
  <2>1. r.op = o /\ r.objs = <<>> /\ r.failed = TRUE
    OBVIOUS
  <2> HIDE DEF r
  <2> QED
    BY <1>6, <2>1, Zenon DEF EndedAt, Ended
<1>12. \A i \in 1..n : i # n => EndedAt(i, read[i], text, written, creates)
  BY Zenon DEF OperatorLines, EndedAt
<1> HIDE DEF read, r, o
<1>13. /\ more \in Seq(Reading) /\ Len(more) = n /\ more[n] = r
       /\ \A i \in 1..n : i # n => more[i] = read[i]
  <2>1. /\ more \in Seq(Reading) /\ Len(more) = Len(read) /\ more[Len(read)] = r
        /\ \A i \in 1..Len(read) : i # Len(read) => more[i] = read[i]
    BY <1>4, <1>10, RevisedSeq
  <2> QED
    BY <1>4, <2>1, Zenon
<1> HIDE DEF more
<1>14. \A i \in 1..(next' - 1) : EndedAt(i, more[i], text', written', creates')
  BY <1>1, <1>11, <1>12, <1>13, Zenon
<1>15. out' \in Seq(Lines) /\ NoComponent(out')
  BY <1>1, <1>5, Zenon
<1>16. Len(more) = next' - 1
  BY <1>1, <1>13, Zenon
<1>17. OperatorLines'
  BY <1>1, <1>2, <1>9, <1>13, <1>14, <1>15, <1>16, OperatorLinesAfter, Zenon
<1> QED
  BY <1>15, <1>17

\* A step that prints nothing and lists nothing: what has been listed so far
\* stays, and may have ended.
LEMMA SilentStep ==
  ASSUME LoopsInv, OperatorLines, NoComponent(out),
         out' = out, next' = next, text' = text, pc' \in {"files", "done"} \cup Listing,
         \A o \in Range(Operators) : creates'[o] = 0 => creates[o] = 0 /\ written'[o] = written[o],
         next - 1 <= Len(Operators), pc' = "done" => next = Len(Operators) + 1,
         pc' \in Listing => pc \in Listing /\ Current' = Current,
         pc \in Listing /\ pc' \notin Listing =>
           EndedAt(next - 1, Understand(out)[next - 1], text, written, creates)
  PROVE  OperatorLines'
<1> DEFINE read == Understand(out)
<1>1. read \in Seq(Reading) /\ Len(read) = next - 1 /\ read = Understand(out')
  BY Zenon DEF OperatorLines
<1>2. \A i \in 1..(next - 1) : (i = next - 1 /\ pc' \in Listing) \/ EndedAt(i, read[i], text, written, creates)
  BY Zenon DEF OperatorLines, EndedAt
<1>3. ASSUME NEW i \in 1..(next - 1), EndedAt(i, read[i], text, written, creates)
      PROVE  EndedAt(i, read[i], text', written', creates')
  <2>1. Operators[i] \in Range(Operators)
    <3>1. i \in 1..Len(Operators)
      BY OperatorTypes DEF LoopsInv
    <3> QED
      BY <3>1, InRange
  <2> QED
    BY <1>3, <2>1, EndedStays, Zenon DEF EndedAt
<1>4. \A i \in 1..(next' - 1) : (i = next' - 1 /\ pc' \in Listing) \/ EndedAt(i, read[i], text', written', creates')
  BY <1>2, <1>3, Zenon
<1>5. pc' \in Listing => read[next' - 1] = Current'
  BY Zenon DEF OperatorLines
<1>6. NoComponent(out') /\ Len(read) = next' - 1 /\ (pc' = "done" => next' = Len(Operators) + 1)
  BY <1>1, Zenon
<1> HIDE DEF read
<1> QED
  BY <1>1, <1>4, <1>5, <1>6, OperatorLinesAfter, Zenon

\* Past the last object the listing has ended.
LEMMA ListedEnds ==
  ASSUME FilesInv, ReadInv, LoopsInv, OperatorLines, pc = "objects", at.object > Len(olm)
  PROVE  EndedAt(next - 1, Understand(out)[next - 1], text, written, creates)
<1> DEFINE o == listed
           t == text[o]
           r == Understand(out)[next - 1]
<1>1. pc \in Listing /\ pc \notin {"entries", "skips"} /\ pc # "failed"
  BY DEF Listing
<1>2. PICK k \in 0..Len(t.objs) :
        /\ olm = Decoded(t, k)
        /\ creates[o] = 0 => Readable(t, written[o]) /\ k = Len(t.objs)
  BY <1>1, Zenon DEF ReadInv
<1>3. olm \in Objects /\ o = Operators[next - 1]
  BY <1>1, ListedWhere DEF listed
<1>4. at.object - 1 = Len(olm)
  BY <1>1, <1>3 DEF LoopsInv, Objects
<1>5. r = Showing(o, Shown(olm))
  <2>1. Upto(olm, Len(olm)) = olm
    BY <1>3, UptoStep DEF Objects
  <2>2. r = Showing(o, SoFar(pc, olm, at.object, at.entry, at.skip))
    BY <1>1, Zenon DEF OperatorLines, Current
  <2>3. SoFar(pc, olm, at.object, at.entry, at.skip) = Shown(Upto(olm, at.object - 1))
    BY <1>1, SoFarObjects, Zenon
  <2> QED
    BY <1>4, <2>1, <2>2, <2>3, Zenon
<1>6. r.op = o /\ r.objs = Shown(olm) /\ r.failed = FALSE
  BY <1>5 DEF Showing
<1> HIDE DEF r
<1>7. Ended(r, o, t, written[o], creates[o])
  BY <1>2, <1>6, Zenon DEF Ended
<1> QED
  BY <1>3, <1>7, Zenon DEF EndedAt, r

\* Every step keeps the reading of the listings.
LEMMA OperatorStep ==
  ASSUME FilesInv, ReadInv, LoopsInv, Prints, out \in Seq(Lines), OperatorLines, Next
  PROVE  out' \in Seq(Lines) /\ OperatorLines'
<1>0. /\ NoComponent(out) /\ pc \in {"files", "done"} \cup Listing /\ (pc = "done" => next = Len(Operators) + 1)
      /\ next - 1 <= Len(Operators)
  <2>1. next - 1 <= Len(Operators)
    BY OperatorTypes DEF LoopsInv, OperatorLines, Listing
  <2> QED
    BY <2>1 DEF OperatorLines, NoComponent
<1>1. CASE NextOperator
  BY <1>1, BeginStep
<1>2. CASE LogError
  BY <1>2, ErrorStep
<1>3. CASE ListObject \/ ListChannel \/ ListEntry \/ ListSkip \/ EndEntry \/ EndChannel
  BY <1>3, WithinStep
<1>4. CASE ListedAll
  <2>1. /\ out' = out /\ next' = next /\ UNCHANGED files /\ text' = text /\ pc' \notin Listing
        /\ pc' \in {"files", "done"} \cup Listing
        /\ pc' = "done" => next = Len(Operators) + 1
        /\ pc \in Listing => pc = "objects" /\ at.object > Len(olm)
    BY <1>0, <1>4, OperatorTypes DEF ListedAll, Listing, files, LoopsInv
  <2>2. \A o \in Range(Operators) : creates'[o] = 0 => creates[o] = 0 /\ written'[o] = written[o]
    BY <2>1, FilesStep, Zenon
  <2>3. pc \in Listing => EndedAt(next - 1, Understand(out)[next - 1], text, written, creates)
    BY <2>1, ListedEnds, Zenon
  <2>4. OperatorLines'
    BY <1>0, <2>1, <2>2, <2>3, SilentStep, Zenon
  <2> QED
    BY <2>1, <2>4, Zenon
<1>5. CASE Finished
  <2>1. UNCHANGED vars
    BY <1>5 DEF Finished
  <2> QED
    BY <2>1 DEF vars, files, OperatorLines, Current, listed
<1>6. CASE GetReleaseSchema \/ ListTag
  BY <1>0, <1>6 DEF GetReleaseSchema, ListTag, Listing
<1>7. ASSUME NEW o \in Range(Operators), Rewritten(o) PROVE out' \in Seq(Lines) /\ OperatorLines'
  <2>1. UNCHANGED <<pc, level, text, next, olm, at, out>>
    BY <1>7, Zenon DEF Rewritten
  <2>2. \A p \in Range(Operators) : creates'[p] = 0 => creates[p] = 0 /\ written'[p] = written[p]
    BY <1>7, FilesStep, Zenon
  <2>3. Current' = Current
    BY <2>1, Zenon DEF Current, listed
  <2>4. OperatorLines'
    BY <1>0, <2>1, <2>2, <2>3, SilentStep, Zenon
  <2> QED
    BY <2>1, <2>4, Zenon
<1> QED
  BY <1>1, <1>2, <1>3, <1>4, <1>5, <1>6, <1>7, OtherRun DEF Next

\* Every step keeps what is known of the lines.
LEMMA LinesStep ==
  ASSUME FilesInv, ReadInv, LoopsInv, LinesInv, Next
  PROVE  LinesInv'
<1>1. level' = level
  <2>1. CASE Lists
    BY <2>1, ListsFiles
  <2>2. CASE \E o \in Range(Operators) : Create(o) \/ Grow(o)
    BY <2>2 DEF Create, Grow
  <2> QED
    BY <2>1, <2>2 DEF Next, Lists
<1>2. Prints' => Prints
  BY <1>1, Zenon DEF Prints
<1> SUFFICES ASSUME Prints PROVE out' \in Seq(Lines) /\ (OperatorLines' \/ ReleaseLines')
  BY <1>2, Zenon DEF LinesInv
<1>3. CASE OperatorLines
  BY <1>3, OperatorStep, Zenon DEF LinesInv
<1>4. CASE ReleaseLines
  BY <1>4, ReleaseStep, Zenon DEF LinesInv
<1> QED
  BY <1>3, <1>4, Zenon DEF LinesInv

\* The invariant holds of the initial states ...
LEMMA CatalogInit ==
  ASSUME Init
  PROVE  CatalogInv
<1>1. pc \in {"files", "schema"} /\ next = 1 /\ olm = <<>> /\ out = <<>> /\ at = [object |-> 1, entry |-> 1, skip |-> 1]
  BY CatalogAssumption DEF Init
<1>2. FilesInv
  <2>1. /\ text \in [Range(Operators) -> Texts] /\ creates = [o \in Range(Operators) |-> 0]
        /\ written \in [Range(Operators) -> {Absent} \cup {Whole(o) : o \in Range(Operators)}]
        /\ \A o \in Range(Operators) : written[o] \in {Absent, Whole(o)}
    BY DEF Init
  <2>2. ASSUME NEW o \in Range(Operators)
        PROVE  /\ Absent \in OnDisk /\ Whole(o) \in OnDisk
               /\ Absent.k <= Len(text[o].objs) /\ Whole(o).k <= Len(text[o].objs)
    <3>1. Len(text[o].objs) \in Nat
      BY <2>1, TextType DEF Objects
    <3> QED
      BY <3>1 DEF Absent, Whole, OnDisk
  <2>3. \A o \in Range(Operators) : written[o] \in OnDisk /\ written[o].k <= Len(text[o].objs)
    BY <2>1, <2>2, Zenon
  <2>4. written \in [Range(Operators) -> OnDisk]
    BY <2>1, <2>3
  <2>5. creates \in [Range(Operators) -> Nat]
    BY <2>1
  <2> QED
    BY <2>1, <2>3, <2>4, <2>5, Zenon DEF FilesInv, OnDisk
<1>3. ReadInv
  BY <1>1 DEF ReadInv, Listing
<1>4. LoopsInv
  BY <1>1, OperatorTypes DEF LoopsInv, Listing
<1>5. Understand(out) = <<>> /\ out \in Seq(Lines)
  BY <1>1, UnderstandNone, EmptySeq
<1>6. CASE pc = "files"
  <2>1. OperatorLines
    <3>1. <<>> \in Seq(Reading)
      BY EmptySeq
    <3>2. Len(out) = 0 /\ Len(Understand(out)) = next - 1 /\ 1..Len(out) = {} /\ 1..(next - 1) = {}
      BY <1>1, <1>5
    <3>3. pc \in {"files", "done"} \cup Listing /\ pc # "done" /\ pc \notin Listing
      BY <1>6 DEF Listing
    <3> QED
      BY <1>5, <3>1, <3>2, <3>3, Zenon DEF OperatorLines
  <2> QED
    BY <1>2, <1>3, <1>4, <1>5, <2>1, Zenon DEF CatalogInv, LinesInv
<1>7. CASE pc = "schema"
  <2>1. ReleaseLines
    <3>1. Upto(Components, 1 - 1) = <<>>
      BY DEF Upto
    <3>2. next <= Len(Tags) + 1
      BY <1>1, OperatorTypes
    <3>3. pc \in {"schema", "tags", "error", "done"} /\ pc # "done"
      BY <1>7
    <3> QED
      BY <1>1, <1>5, <3>1, <3>2, <3>3, Zenon DEF ReleaseLines
  <2> QED
    BY <1>2, <1>3, <1>4, <1>5, <2>1, Zenon DEF CatalogInv, LinesInv
<1> QED
  BY <1>1, <1>6, <1>7

\* ... and every step keeps it.
LEMMA CatalogStep ==
  ASSUME CatalogInv, [Next]_vars
  PROVE  CatalogInv'
<1>1. CASE Next
  <2>1. FilesInv'
    <3>1. CASE Lists
      BY <3>1, ListsFiles, FilesStep DEF CatalogInv
    <3>2. CASE \E o \in Range(Operators) : Create(o) \/ Grow(o)
      BY <3>2, OtherRun, FilesStep DEF CatalogInv
    <3> QED
      BY <1>1, <3>1, <3>2 DEF Next, Lists
  <2> QED
    BY <1>1, <2>1, ReadStep, LoopsStep, LinesStep, Zenon DEF CatalogInv
<1>2. CASE UNCHANGED vars
  <2>1. UNCHANGED <<pc, level, text, written, creates, next, olm, at, out>>
    BY <1>2 DEF vars, files
  <2>2. FilesInv' /\ ReadInv'
    BY <2>1, Zenon DEF CatalogInv, FilesInv, ReadInv, listed, Whole, Absent
  <2>3. LoopsInv'
    BY <2>1, Zenon DEF CatalogInv, LoopsInv, object, entry
  <2>4. OperatorLines' = OperatorLines /\ ReleaseLines' = ReleaseLines /\ Prints' = Prints
    BY <2>1, Zenon DEF OperatorLines, ReleaseLines, Current, listed, Prints
  <2> QED
    BY <2>1, <2>2, <2>3, <2>4 DEF CatalogInv, LinesInv
<1> QED
  BY <1>1, <1>2

-----------------------------------------------------------------------------
(* What the invariant says of the terminal *)

\* The first of a sequence are a prefix of it.
LEMMA UptoPrefix ==
  ASSUME NEW S, NEW s \in Seq(S), NEW k \in 0..Len(s)
  PROVE  /\ IsPrefix(Upto(s, k), s)
         /\ \A m \in 0..k : Upto(Upto(s, k), m) = Upto(s, m)
<1>1. /\ Upto(s, k) \in Seq(S) /\ Len(Upto(s, k)) = k
      /\ \A i \in 1..k : Upto(s, k)[i] = s[i]
  BY UptoStep
<1>2. IsPrefix(Upto(s, k), s)
  BY <1>1, PrefixDef
<1>3. ASSUME NEW m \in 0..k PROVE Upto(Upto(s, k), m) = Upto(s, m)
  <2> DEFINE u == Upto(s, k)
             a == Upto(u, m)
             b == Upto(s, m)
  <2> HIDE DEF u
  <2>1. /\ a \in Seq(S) /\ Len(a) = m /\ \A i \in 1..m : a[i] = u[i]
    BY <1>1, UptoStep DEF u
  <2>2. /\ b \in Seq(S) /\ Len(b) = m /\ \A i \in 1..m : b[i] = s[i]
    BY UptoStep
  <2> HIDE DEF a, b
  <2>3. \A i \in 1..m : a[i] = b[i]
    BY <1>1, <2>1, <2>2 DEF u
  <2>4. a = b
    BY <2>1, <2>2, <2>3, SeqEqual
  <2> QED
    BY <2>4 DEF a, b, u
<1> QED
  BY <1>2, <1>3

\* The front and the last of a sequence with one more element.
LEMMA LastAppended ==
  ASSUME NEW S, NEW s \in Seq(S), NEW x \in S
  PROVE  /\ Front(Append(s, x)) = s /\ Last(Append(s, x)) = x
         /\ Append(s, x) # <<>> /\ Len(Append(s, x)) = Len(s) + 1
<1> DEFINE a == Append(s, x)
           f == Front(a)
<1>1. a \in Seq(S) /\ Len(a) = Len(s) + 1 /\ a[Len(s) + 1] = x /\ \A i \in 1..Len(s) : a[i] = s[i]
  BY AppendProperties
<1> HIDE DEF a
<1>2. f \in Seq(S) /\ Len(f) = Len(s) /\ \A i \in 1..Len(s) : f[i] = a[i]
  BY <1>1 DEF Front
<1> HIDE DEF f
<1>3. f = s
  BY <1>1, <1>2, SeqEqual
<1>4. Last(a) = x /\ a # <<>>
  BY <1>1 DEF Last
<1> QED
  BY <1>1, <1>3, <1>4 DEF a, f

\* What begins a sequence: the first k of it, and a part of the next.
LEMMA BeginsAppended ==
  ASSUME NEW S, NEW whole \in Seq(S), NEW s \in Seq(S), NEW x \in S,
         IsPrefix(s, whole), Len(s) < Len(whole)
  PROVE  /\ Append(s, x) # <<>> /\ Len(Append(s, x)) <= Len(whole)
         /\ IsPrefix(Front(Append(s, x)), whole) /\ Last(Append(s, x)) = x
         /\ Len(Append(s, x)) = Len(s) + 1
BY LastAppended

\* The entry e with other skips and another range.
With(e, s, range) == [e EXCEPT !.skips = s, !.skipRange = range]

\* An entry made of another, field by field.
LEMMA EntryWith ==
  ASSUME NEW e \in ChannelEntry, NEW s, NEW range
  PROVE  Entry(e.name, e.replaces, s, range) = With(e, s, range)
<1> DEFINE f == [e EXCEPT !.skips = s]
<1>1. e = Entry(e.name, e.replaces, e.skips, e.skipRange)
  BY DEF ChannelEntry, Entry
<1>2. ASSUME NEW n, NEW r, NEW t, NEW v
      PROVE  [Entry(n, r, t, v) EXCEPT !.skips = s] = Entry(n, r, s, v)
  BY DEF Entry
<1>3. f = Entry(e.name, e.replaces, s, e.skipRange)
  <2> DEFINE n == e.name
             r == e.replaces
             t == e.skips
             v == e.skipRange
  <2>1. e = Entry(n, r, t, v)
    BY <1>1
  <2> HIDE DEF n, r, t, v
  <2>2. [Entry(n, r, t, v) EXCEPT !.skips = s] = Entry(n, r, s, v)
    BY <1>2
  <2> QED
    BY <2>1, <2>2, Zenon DEF n, r, v
<1>4. With(e, s, range) = [f EXCEPT !.skipRange = range]
  BY DEF With
<1> HIDE DEF f
<1>5. Ranging(f, range) = Entry(e.name, e.replaces, s, range)
  BY <1>3, FieldAmended
<1> QED
  BY <1>4, <1>5, Zenon DEF Ranging

\* The printed part of an entry.
LEMMA EntryPart ==
  ASSUME NEW e \in ChannelEntry, NEW k \in 0..Len(e.skips)
  PROVE  PartOfEntry(Begun(e.name, e.replaces, Upto(e.skips, k)), e)
<1> DEFINE u == Upto(e.skips, k)
           x == Begun(e.name, e.replaces, u)
<1>1. e.skips \in Seq(Strings)
  BY DEF ChannelEntry
<1>2. IsPrefix(u, e.skips)
  BY <1>1, UptoPrefix
<1>3. x.skips = u
  BY DEF Begun, Entry
<1>4. x = With(e, u, "")
  <2>1. \A range : Entry(e.name, e.replaces, u, range) = With(e, u, range)
    BY EntryWith
  <2> QED
    BY <2>1, Zenon DEF Begun
<1> HIDE DEF x, u
<1>5. x = With(e, x.skips, "") /\ IsPrefix(x.skips, e.skips)
  BY <1>2, <1>3, <1>4, Zenon
<1>6. PartOfEntry(x, e)
  BY <1>5, Zenon DEF PartOfEntry, With
<1> QED
  BY <1>6, Zenon DEF x, u

\* The printed part of the entries of a channel.
LEMMA EntriesPart ==
  ASSUME NEW entries \in Entries, NEW j \in 1..Len(entries), NEW k \in 0..Len(entries[j].skips)
  PROVE  LET e == entries[j]
         IN Begins(Append(Upto(entries, j - 1), Begun(e.name, e.replaces, Upto(e.skips, k))), entries, PartOfEntry)
<1> DEFINE e == entries[j]
           x == Begun(e.name, e.replaces, Upto(e.skips, k))
           s == Upto(entries, j - 1)
<1>1. e \in ChannelEntry /\ e.name \in Strings /\ e.replaces \in Strings /\ e.skips \in Seq(Strings)
  <2>1. e \in ChannelEntry
    BY DEF Entries
  <2> QED
    BY <2>1 DEF ChannelEntry
<1>2. x \in ChannelEntry
  <2>1. Upto(e.skips, k) \in Seq(Strings)
    BY <1>1, UptoStep
  <2> QED
    BY <1>1, <2>1, BegunType
<1>3. PartOfEntry(x, e)
  BY <1>1, EntryPart
<1>4. s \in Entries /\ IsPrefix(s, entries) /\ Len(s) = j - 1 /\ Len(s) < Len(entries) /\ Len(s) + 1 = j
  <2>1. j - 1 \in 0..Len(entries)
    OBVIOUS
  <2>2. s \in Entries /\ IsPrefix(s, entries) /\ Len(s) = j - 1
    BY <2>1, UptoStep, UptoPrefix DEF Entries
  <2> QED
    BY <2>2
<1> HIDE DEF x, s, e
<1>5. /\ Append(s, x) # <<>> /\ Len(Append(s, x)) <= Len(entries)
      /\ IsPrefix(Front(Append(s, x)), entries) /\ Last(Append(s, x)) = x
      /\ Len(Append(s, x)) = j
  BY <1>2, <1>4, BeginsAppended DEF Entries
<1>6. Begins(Append(s, x), entries, PartOfEntry)
  BY <1>3, <1>5, Zenon DEF Begins, e
<1> QED
  BY <1>6 DEF x, s, e

\* The objects before the i-th, and its channel as far as X.
LEMMA ChannelsPart ==
  ASSUME NEW s \in Objects, NEW i \in 1..Len(s), s[i].schema = "olm.channel", NEW X \in Entries,
         IF pc = "skips" THEN Begins(X, s[i].entries, PartOfEntry) ELSE IsPrefix(X, s[i].entries)
  PROVE  Begins(Append(Shown(Upto(s, i - 1)), Channel(s[i].name, X)), Shown(s), PartOfChannel)
<1> DEFINE c == s[i]
           B == Shown(Upto(s, i - 1))
           W == Shown(s)
           x == Channel(c.name, X)
<1>1. c \in DeclarativeConfig /\ c.name \in Strings
  <2>1. c \in DeclarativeConfig
    BY DEF Objects
  <2> QED
    BY <2>1 DEF DeclarativeConfig
<1>2. i - 1 \in 0..(Len(s) - 1) /\ i - 1 \in 0..Len(s) /\ (i - 1) + 1 = i
  BY DEF Objects
<1>3. B \in Objects /\ W \in Objects
  BY <1>2, ShownObjects
<1>4. Len(B) < Len(W) /\ IsPrefix(B, W) /\ W[Len(B) + 1] = c
  BY <1>2, ShownNext
<1>5. x \in DeclarativeConfig
  BY <1>1, ChannelType
<1>6. PartOfChannel(x, c)
  <2>1. x.entries = X
    BY DEF Channel
  <2>2. x = [c EXCEPT !.entries = X]
    BY <1>1 DEF Channel, DeclarativeConfig
  <2> HIDE DEF x
  <2> QED
    BY <2>1, <2>2, Zenon DEF PartOfChannel
<1> HIDE DEF x, B, W, c
<1>7. /\ Append(B, x) # <<>> /\ Len(Append(B, x)) <= Len(W)
      /\ IsPrefix(Front(Append(B, x)), W) /\ Last(Append(B, x)) = x
      /\ Len(Append(B, x)) = Len(B) + 1
  BY <1>3, <1>4, <1>5, BeginsAppended DEF Objects
<1>8. Begins(Append(B, x), W, PartOfChannel)
  BY <1>4, <1>6, <1>7, Zenon DEF Begins
<1> QED
  BY <1>8 DEF x, B, W, c

\* What ListingSaysCatalogue says of the i-th listing.
SaysCatalogue(i) ==
  LET read == Understand(out) o == Operators[i] objs == read[i].objs IN
    /\ read[i].op = o
    /\ read[i].failed => objs = <<>>
    /\ SpaceFree(o) =>
         /\ IF pc \in {"entries", "skips"} /\ i = Len(read)
            THEN Begins(objs, Declared(o), PartOfChannel) ELSE IsPrefix(objs, Declared(o))
         /\ pc = "done" /\ creates[o] = 0 =>
              IF written[o].there /\ Joined(text[o], Len(text[o].objs))
              THEN objs = Declared(o) ELSE read[i].failed

\* A listing that has ended.
LEMMA EndedSays ==
  ASSUME FilesInv, OperatorLines, NEW i \in 1..(next - 1), Operators[i] \in Range(Operators),
         ~(i = next - 1 /\ pc \in Listing), EndedAt(i, Understand(out)[i], text, written, creates)
  PROVE  SaysCatalogue(i)
<1> DEFINE o == Operators[i]
           t == text[o]
           r == Understand(out)[i]
<1>1. t \in Texts /\ t.objs \in Objects /\ Len(t.objs) \in Nat
  BY TextType DEF FilesInv, Objects
<1>2. ~(pc \in {"entries", "skips"} /\ i = Len(Understand(out)))
  BY DEF OperatorLines, Listing
<1>3. Ended(r, o, t, written[o], creates[o])
  BY Zenon DEF EndedAt
<1>4. r.op = o /\ (r.failed => r.objs = <<>>)
  BY <1>3, Zenon DEF Ended
<1>5. ASSUME SpaceFree(o)
      PROVE  /\ IsPrefix(r.objs, Declared(o))
             /\ creates[o] = 0 => IF Readable(t, written[o]) THEN r.objs = Declared(o) ELSE r.failed
  <2>1. \A k \in 0..Len(t.objs) : Decoded(t, k) = Upto(t.objs, k)
    BY <1>1, <1>5, DecodedSpaceFree DEF SpaceFree
  <2>2. Upto(t.objs, Len(t.objs)) = t.objs /\ Upto(t.objs, 0) = <<>> /\ Len(t.objs) \in 0..Len(t.objs) /\ 0 \in 0..Len(t.objs)
    BY <1>1, UptoStep DEF Objects
  <2>3. \A k \in 0..Len(t.objs) : IsPrefix(Shown(Upto(t.objs, k)), Shown(t.objs))
    BY <1>1, <2>2, ShownObjects
  <2>4. IsPrefix(<<>>, Shown(t.objs))
    BY <2>2, <2>3, ShownNone, Zenon
  <2>5. IsPrefix(r.objs, Declared(o))
    BY <1>3, <2>1, <2>3, <2>4, Zenon DEF Ended, Declared
  <2>6. creates[o] = 0 => IF Readable(t, written[o]) THEN r.objs = Declared(o) ELSE r.failed = TRUE
    BY <1>3, <2>1, <2>2, Zenon DEF Ended, Declared
  <2> QED
    BY <2>5, <2>6, Zenon
<1> QED
  BY <1>2, <1>4, <1>5, Zenon DEF SaysCatalogue, Readable

\* The listing the loops are in.
LEMMA CurrentSays ==
  ASSUME FilesInv, ReadInv, LoopsInv, OperatorLines, pc \in Listing
  PROVE  SaysCatalogue(next - 1)
<1> DEFINE n == next - 1
           o == Operators[n]
           t == text[o]
           r == Understand(out)[n]
           i == at.object
           objs == SoFar(pc, olm, i, at.entry, at.skip)
<1>1. /\ n \in 1..Len(Operators) /\ o = listed /\ t \in Texts /\ t.objs \in Objects /\ Len(t.objs) \in Nat
      /\ pc # "done" /\ Len(Understand(out)) = n /\ olm \in Objects /\ Len(olm) \in Nat
  BY ListedWhere, TextType DEF listed, OperatorLines, Objects, Listing
<1>2. r.op = o /\ r.objs = objs /\ r.failed = FALSE
  <2>1. r = Showing(o, objs)
    BY <1>1, Zenon DEF OperatorLines, Current
  <2> HIDE DEF r, objs, o
  <2> QED
    BY <2>1 DEF Showing
<1>3. ASSUME SpaceFree(o)
      PROVE  IF pc \in {"entries", "skips"} THEN Begins(objs, Declared(o), PartOfChannel)
                                            ELSE IsPrefix(objs, Declared(o))
  <2>1. PICK k \in 0..Len(t.objs) : olm = Decoded(t, k)
    BY <1>1, Zenon DEF ReadInv
  <2>2. olm = Upto(t.objs, k)
    BY <1>1, <1>3, <2>1, DecodedSpaceFree DEF SpaceFree
  <2>3. /\ Len(olm) = k /\ \A m \in 1..k : olm[m] = t.objs[m]
        /\ \A m \in 0..k : Upto(olm, m) = Upto(t.objs, m)
    BY <1>1, <2>2, UptoStep, UptoPrefix DEF Objects
  <2>4. i - 1 \in 0..k /\ k \in 0..Len(t.objs) /\ i - 1 \in 0..Len(t.objs)
    BY <1>1, <2>3 DEF LoopsInv
  <2>5. Declared(o) = Shown(t.objs)
    BY DEF Declared
  <2>6. CASE pc \notin {"entries", "skips"}
    <3>1. objs = Shown(Upto(t.objs, i - 1))
      <4>1. objs = Shown(Upto(olm, i - 1))
        BY <2>6, SoFarObjects
      <4> QED
        BY <2>3, <2>4, <4>1, Zenon
    <3>2. IsPrefix(Shown(Upto(t.objs, i - 1)), Shown(t.objs))
      <4>1. Upto(t.objs, Len(t.objs)) = t.objs /\ Len(t.objs) \in 0..Len(t.objs) /\ i - 1 \in 0..Len(t.objs)
        BY <1>1, <2>4, UptoStep DEF Objects
      <4> QED
        BY <1>1, <4>1, ShownObjects
    <3> QED
      BY <2>5, <2>6, <3>1, <3>2, Zenon
  <2>7. CASE pc \in {"entries", "skips"}
    <3> DEFINE ob == t.objs[i]
    <3>1. /\ i \in 1..k /\ i \in 1..Len(t.objs) /\ object = ob /\ ob.schema = "olm.channel"
          /\ at.entry \in 1..(Len(ob.entries) + 1) /\ ob.entries \in Entries
      <4>1. /\ i \in 1..k /\ i \in 1..Len(t.objs) /\ object = ob
        BY <1>1, <2>3, <2>4, <2>7 DEF LoopsInv, object
      <4>2. object.entries \in Entries /\ object.schema = "olm.channel" /\ at.entry <= Len(object.entries) + 1 /\ at.entry \in Nat \ {0}
        BY <2>7, ListedWhere DEF LoopsInv
      <4>3. at.entry \in 1..(Len(object.entries) + 1)
        BY <4>2 DEF Entries
      <4> QED
        BY <4>1, <4>2, <4>3, Zenon
    <3>2. Upto(olm, i - 1) = Upto(t.objs, i - 1)
      BY <2>3, <2>4
    <3>3. CASE pc = "entries"
      <4> DEFINE X == Upto(ob.entries, at.entry - 1)
      <4>1. objs = Append(Shown(Upto(t.objs, i - 1)), Channel(ob.name, X))
        BY <3>1, <3>2, <3>3, Zenon DEF SoFar, object
      <4>2. X \in Entries /\ IsPrefix(X, ob.entries)
        <5> DEFINE E == ob.entries
                   m == at.entry - 1
        <5>1. m \in 0..Len(E) /\ E \in Seq(ChannelEntry)
          <6>1. at.entry \in 1..(Len(E) + 1) /\ E \in Seq(ChannelEntry)
            BY <3>1, Zenon DEF Entries
          <6> HIDE DEF E
          <6> QED
            BY <6>1
        <5> HIDE DEF E, m
        <5>2. Upto(E, m) \in Seq(ChannelEntry) /\ IsPrefix(Upto(E, m), E)
          BY <5>1, UptoStep, UptoPrefix
        <5> QED
          BY <5>2, Zenon DEF E, m, Entries
      <4>3. IF pc = "skips" THEN Begins(X, ob.entries, PartOfEntry) ELSE IsPrefix(X, ob.entries)
        BY <3>3, <4>2
      <4> HIDE DEF X
      <4>4. Begins(Append(Shown(Upto(t.objs, i - 1)), Channel(ob.name, X)), Shown(t.objs), PartOfChannel)
        BY <1>1, <3>1, <4>2, <4>3, ChannelsPart
      <4> QED
        BY <2>5, <2>7, <4>1, <4>4, Zenon
    <3>4. CASE pc = "skips"
      <4> DEFINE e == ob.entries[at.entry]
                 x == Begun(e.name, e.replaces, Upto(e.skips, at.skip - 1))
                 X == Append(Upto(ob.entries, at.entry - 1), x)
      <4>1. objs = Append(Shown(Upto(t.objs, i - 1)), Channel(ob.name, X))
        BY <3>1, <3>2, <3>4, Zenon DEF SoFar, object
      <4>2. at.entry \in 1..Len(ob.entries) /\ at.skip - 1 \in 0..Len(e.skips) /\ e \in ChannelEntry /\ e.skips \in Seq(Strings)
        <5>1. e = entry
          BY <3>1, Zenon DEF entry
        <5>2. entry \in ChannelEntry /\ entry.skips \in Seq(Strings)
          BY <3>4, ListedWhere
        <5>3. at.entry <= Len(object.entries) /\ at.skip <= Len(entry.skips) + 1 /\ at.skip \in Nat \ {0}
          BY <3>4 DEF LoopsInv
        <5>4. at.skip - 1 \in 0..Len(entry.skips)
          BY <5>2, <5>3
        <5>5. at.entry \in 1..Len(ob.entries)
          BY <3>1, <5>3 DEF Entries
        <5> QED
          BY <5>1, <5>2, <5>4, <5>5, Zenon
      <4>3. Begins(X, ob.entries, PartOfEntry)
        BY <3>1, <4>2, EntriesPart
      <4>4. X \in Entries
        <5>1. e.name \in Strings /\ e.replaces \in Strings /\ Upto(e.skips, at.skip - 1) \in Seq(Strings)
          <6>1. Upto(e.skips, at.skip - 1) \in Seq(Strings)
            BY <4>2, UptoStep
          <6> QED
            BY <4>2, <6>1 DEF ChannelEntry
        <5>2. x \in ChannelEntry
          BY <5>1, BegunType
        <5>3. Upto(ob.entries, at.entry - 1) \in Entries
          BY <3>1, UptoStep DEF Entries
        <5> HIDE DEF x
        <5> QED
          BY <5>2, <5>3, AppendProperties DEF Entries
      <4>5. IF pc = "skips" THEN Begins(X, ob.entries, PartOfEntry) ELSE IsPrefix(X, ob.entries)
        BY <3>4, <4>3, Zenon
      <4> HIDE DEF X
      <4>6. Begins(Append(Shown(Upto(t.objs, i - 1)), Channel(ob.name, X)), Shown(t.objs), PartOfChannel)
        BY <1>1, <3>1, <4>4, <4>5, ChannelsPart
      <4> QED
        BY <2>5, <2>7, <4>1, <4>6, Zenon
    <3> QED
      BY <2>7, <3>3, <3>4
  <2> QED
    BY <2>6, <2>7
<1> HIDE DEF r, objs
<1>4. ~r.failed
  BY <1>2
<1> QED
  BY <1>1, <1>2, <1>3, <1>4, Zenon DEF SaysCatalogue, r

\* The invariant says what ListingSaysCatalogue does, and more.
LEMMA InvSays ==
  ASSUME CatalogInv
  PROVE  ListingSaysCatalogue
<1> SUFFICES ASSUME Prints PROVE
      LET read == Understand(out) IN
        /\ \A i \in 1..Len(read) : SaysCatalogue(i)
        /\ pc = "done" => Len(read) \in {0, Len(Operators)}
        /\ (\E k \in 1..Len(out) : out[k].kind = "component") =>
             IsPrefix(out, Components) /\ (pc = "done" => out = Components)
  BY Zenon DEF ListingSaysCatalogue, SaysCatalogue
<1>1. CASE OperatorLines
  <2>1. Len(Understand(out)) = next - 1 /\ next - 1 <= Len(Operators) /\ Len(Operators) \in Nat /\ next \in Nat \ {0}
    BY <1>1, OperatorTypes DEF OperatorLines, CatalogInv, LoopsInv, Listing
  <2>2. ASSUME NEW i \in 1..(next - 1) PROVE SaysCatalogue(i)
    <3>1. Operators[i] \in Range(Operators)
      <4>1. i \in 1..Len(Operators)
        BY <2>1
      <4> QED
        BY <4>1, InRange
    <3>2. CASE i = next - 1 /\ pc \in Listing
      BY <1>1, <3>2, CurrentSays, Zenon DEF CatalogInv
    <3>3. CASE ~(i = next - 1 /\ pc \in Listing)
      <4>1. EndedAt(i, Understand(out)[i], text, written, creates)
        BY <1>1, <3>3, Zenon DEF OperatorLines, EndedAt
      <4> QED
        BY <1>1, <3>1, <3>3, <4>1, EndedSays, Zenon DEF CatalogInv
    <3> QED
      BY <3>2, <3>3
  <2>3. pc = "done" => Len(Understand(out)) = Len(Operators)
    BY <1>1, <2>1 DEF OperatorLines
  <2>4. ~\E k \in 1..Len(out) : out[k].kind = "component"
    BY <1>1, Zenon DEF OperatorLines
  <2> QED
    BY <2>1, <2>2, <2>3, <2>4, Zenon
<1>2. CASE ReleaseLines
  <2>1. Understand(out) = <<>> /\ Len(<<>>) = 0 /\ 1..0 = {}
    BY <1>2 DEF ReleaseLines
  <2>2. Components \in Seq(Lines) /\ Len(Components) = Len(Tags) /\ next \in Nat \ {0} /\ Len(Tags) \in Nat
    <3>1. \A i \in 1..Len(Tags) : Tags[i] \in Values
      BY OperatorTypes DEF Values
    <3>2. \A v \in Values : Line("component", v) \in Lines
      BY DEF Line, Lines, LineKinds
    <3>3. \A i \in 1..Len(Tags) : Line("component", Tags[i]) \in Lines
      BY <3>1, <3>2, Zenon
    <3> QED
      BY <3>3, OperatorTypes DEF Components, CatalogInv, LoopsInv
  <2>3. next - 1 \in 0..Len(Components) /\ (pc = "done" => next - 1 = Len(Components))
    BY <1>2, <2>2 DEF ReleaseLines
  <2>4. out = Upto(Components, next - 1)
    BY <1>2, Zenon DEF ReleaseLines
  <2>5. IsPrefix(Upto(Components, next - 1), Components) /\ Upto(Components, Len(Components)) = Components
    BY <2>2, <2>3, UptoStep, UptoPrefix
  <2> QED
    BY <2>1, <2>3, <2>4, <2>5, Zenon
<1> QED
  BY <1>1, <1>2, Zenon DEF CatalogInv, LinesInv

-----------------------------------------------------------------------------
(* The theorems *)

\* The reading of the lines has the closed form of CatalogInv in every state.
THEOREM CatalogInvAlways == Spec => []CatalogInv
<1>1. Init => CatalogInv
  BY CatalogInit
<1>2. CatalogInv /\ [Next]_vars => CatalogInv'
  BY CatalogStep
<1> QED
  BY <1>1, <1>2, PTL DEF Spec

\* So the lines of a listing (manifest.go:107-157, 210-226) say what the catalogues
\* declare, in order, each entry under its channel, whatever another run writes.
THEOREM ListingSaysCatalogueAlways == Spec => []ListingSaysCatalogue
<1>1. CatalogInv => ListingSaysCatalogue
  BY InvSays
<1> QED
  BY <1>1, CatalogInvAlways, PTL
=============================================================================
