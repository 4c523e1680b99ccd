------------------------------ MODULE Catalog -------------------------------
(***************************************************************************)
(* The listing that ends a run: the loop over the operators with           *)
(* ListCatalogs and readOperatorCatalog, the release with GetReleaseSchema,*)
(* and the logger that prints all of it.  Another run may be extracting    *)
(* the very files meanwhile (they are created empty and then grow).        *)
(*                                                                         *)
(* A catalog.json is a sequence of JSON objects with the white space       *)
(* between one and the next, its gap.  The decoder removes every space of  *)
(* the text, in the strings too, and turns "}\n{" into "},{"; any other    *)
(* gap is an error of the whole file.                                      *)
(***************************************************************************)
EXTENDS Naturals, Sequences, SequencesExt

CONSTANTS
  Operators,   \* the directories of configsDir, in order
  Texts,       \* texts a catalog.json can have: [objs, gaps], gaps[k] after objs[k]
  Stripped,    \* Stripped[v] : the string v without its spaces
  Tags,        \* the tags of the release, in order
  Levels,      \* values of --loglevel
  Kinds,       \* which of "operator" and "release" is listed
  MaxCreates   \* times another run creates the file of one operator

VARIABLES
  pc,       \* where the listing is
  level,    \* level of the logger
  text,     \* text[o] : the complete catalog.json of operator o
  written,  \* written[o] : [there, k, inside], what of it is on disk: k objects,
            \* and possibly a piece of the next
  creates,  \* how often it has been created while the listing runs
  next,     \* index of the next operator (or tag)
  olm,      \* the decoded objects of the operator that is listed
  at,       \* [object, entry, skip], where the loops over them are
  out       \* the lines on the terminal

files == <<text, written, creates>>
vars == <<pc, level, files, next, olm, at, out>>

Strings == DOMAIN Stripped
Whitespace == {"space", "newline", "return"}

\* DeclarativeConfig and ChannelEntry, as far as they are printed; "" and <<>>
\* stand for a field that is left out.
ChannelEntry == [name : Strings, replaces : Strings, skips : Seq(Strings), skipRange : Strings]
DeclarativeConfig == [schema : {"olm.package", "olm.channel", "olm.bundle"}, name : Strings,
                      entries : Seq(ChannelEntry)]
Text == [objs : Seq(DeclarativeConfig), gaps : Seq(Seq(Whitespace))]

ASSUME CatalogAssumption ==
  /\ Texts \subseteq Text
  /\ \A t \in Texts : t.objs # <<>> /\ Len(t.gaps) = Len(t.objs) - 1
  /\ Stripped \in [Strings -> Strings]
  /\ "" \in Strings /\ \A v \in Strings : Stripped[Stripped[v]] = Stripped[v]
  /\ Operators \in Seq(STRING) /\ Tags \in Seq(STRING)
  /\ Kinds \subseteq {"operator", "release"}

Whole(o) == [there |-> TRUE, k |-> Len(text[o].objs), inside |-> FALSE]
Absent == [there |-> FALSE, k |-> 0, inside |-> FALSE]

Init ==
  /\ pc \in {IF kind = "operator" THEN "files" ELSE "schema" : kind \in Kinds}
  /\ level \in Levels
  /\ text \in [Range(Operators) -> Texts]
  /\ written \in {w \in [Range(Operators) -> {Absent} \cup {Whole(o) : o \in Range(Operators)}] :
                    \A o \in Range(Operators) : w[o] \in {Absent, Whole(o)}}
  /\ creates = [o \in Range(Operators) |-> 0]
  /\ next = 1 /\ olm = <<>> /\ out = <<>>
  /\ at = [object |-> 1, entry |-> 1, skip |-> 1]

-----------------------------------------------------------------------------
(* The other run *)

\* os.Create empties the file ...
Create(o) ==
  /\ creates[o] < MaxCreates
  /\ creates' = [creates EXCEPT ![o] = @ + 1]
  /\ written' = [written EXCEPT ![o] = [Absent EXCEPT !.there = TRUE]]
  /\ UNCHANGED <<pc, level, text, next, olm, at, out>>

\* ... and io.Copy fills it, in pieces that need not end with an object.
Grow(o) ==
  /\ written[o].there /\ written[o] # Whole(o)
  /\ \E k \in written[o].k..Len(text[o].objs), inside \in BOOLEAN :
       /\ inside => k < Len(text[o].objs)
       /\ k > written[o].k \/ (inside /\ ~written[o].inside)
       /\ written' = [written EXCEPT ![o].k = k, ![o].inside = inside]
  /\ UNCHANGED <<pc, level, text, creates, next, olm, at, out>>

-----------------------------------------------------------------------------
(* The listing *)

\* Logger.Info prints at these levels only; Error always prints.
Prints == level \in {"info", "debug", "trace"}
Info(lines) == out' = IF Prints THEN out \o lines ELSE out

\* The first k objects of t, without the spaces.
DecodedEntry(e) ==
  [name |-> Stripped[e.name], replaces |-> Stripped[e.replaces],
   skips |-> [n \in DOMAIN e.skips |-> Stripped[e.skips[n]]], skipRange |-> Stripped[e.skipRange]]
DecodedObject(c) ==
  [schema |-> c.schema, name |-> Stripped[c.name],
   entries |-> [j \in DOMAIN c.entries |-> DecodedEntry(c.entries[j])]]
Decoded(t, k) == [i \in 1..k |-> DecodedObject(t.objs[i])]

\* The separators of the first k objects are the ones that are rewritten.
Joined(t, k) == \A i \in 1..(k - 1) : SelectSeq(t.gaps[i], LAMBDA c : c # "space") = <<"newline">>

\* Mutant: what decodes before the first bad separator is kept.
readSome(o) ==
  LET good == {k \in 0..written[o].k : Joined(text[o], k)}
      k    == CHOOSE j \in good : \A i \in good : i <= j
  IN [ok |-> written[o].there, olm |-> Decoded(text[o], k)]

\* An empty file is an empty list, and so no error.
readOperatorCatalog(o) ==
  LET w == written[o]
  IN IF w.there /\ ~w.inside /\ Joined(text[o], w.k)
     THEN [ok |-> TRUE, olm |-> Decoded(text[o], w.k)]
     ELSE [ok |-> FALSE, olm |-> <<>>]

Line(kind, v) == [kind |-> kind, value |-> v]
Given(kind, v) == IF v = "" THEN <<>> ELSE <<Line(kind, v)>>

object == olm[at.object]
entry == object.entries[at.entry]

\* The loop of Collect: the name of the operator, then its catalogue is read.
NextOperator ==
  /\ pc = "files" /\ next <= Len(Operators)
  /\ LET read == readOperatorCatalog(Operators[next])
     IN /\ pc' = IF read.ok THEN "objects" ELSE "failed"
        /\ olm' = read.olm
  /\ Info(<<Line("operator", Operators[next])>>)
  /\ next' = next + 1 /\ at' = [at EXCEPT !.object = 1]
  /\ UNCHANGED <<level, files>>

\* The error of a catalogue is logged, and the loop goes on.
LogError ==
  /\ pc = "failed" /\ pc' = "files"
  /\ out' = Append(out, Line("error", Operators[next - 1]))
  /\ UNCHANGED <<level, files, next, olm, at>>

\* ListCatalogs: an object that is not a channel takes a line or none ...
ListObject ==
  /\ pc = "objects" /\ at.object <= Len(olm) /\ object.schema # "olm.channel"
  /\ Info(IF object.schema = "olm.bundle" THEN <<Line("bundle", object.name)>> ELSE <<>>)
  /\ at' = [at EXCEPT !.object = @ + 1]
  /\ UNCHANGED <<pc, level, files, next, olm>>

\* ... and a channel is followed by its entries,
ListChannel ==
  /\ pc = "objects" /\ at.object <= Len(olm) /\ object.schema = "olm.channel"
  /\ Info(<<Line("channel", object.name)>>)
  /\ pc' = "entries" /\ at' = [at EXCEPT !.entry = 1]
  /\ UNCHANGED <<level, files, next, olm>>

\* each of them by what it replaces, what it skips,
ListEntry ==
  /\ pc = "entries" /\ at.entry <= Len(object.entries)
  /\ Info(<<Line("name", entry.name)>> \o Given("replaces", entry.replaces))
  /\ pc' = "skips" /\ at' = [at EXCEPT !.skip = 1]
  /\ UNCHANGED <<level, files, next, olm>>

ListSkip ==
  /\ pc = "skips" /\ at.skip <= Len(entry.skips)
  /\ Info(<<Line("skips", entry.skips[at.skip])>>)
  /\ at' = [at EXCEPT !.skip = @ + 1]
  /\ UNCHANGED <<pc, level, files, next, olm>>

\* and the range it skips.
EndEntry ==
  /\ pc = "skips" /\ at.skip > Len(entry.skips)
  /\ Info(Given("skiprange", entry.skipRange))
  /\ pc' = "entries" /\ at' = [at EXCEPT !.entry = @ + 1]
  /\ UNCHANGED <<level, files, next, olm>>

EndChannel ==
  /\ pc = "entries" /\ at.entry > Len(object.entries)
  /\ pc' = "objects" /\ at' = [at EXCEPT !.object = @ + 1]
  /\ UNCHANGED <<level, files, next, olm, out>>

ListedAll ==
  /\ \/ pc = "objects" /\ at.object > Len(olm) /\ pc' = "files"
     \/ pc = "files" /\ next > Len(Operators) /\ pc' = "done"
     \/ pc = "tags" /\ next > Len(Tags) /\ pc' = "done"
  /\ UNCHANGED <<level, files, next, olm, at, out>>

\* GetReleaseSchema: a file that is missing or cut does not decode.
GetReleaseSchema ==
  /\ pc = "schema"
  /\ pc' \in {"tags", "error"}
  /\ UNCHANGED <<level, files, next, olm, at, out>>

ListTag ==
  /\ pc = "tags" /\ next <= Len(Tags)
  /\ Info(<<Line("component", Tags[next])>>)
  /\ next' = next + 1
  /\ UNCHANGED <<pc, level, files, olm, at>>

Finished == pc \in {"done", "error"} /\ UNCHANGED vars

Next ==
  \/ NextOperator \/ LogError \/ ListObject \/ ListChannel \/ ListEntry \/ ListSkip
  \/ EndEntry \/ EndChannel \/ ListedAll \/ GetReleaseSchema \/ ListTag \/ Finished
  \/ \E o \in Range(Operators) : Create(o) \/ Grow(o)

Spec == Init /\ [][Next]_vars

-----------------------------------------------------------------------------
(* What a reader makes of the lines on the terminal *)

\* A reading is [op, objs, failed] for each operator; one more line adds to the
\* last of them.
Heard(read, line) ==
  LET v == line.value
      n == Len(read)
      m == Len(read[n].objs)
      k == Len(read[n].objs[m].entries)
      kind == IF line.kind = "channel" THEN "olm.channel" ELSE "olm.bundle"
  IN CASE line.kind = "operator" -> Append(read, [op |-> v, objs |-> <<>>, failed |-> FALSE])
       [] line.kind = "component" -> read
       [] line.kind = "error" -> [read EXCEPT ![n].failed = TRUE]
       [] line.kind \in {"channel", "bundle"} ->
            [read EXCEPT ![n].objs = Append(@, [schema |-> kind, name |-> v, entries |-> <<>>])]
       [] line.kind = "name" ->
            [read EXCEPT ![n].objs[m].entries =
               Append(@, [name |-> v, replaces |-> "", skips |-> <<>>, skipRange |-> ""])]
       [] line.kind = "replaces" -> [read EXCEPT ![n].objs[m].entries[k].replaces = v]
       [] line.kind = "skips" -> [read EXCEPT ![n].objs[m].entries[k].skips = Append(@, v)]
       [] line.kind = "skiprange" -> [read EXCEPT ![n].objs[m].entries[k].skipRange = v]

\* The listings the lines spell out.
Understand(lines) ==
  LET read[k \in 0..Len(lines)] == IF k = 0 THEN <<>> ELSE Heard(read[k - 1], lines[k])
  IN read[Len(lines)]

\* What a catalogue declares that a listing shows: no packages, and entries only
\* in channels.
Shows(seen, obj) ==
  CASE obj.schema = "olm.package" -> seen
    [] obj.schema = "olm.channel" -> Append(seen, obj)
    [] OTHER -> Append(seen, [obj EXCEPT !.entries = <<>>])
Shown(objs) ==
  LET seen[k \in 0..Len(objs)] == IF k = 0 THEN <<>> ELSE Shows(seen[k - 1], objs[k])
  IN seen[Len(objs)]

Declared(o) == Shown(text[o].objs)
SpaceFree(o) == text[o].objs = Decoded(text[o], Len(text[o].objs))
Components == [i \in 1..Len(Tags) |-> Line("component", Tags[i])]

\* The first of a sequence, the last of them being PartOf the one it stands for.
Begins(part, whole, PartOf(_, _)) ==
  /\ part # <<>> /\ Len(part) <= Len(whole)
  /\ IsPrefix(Front(part), whole) /\ PartOf(Last(part), whole[Len(part)])
PartOfEntry(e, whole) ==
  /\ e = [whole EXCEPT !.skips = e.skips, !.skipRange = ""]
  /\ IsPrefix(e.skips, whole.skips)
PartOfChannel(c, whole) ==
  /\ c = [whole EXCEPT !.entries = c.entries]
  /\ IF pc = "skips" THEN Begins(c.entries, whole.entries, PartOfEntry)
                     ELSE IsPrefix(c.entries, whole.entries)

\* The lines of a listing can be understood in one way, and say what the
\* catalogue says: for every operator without spaces in its strings, the
\* channels, entries and bundles from the first on, each under its own
\* channel and the last one as far as it is printed, and none beside an error.
\* Unless somebody writes the file, a listing that ends has all of them if
\* newlines separate the objects, and an error if not.  The components of a
\* release are listed in order, and all of them (manifest.go:107-157, 210-226,
\* list-images.go:136-142, 196-202).
ListingSaysCatalogue ==
  Prints =>
    LET read == Understand(out) IN
    /\ \A i \in 1..Len(read) : LET o == Operators[i] objs == read[i].objs IN
         /\ read[i].op = o
         /\ read[i].failed => objs = <<>>
         /\ SpaceFree(o) =>
              /\ IF pc \in {"entries", "skips"} /\ i = Len(read)
                 THEN Begins(objs, Declared(o), PartOfChannel) ELSE IsPrefix(objs, Declared(o))
              /\ pc = "done" /\ creates[o] = 0 =>
                   IF written[o].there /\ Joined(text[o], Len(text[o].objs))
                   THEN objs = Declared(o) ELSE read[i].failed
    /\ pc = "done" => Len(read) \in {0, Len(Operators)}
    /\ (\E k \in 1..Len(out) : out[k].kind = "component") =>
         IsPrefix(out, Components) /\ (pc = "done" => out = Components)
=============================================================================
