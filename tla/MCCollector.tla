---------------------------- MODULE MCCollector ----------------------------
(***************************************************************************)
(* Small registries for the runs of Collector: one image for each way an   *)
(* extraction can go, references that do and do not share a directory, and *)
(* what the mirror tool may have left in working-dir.                      *)
(***************************************************************************)
EXTENDS CollectorClaims

CONSTANTS p1, p2

dir(q)    == [type |-> "dir", name |-> q, data |-> "nothing"]
file(q, d) == [type |-> "reg", name |-> q, data |-> d]
link(q)   == [type |-> "other", name |-> q, data |-> "nothing"]
gzip(es)  == [readable |-> TRUE, entries |-> es]
zstd      == [readable |-> FALSE, entries |-> <<>>]

catalog(o, d) == << dir(<<"configs", o>>), file(<<"configs", o, "catalog.json">>, d) >>

AllImages == {"plain", "layered", "other-label", "no-label", "zstd", "no-dirs", "clash", "release"}

\* An entry that leads out of its directory, then a layer that does not open
climbing == "climbing"

MCLayers == [m \in AllImages \cup {climbing} |->
  CASE m = "plain" -> << gzip(<<dir(<<"configs">>)>> \o catalog("op1", "p1")) >>
    [] m = "layered" ->
         << gzip(<<dir(<<"etc">>), file(<<"etc", "passwd">>, "etc")>>),
            gzip(<<dir(<<"configs">>)>> \o catalog("op1", "l1")),
            gzip(catalog("op1", "l2") \o
                 <<dir(<<"configs", "op2">>), link(<<"configs", "op2", "latest">>)>>) >>
    [] m = "other-label" ->
         << gzip(<<dir(<<"catalogs">>), file(<<"catalogs", "op1">>, "c1")>>) >>
    [] m = "no-label" ->
         << gzip(<<dir(<<>>), dir(<<"configs">>)>> \o catalog("op1", "n1")) >>
    [] m = "zstd" -> << gzip(<<dir(<<"configs">>)>> \o catalog("op1", "z1")), zstd >>
    [] m = "no-dirs" -> << gzip(<<file(<<"configs", "op1", "catalog.json">>, "d1")>>) >>
    [] m = "clash" -> << gzip(<<dir(<<"configs">>), file(<<"configs", "op1">>, "x1")>>),
                         gzip(catalog("op1", "x2")) >>
    [] m = climbing ->
         << gzip(catalog("op1", "u1") \o
                 <<file(<<"configs", "..", "..", "op1">>, "u2")>>), zstd >>
    [] m = "release" ->
         << gzip(<<dir(<<"release-manifests">>),
                   file(<<"release-manifests", "image-references">>, "r1")>>) >>]

MCLabel == [m \in AllImages \cup {climbing} |->
  CASE m = "other-label" -> [slash |-> TRUE, dir |-> "catalogs"]
    [] m \in {"no-label", "release"} -> [slash |-> FALSE, dir |-> ""]
    [] OTHER -> [slash |-> TRUE, dir |-> "configs"]]

MCWithin == {<<w, w>> : w \in {"configs", "catalogs", "release-manifests"}}

MCSegment ==
  {workingDir, "logs", "util.log", "etc", "passwd", "catalog.json", "op1", "op2", "latest",
   "operator-index", "ocp-release", "v4", "image-references", ".."}
  \cup {imageDir(k) : k \in Kinds} \cup {extractDir(k) : k \in Kinds}
  \cup {joined(r.name) : r \in Refs} \cup {w[1] : w \in MCWithin}

MCData == {"nothing", "etc", "p1", "l1", "l2", "c1", "n1", "z1", "d1", "x1", "x2", "r1", "u1", "u2"}

quay   == [repo |-> "quay.io", name |-> "operator-index", tag |-> "v4", says |-> {"operator"}]
harbor == [quay EXCEPT !.repo = "harbor"]
latest == [quay EXCEPT !.tag = ""]
ocp    == [repo |-> "quay.io", name |-> "ocp-release", tag |-> "v4", says |-> {"release"}]

\* What the mirror tool extracted for ocp.
mirrored ==
  LET f == artifactsFile(SlotOf("release", ocp))
  IN [q \in Prefixes(f) |-> IF q = f THEN "r1" ELSE DirNode]
nothing == [q \in {} |-> DirNode]

-----------------------------------------------------------------------------
(* What the runs of one terminal meet: every image, every reference *)

AllRefs == {quay, latest, ocp}
AllServed == [r \in AllRefs |-> IF r = ocp THEN "release" ELSE "layered"]

\* No extraction of these ends half way; nor is one cut off at these steps.
Whole == AllImages \ {"zstd", "clash"}
OutsideExtraction == Steps \ {"layer", "untar", "fill"}
OutsideWriting == OutsideExtraction \ {"seal", "write"}

\* Operator images that are listed when nothing goes wrong
Listable == {"plain", "layered", "no-label"}

\* What two terminals meet: one directory for two references
TwinRefs == {quay, harbor}
TwinImages == {climbing, "layered"}
TwinServed == [r \in TwinRefs |-> IF r = quay THEN "layered" ELSE climbing]

\* What one terminal with the same two references meets
SameServed == [r \in TwinRefs |-> IF r = quay THEN "layered" ELSE "plain"]

(* Bounds on the environment *)
Calm      == [runs |-> 2, pushes |-> 0, kills |-> 0, faults |-> 0]
Busy      == [runs |-> 3, pushes |-> 1, kills |-> 1, faults |-> 1]
Rough     == [runs |-> 4, pushes |-> 1, kills |-> 1, faults |-> 2]
Overlap   == [runs |-> 2, pushes |-> 1, kills |-> 1, faults |-> 0]
=============================================================================
