--------------------------- MODULE CollectorClaims ---------------------------
(***************************************************************************)
(* What the comments and the README say of a run, beyond what Collector    *)
(* guarantees: the abstract cache it is meant to be, and the claims that   *)
(* the code does not keep.                                                 *)
(***************************************************************************)
EXTENDS Collector

-----------------------------------------------------------------------------
(* The cache as a snapshot of an image *)

\* What p was told by a run that listed an operator index and exited 0.
told(p) ==
  IF pc[p] = "ok" /\ job[p].kind = "operator"
  THEN [cache |-> slot(p), shown |-> shown[p]] ELSE None

Cache == INSTANCE SnapshotCache WITH
  Clients  <- Procs,
  Caches   <- Slots,
  Sources  <- [s \in Slots |-> {r \in Refs : imageIndexDir(r) = s.key}],
  Listing  <- [m \in Images |-> Catalogue(m)],
  Nothing  <- None,
  history  <- registry,
  snapshot <- first,
  answer   <- [p \in Procs |-> told(p)]

\* With one run at a time, and as long as no extraction is cut off or fails half
\* way, every listing of a directory name, by the run that fills the cache or by
\* any later one, whatever has been pushed since and wherever else runs died, is
\* the complete catalogue of the one image the first download brought.
ListsOneSnapshot == Cache!Spec

-----------------------------------------------------------------------------
(* Claims the code does not keep *)

\* What untar writes of image m below toDir(s) is all there.
Untarred(s, m) ==
  LET files == {e \in Entries(m) : e.type = "reg" /\ Matches(e, labelOf(s, m))}
      at(e) == Resolve(toDir(s), e.name)
  IN files # {} /\ \A e \in files : at(e) \in DOMAIN tree /\ tree[at(e)] \in Data

\* list-images.go:59 "first check if the artifact of interest has been downloaded
\* / if so then skip this step": a run that skips the download finds it extracted.
SkipsOnlyDownloaded ==
  \A p \in Procs :
    pc[p] = "readdir" /\ hit[p] =>
      \E m \in Images : Untarred(slot(p), m)

\* README.md:15 "list all release images": a release run that gets to the listing
\* finds the release's image-references.
ReleaseIsListed ==
  \A p \in Procs :
    pc[p] = "schema" =>
      artifactsFile(slot(p)) \in DOMAIN tree /\ tree[artifactsFile(slot(p))] \in Data
=============================================================================
