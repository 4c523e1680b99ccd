------------------------------ MODULE Metadata ------------------------------
(***************************************************************************)
(* The metadata of past mirrorings in package v1alpha2, which a client     *)
(* loads, changes and saves as JSON.  No other package of the repository   *)
(* calls it, so the client is any: it calls in any order, and the document *)
(* it loads may be of another version of the tool.                         *)
(***************************************************************************)
EXTENDS Naturals, Sequences

CONSTANTS
  Foreign,   \* type names of another version
  NotString  \* a JSON value that is not a string

VARIABLES
  doc,     \* the stored document
  own,     \* has this version written it?
  mem,     \* the Metadata in memory
  loaded,  \* history: is it as it was loaded from the document?
  result   \* of the last call: "ok" or "error"

metadataVars == <<doc, own, mem, loaded, result>>

\* The ImageTypes, in the order of iota.
TypeInvalid == 0
TypeOCPRelease == 1
TypeOCPReleaseContent == 2
TypeCincinnatiGraph == 3
TypeOperatorCatalog == 4
TypeOperatorBundle == 5
TypeOperatorRelatedImage == 6
TypeGeneric == 7
ImageType == 0..8

TypeOCP == 0
TypeOKD == 1
PlatformType == 0..2

\* The two tables of each type, each written out in the code: from a type to its
\* string ...
imageTypeStrings ==
  <<"ocpRelease", "ocpReleaseContent", "cincinnatiGraph", "operatorCatalog",
    "operatorBundle", "operatorRelatedImage", "generic">>
platformTypeStrings == [t \in {TypeOCP, TypeOKD} |-> IF t = TypeOCP THEN "ocp" ELSE "okd"]

\* Mutant: two lines of the second table are confused.
imageStringsConfused ==
  [ocpReleaseContent |-> TypeOCPRelease, cincinnatiGraph |-> TypeCincinnatiGraph,
   ocpRelease |-> TypeOCPRelease, operatorCatalog |-> TypeOperatorCatalog,
   operatorBundle |-> TypeOperatorBundle,
   operatorRelatedImage |-> TypeOperatorRelatedImage, generic |-> TypeGeneric]

\* ... and from a string to its type.
imageStrings ==
  [ocpReleaseContent |-> TypeOCPReleaseContent, cincinnatiGraph |-> TypeCincinnatiGraph,
   ocpRelease |-> TypeOCPRelease, operatorCatalog |-> TypeOperatorCatalog,
   operatorBundle |-> TypeOperatorBundle,
   operatorRelatedImage |-> TypeOperatorRelatedImage, generic |-> TypeGeneric]
platformStrings == [ocp |-> TypeOCP, okd |-> TypeOKD]

\* The names this version writes.
imageNames == {imageTypeStrings[i] : i \in DOMAIN imageTypeStrings}

ASSUME MetadataAssumption ==
  /\ Foreign \cap (imageNames \cup DOMAIN imageStrings \cup {"ocp", "okd", ""}) = {}
  /\ NotString \notin imageNames /\ NotString \notin {"ocp", "okd"}

\* A Metadata with one Association and, in its Mirror, one ReleaseChannel; which
\* digests and names the Association has set.
Document == [type : imageNames \cup Foreign \cup {"", NotString}, manifests : BOOLEAN, layers : BOOLEAN,
             id : BOOLEAN, platform : {"ocp", "okd", "", NotString} \cup Foreign]

\* ImageType.validate and PlatformType.validate
validImage(t) == t \in DOMAIN imageTypeStrings
validPlatform(t) == t \in DOMAIN platformTypeStrings

\* Mutant: a string that is not in the table is of the generic type.
imageStringsTypeGeneric(s) == IF s \in DOMAIN imageStrings THEN imageStrings[s] ELSE TypeGeneric

\* A string that is not in a table has the zero value.
imageStringsType(s) == IF s \in DOMAIN imageStrings THEN imageStrings[s] ELSE TypeInvalid
platformStringsType(s) == IF s \in DOMAIN platformStrings THEN platformStrings[s] ELSE TypeOCP

\* MarshalJSON and UnmarshalJSON of the two types, in a Metadata.
Marshallable(m) == validImage(m.type) /\ validPlatform(m.platform)
MarshalTypes(m) ==
  [m EXCEPT !.type = imageTypeStrings[@], !.platform = platformTypeStrings[@]]
Unmarshallable(d) == d.type # NotString /\ d.platform # NotString
UnmarshalTypes(d) == [d EXCEPT !.type = imageStringsType(@), !.platform = platformStringsType(@)]

MetadataInit ==
  /\ mem = [type |-> TypeInvalid, manifests |-> FALSE, layers |-> FALSE, id |-> FALSE, platform |-> TypeOCP]
  /\ doc \in Document /\ own = FALSE /\ loaded = FALSE
  /\ result = "ok"

\* Into a new Metadata, which the client takes if there is no error.  Any string
\* unmarshals, and a field that is left out (here "") has the zero value.
UnmarshalJSON ==
  /\ IF Unmarshallable(doc)
     THEN mem' = UnmarshalTypes(doc) /\ loaded' = TRUE /\ result' = "ok"
     ELSE result' = "error" /\ UNCHANGED <<mem, loaded>>
  /\ UNCHANGED <<doc, own>>

\* The client sets a field.
Record ==
  /\ \/ \E t \in ImageType : mem' = [mem EXCEPT !.type = t]
     \/ \E t \in PlatformType : mem' = [mem EXCEPT !.platform = t]
     \/ mem' = [mem EXCEPT !.manifests = ~@]
     \/ mem' = [mem EXCEPT !.layers = ~@]
     \/ mem' = [mem EXCEPT !.id = ~@]
  /\ loaded' = FALSE /\ result' = "ok"
  /\ UNCHANGED <<doc, own>>

\* Association.Validate: one kind of digests, an ID or a tag, a type.
Validate ==
  /\ result' = IF mem.manifests # mem.layers /\ mem.id /\ validImage(mem.type) THEN "ok" ELSE "error"
  /\ UNCHANGED <<doc, own, mem, loaded>>

\* Metadata.MarshalJSON encodes an anonymous struct with the same fields; the
\* MarshalJSON of a type in it may fail.
MarshalMetadata ==
  /\ IF Marshallable(mem)
     THEN doc' = MarshalTypes(mem) /\ own' = TRUE /\ result' = "ok"
     ELSE result' = "error" /\ UNCHANGED <<doc, own>>
  /\ UNCHANGED <<mem, loaded>>

MetadataNext == UnmarshalJSON \/ Record \/ Validate \/ MarshalMetadata

MetadataSpec == MetadataInit /\ [][MetadataNext]_metadataVars

-----------------------------------------------------------------------------

\* A document that this version wrote is loaded and saved again without a loss,
\* whatever was loaded, changed and saved before it: the two tables of each type,
\* which the code writes out apart, agree (type_image.go:25-68,
\* type_platform.go:22-55).
OwnDocumentsSurvive ==
  own =>
    /\ Unmarshallable(doc) /\ Marshallable(UnmarshalTypes(doc))
    /\ MarshalTypes(UnmarshalTypes(doc)) = doc

\* Loading a document and saving it again never changes the type of an image: one
\* of another version is loaded as not set, and then the save fails
\* (type_image.go:51-81).  The platform's has no such value, and becomes "ocp".
TypeSurvivesResave == [][loaded /\ doc' # doc => doc'.type = doc.type]_metadataVars
=============================================================================
