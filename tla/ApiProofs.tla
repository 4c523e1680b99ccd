------------------------------ MODULE ApiProofs ------------------------------
(***************************************************************************)
(* What package v1alpha2 promises any client: theorems about Metadata, for *)
(* any type names of other versions, and about OperatorConfig, for any     *)
(* catalogues, targets and include configs.                                *)
(***************************************************************************)
EXTENDS Metadata, OperatorConfig, SequenceTheorems, TLAPS

-----------------------------------------------------------------------------
(* The metadata *)

\* The Metadata in memory, and one of this version's documents.
Memory == [type : ImageType, manifests : BOOLEAN, layers : BOOLEAN, id : BOOLEAN, platform : PlatformType]

MetadataTypeOK == mem \in Memory /\ doc \in Document

\* A document that this version wrote has names of this version only.
OwnNames == own => doc.type \in imageNames /\ doc.platform \in {"ocp", "okd"}

\* What was loaded has the type that the document says, as long as nothing was set.
LoadedType == loaded => mem.type = imageStringsType(doc.type)

MetadataInv == MetadataTypeOK /\ OwnNames /\ LoadedType

\* The two tables of an image type agree: every name leads to a type, and that type
\* back to the name.
LEMMA ImageNames ==
  /\ DOMAIN imageTypeStrings = 1..7 /\ \A i \in 1..7 : imageTypeStrings[i] \in imageNames
  /\ \A s \in imageNames : imageStringsType(s) \in 1..7 /\ imageTypeStrings[imageStringsType(s)] = s
  /\ \A s : s \notin imageNames => imageStringsType(s) = 0
<1>1. DOMAIN imageTypeStrings = 1..7
  BY DEF imageTypeStrings
<1>2. imageNames = {"ocpRelease", "ocpReleaseContent", "cincinnatiGraph", "operatorCatalog",
                    "operatorBundle", "operatorRelatedImage", "generic"}
  <2>1. imageNames = {imageTypeStrings[i] : i \in 1..7}
    BY <1>1 DEF imageNames
  <2>2. /\ imageTypeStrings[1] = "ocpRelease" /\ imageTypeStrings[2] = "ocpReleaseContent"
        /\ imageTypeStrings[3] = "cincinnatiGraph" /\ imageTypeStrings[4] = "operatorCatalog"
        /\ imageTypeStrings[5] = "operatorBundle" /\ imageTypeStrings[6] = "operatorRelatedImage"
        /\ imageTypeStrings[7] = "generic"
    BY DEF imageTypeStrings
  <2>3. 1..7 = {1, 2, 3, 4, 5, 6, 7}
    OBVIOUS
  <2>4. QED
    BY <2>1, <2>2, <2>3
<1>3. \A i \in 1..7 : imageTypeStrings[i] \in imageNames
  BY <1>1 DEF imageNames
<1>4. DOMAIN imageStrings = imageNames
  BY <1>2 DEF imageStrings
<1>5. ASSUME NEW s \in imageNames
      PROVE  imageStrings[s] \in 1..7 /\ imageTypeStrings[imageStrings[s]] = s
  BY <1>2 DEF imageStrings, imageTypeStrings, TypeOCPRelease, TypeOCPReleaseContent,
              TypeCincinnatiGraph, TypeOperatorCatalog, TypeOperatorBundle,
              TypeOperatorRelatedImage, TypeGeneric
<1>6. QED
  BY <1>1, <1>3, <1>4, <1>5 DEF imageStringsType, TypeInvalid

\* So do those of a platform.
LEMMA PlatformNames ==
  /\ DOMAIN platformTypeStrings = {0, 1}
  /\ platformTypeStrings[0] = "ocp" /\ platformTypeStrings[1] = "okd"
  /\ platformStringsType("ocp") = 0 /\ platformStringsType("okd") = 1
  /\ \A s : platformStringsType(s) \in {0, 1}
<1>1. /\ DOMAIN platformTypeStrings = {0, 1}
      /\ platformTypeStrings[0] = "ocp" /\ platformTypeStrings[1] = "okd"
  BY DEF platformTypeStrings, TypeOCP, TypeOKD
<1>2. /\ DOMAIN platformStrings = {"ocp", "okd"}
      /\ platformStrings["ocp"] = 0 /\ platformStrings["okd"] = 1
  BY DEF platformStrings, TypeOCP, TypeOKD
<1>3. QED
  BY <1>1, <1>2 DEF platformStringsType, TypeOCP

LEMMA InitMetadataInv == MetadataInit => MetadataInv
<1> SUFFICES ASSUME MetadataInit PROVE MetadataInv
  OBVIOUS
<1>1. mem \in Memory
  BY ImageNames DEF MetadataInit, Memory, ImageType, PlatformType, TypeInvalid, TypeOCP
<1>2. QED
  BY <1>1 DEF MetadataInit, MetadataInv, MetadataTypeOK, OwnNames, LoadedType

LEMMA NextMetadataInv ==
  ASSUME MetadataInv, [MetadataNext]_metadataVars
  PROVE  MetadataInv'
<1> USE DEF MetadataInv, MetadataTypeOK, OwnNames, LoadedType
<1>1. CASE UnmarshalJSON
  <2>1. CASE Unmarshallable(doc)
    <3>1. mem' = UnmarshalTypes(doc) /\ UNCHANGED <<doc, own>>
      BY <1>1, <2>1 DEF UnmarshalJSON
    <3>2. imageStringsType(doc.type) \in ImageType /\ platformStringsType(doc.platform) \in PlatformType
      <4>1. imageStringsType(doc.type) \in 0..7
        BY ImageNames
      <4>2. QED
        BY <4>1, PlatformNames DEF PlatformType, ImageType
    <3>3. mem' \in Memory /\ mem'.type = imageStringsType(doc.type)
      BY <3>1, <3>2 DEF UnmarshalTypes, Document, Memory
    <3>4. QED
      BY <3>1, <3>3
  <2>2. CASE ~Unmarshallable(doc)
    BY <1>1, <2>2 DEF UnmarshalJSON
  <2>3. QED
    BY <2>1, <2>2
<1>2. CASE Record
  <2>1. loaded' = FALSE /\ UNCHANGED <<doc, own>>
    BY <1>2 DEF Record
  <2>2. mem' \in Memory
    BY <1>2 DEF Record, Memory
  <2>3. QED
    BY <2>1, <2>2
<1>3. CASE MarshalMetadata
  <2>1. CASE Marshallable(mem)
    <3>1. doc' = MarshalTypes(mem) /\ own' = TRUE /\ UNCHANGED <<mem, loaded>>
      BY <1>3, <2>1 DEF MarshalMetadata
    <3>2. mem.type \in 1..7
      BY <2>1, ImageNames DEF Marshallable, validImage
    <3>3. platformTypeStrings[mem.platform] \in {"ocp", "okd"}
      BY <2>1, PlatformNames DEF Marshallable, validPlatform
    <3>4. doc' \in Document /\ doc'.type = imageTypeStrings[mem.type] /\ doc'.platform \in {"ocp", "okd"}
      BY <3>1, <3>2, <3>3, ImageNames DEF MarshalTypes, Memory, Document
    <3>5. loaded => doc'.type = doc.type
      BY <3>2, <3>4, ImageNames
    <3>6. QED
      BY <3>1, <3>2, <3>4, <3>5, ImageNames
  <2>2. CASE ~Marshallable(mem)
    BY <1>3, <2>2 DEF MarshalMetadata
  <2>3. QED
    BY <2>1, <2>2
<1>4. CASE Validate \/ UNCHANGED metadataVars
  BY <1>4 DEF Validate, metadataVars
<1>5. QED
  BY <1>1, <1>2, <1>3, <1>4 DEF MetadataNext

LEMMA MetadataInvariant == MetadataSpec => []MetadataInv
<1>1. MetadataInit => MetadataInv
  BY InitMetadataInv
<1>2. MetadataInv /\ [MetadataNext]_metadataVars => MetadataInv'
  BY NextMetadataInv
<1>3. QED
  BY <1>1, <1>2, PTL DEF MetadataSpec

\* Whatever a client loads, changes and saves: a document that this version wrote
\* is loaded and saved again without a loss (type_image.go:25-68,
\* type_platform.go:22-55).
THEOREM OwnDocumentsSurviveAlways == MetadataSpec => []OwnDocumentsSurvive
<1>1. MetadataInv => OwnDocumentsSurvive
  <2> SUFFICES ASSUME MetadataInv, own
               PROVE  /\ Unmarshallable(doc) /\ Marshallable(UnmarshalTypes(doc))
                      /\ MarshalTypes(UnmarshalTypes(doc)) = doc
    BY DEF OwnDocumentsSurvive
  <2> DEFINE m == UnmarshalTypes(doc)
  <2>1. doc \in Document /\ doc.type \in imageNames /\ doc.platform \in {"ocp", "okd"}
    BY DEF MetadataInv, MetadataTypeOK, OwnNames
  <2>2. Unmarshallable(doc)
    <3>1. NotString \notin imageNames /\ NotString \notin {"ocp", "okd"}
      BY MetadataAssumption, Zenon
    <3>2. QED
      BY <2>1, <3>1, Zenon DEF Unmarshallable
  <2>3. /\ m.type = imageStringsType(doc.type) /\ m.platform = platformStringsType(doc.platform)
        /\ m.manifests = doc.manifests /\ m.layers = doc.layers /\ m.id = doc.id
        /\ m \in Memory
    <3>1. imageStringsType(doc.type) \in ImageType /\ platformStringsType(doc.platform) \in PlatformType
      BY <2>1, ImageNames, PlatformNames DEF ImageType, PlatformType
    <3>2. QED
      BY <2>1, <3>1 DEF UnmarshalTypes, Document, Memory
  <2> HIDE DEF m
  <2>4. m.type \in 1..7 /\ imageTypeStrings[m.type] = doc.type
    BY <2>1, <2>3, ImageNames
  <2>5. m.platform \in {0, 1} /\ platformTypeStrings[m.platform] = doc.platform
    BY <2>1, <2>3, PlatformNames
  <2>6. Marshallable(m)
    BY <2>4, <2>5, ImageNames, PlatformNames DEF Marshallable, validImage, validPlatform
  <2>7. MarshalTypes(m) = doc
    BY <2>1, <2>3, <2>4, <2>5 DEF MarshalTypes, Document, Memory
  <2>8. QED
    BY <2>2, <2>6, <2>7 DEF m
<1>2. QED
  BY <1>1, MetadataInvariant, PTL

\* Loading a document of any version and saving it again never changes the type
\* of an image (type_image.go:51-81).
THEOREM TypeSurvivesResaveAlways == MetadataSpec => TypeSurvivesResave
<1>1. ASSUME MetadataInv, [MetadataNext]_metadataVars
      PROVE  [loaded /\ doc' # doc => doc'.type = doc.type]_metadataVars
  <2>1. CASE UnmarshalJSON \/ Record \/ Validate \/ UNCHANGED metadataVars
    BY <2>1 DEF UnmarshalJSON, Record, Validate, metadataVars
  <2>2. CASE MarshalMetadata /\ loaded /\ doc' # doc
    <3>1. doc' = MarshalTypes(mem) /\ Marshallable(mem)
      BY <2>2 DEF MarshalMetadata
    <3>2. mem.type \in 1..7
      BY <3>1, ImageNames DEF Marshallable, validImage
    <3>3. doc'.type = imageTypeStrings[mem.type]
      BY <1>1, <3>1 DEF MarshalTypes, MetadataInv, MetadataTypeOK, Memory
    <3>4. QED
      BY <1>1, <2>2, <3>2, <3>3, ImageNames DEF MetadataInv, LoadedType
  <2>3. QED
    BY <1>1, <2>1, <2>2 DEF MetadataNext
<1>2. QED
  BY <1>1, MetadataInvariant, PTL DEF MetadataSpec, TypeSurvivesResave

-----------------------------------------------------------------------------
(* The unique name of an operator catalogue *)

\* For any catalogues and targets: the unique name keeps registry and namespace
\* and carries the target name and tag where they are set (types_config.go:124-151).
THEOREM NameCarriesTargetAlways == OperatorSpec => []NameCarriesTarget
<1>0. DOMAIN <<>> = {} /\ \A x : DOMAIN <<x>> = {1} /\ <<x>>[1] = x
  OBVIOUS
<1>1. OperatorInit => NameCarriesTarget
  BY <1>0, Zenon DEF OperatorInit, NameCarriesTarget
<1>2. ASSUME NameCarriesTarget, [OperatorNext]_operatorVars
      PROVE  NameCarriesTarget'
  <2>1. CASE UNCHANGED name
    BY <1>2, <2>1 DEF NameCarriesTarget
  <2>2. CASE GetUniqueName
    <3>1. PICK c \in Catalogs, t \in Targets :
            name' = IF t = <<"", "">> THEN <<[catalog |-> c, target |-> t, is |-> c.ref]>>
                    ELSE IF Trimmed(c) > 0 THEN <<>>
                    ELSE <<[catalog |-> c, target |-> t, is |-> Exact(Retagged(c.ref, t))]>>
      BY <2>2 DEF GetUniqueName
    <3>2. c.ref \in Reference /\ t \in STRING \X STRING
      BY OperatorAssumption
    <3>3. ASSUME NEW r, name' = <<[catalog |-> c, target |-> t, is |-> r]>>,
                 r.registry = c.ref.registry, r.namespace = c.ref.namespace,
                 r.name = IF t[1] = "" THEN c.ref.name ELSE t[1],
                 t[2] # "" => r.tag = t[2] /\ r.id = "",
                 t[2] = "" => r.id = c.ref.id
          PROVE  NameCarriesTarget'
      <4> DEFINE x == [catalog |-> c, target |-> t, is |-> r]
      <4>1. x.catalog = c /\ x.target = t /\ x.is = r
        OBVIOUS
      <4> HIDE DEF x
      <4>2. DOMAIN name' = {1} /\ name'[1] = x
        BY <1>0, <3>3, Zenon DEF x
      <4>3. \A i \in DOMAIN name' :
              name'[i].is = r /\ name'[i].catalog = c /\ name'[i].target = t
        BY <4>1, <4>2, Zenon
      <4>4. QED
        BY <3>3, <4>3, Zenon DEF NameCarriesTarget
    <3>4. CASE t = <<"", "">>
      <4>1. name' = <<[catalog |-> c, target |-> t, is |-> c.ref]>> /\ t[1] = "" /\ t[2] = ""
        BY <3>1, <3>4
      <4>2. QED
        BY <3>3, <4>1
    <3>5. CASE t # <<"", "">> /\ ~(Trimmed(c) > 0)
      <4> DEFINE r == Exact(Retagged(c.ref, t))
      <4>1. /\ r.registry = c.ref.registry /\ r.namespace = c.ref.namespace
            /\ r.name = (IF t[1] = "" THEN c.ref.name ELSE t[1])
            /\ t[2] # "" => r.tag = t[2] /\ r.id = ""
            /\ t[2] = "" => r.id = c.ref.id
        BY <3>2 DEF Exact, Retagged, Reference
      <4> HIDE DEF r
      <4>2. name' = <<[catalog |-> c, target |-> t, is |-> r]>>
        BY <3>1, <3>5 DEF r
      <4>3. QED
        BY <3>3, <4>1, <4>2
    <3>6. CASE t # <<"", "">> /\ Trimmed(c) > 0
      <4>1. name' = <<>>
        BY <3>1, <3>6
      <4>2. QED
        BY <1>0, <4>1, Zenon DEF NameCarriesTarget
    <3>7. QED
      BY <3>4, <3>5, <3>6
  <2>3. QED
    BY <1>2, <2>1, <2>2 DEF OperatorNext, Encode, Decode, NewConfig, operatorVars
<1>3. QED
  BY <1>1, <1>2, PTL DEF OperatorSpec

-----------------------------------------------------------------------------
(* Encoding and decoding an include config *)

Packages == Seq(IncludePackage)

\* A slice has no more elements than its array, and only that of a new variable
\* has none.
Slices == {s \in [len : Nat, back : Packages] : s.len <= Len(s.back) /\ (s.len = 0 => s.back = <<>>)}

\* A set field is the one that was encoded.
Carries(after, v) ==
  \A i \in DOMAIN v : \A f \in DOMAIN v[i] : v[i][f] # "" => after[i][f] = v[i][f]

LEMMA MergedKeeps ==
  ASSUME NEW v \in Packages, NEW old \in Slices
  PROVE  /\ Merged(v, old) \in Slices
         /\ Slice(old) = <<>> => Slice(Merged(v, old)) = v
         /\ v # <<>> => Len(Slice(Merged(v, old))) = Len(v) /\ Carries(Slice(Merged(v, old)), v)
<1> USE DEF Packages
<1>0. Len(v) \in Nat /\ (v # <<>> => Len(v) > 0)
  BY LenProperties
<1>1. CASE v = <<>>
  <2>1. Merged(v, old) = old
    BY <1>1 DEF Merged
  <2>2. QED
    BY <1>1, <2>1
<1>2. CASE v # <<>> /\ Len(v) > Len(old.back)
  <2>1. Merged(v, old) = [len |-> Len(v), back |-> v]
    BY <1>2 DEF Merged
  <2>2. Merged(v, old) \in Slices
    BY <1>0, <1>2, <2>1 DEF Slices
  <2>3. Slice(Merged(v, old)) = v
    BY <2>1, SubSeqFull DEF Slice
  <2>4. QED
    BY <2>2, <2>3 DEF Carries
<1>3. CASE v # <<>> /\ ~(Len(v) > Len(old.back))
  <2> DEFINE new == [i \in DOMAIN old.back |->
                       IF i > Len(v) THEN old.back[i]
                       ELSE [f \in DOMAIN v[i] |-> IF v[i][f] = "" THEN old.back[i][f] ELSE v[i][f]]]
  <2>1. Merged(v, old) = [len |-> Len(v), back |-> new]
    BY <1>3 DEF Merged
  <2>2. DOMAIN old.back = 1..Len(old.back) /\ old.back \in Seq(IncludePackage) /\ Len(old.back) \in Nat
    BY LenProperties DEF Slices
  <2>3. ASSUME NEW i \in 1..Len(old.back) PROVE new[i] \in IncludePackage
    <3>1. CASE i > Len(v)
      <4>1. new[i] = old.back[i]
        BY <2>2, <3>1, Zenon
      <4>2. old.back[i] \in IncludePackage
        BY <2>2
      <4>3. QED
        BY <4>1, <4>2, Zenon
    <3>2. CASE ~(i > Len(v))
      <4>1. v[i] \in IncludePackage /\ old.back[i] \in IncludePackage
        BY <1>0, <2>2, <3>2
      <4>2. new[i] = [f \in DOMAIN v[i] |-> IF v[i][f] = "" THEN old.back[i][f] ELSE v[i][f]]
        BY <2>2, <3>2
      <4>3. DOMAIN v[i] = {"name", "minVersion"}
        BY <4>1 DEF IncludePackage
      <4>4. QED
        BY <4>1, <4>2, <4>3 DEF IncludePackage
    <3>3. QED
      BY <3>1, <3>2
  <2>4. new \in Seq(IncludePackage) /\ Len(new) = Len(old.back)
    <3>1. new \in [1..Len(old.back) -> IncludePackage]
      BY <2>2, <2>3
    <3> HIDE DEF new
    <3>2. new \in Seq(IncludePackage)
      BY <2>2, <3>1, SeqDef
    <3>3. DOMAIN new = 1..Len(old.back) /\ DOMAIN new = 1..Len(new) /\ Len(new) \in Nat
      BY <3>1, <3>2, LenProperties
    <3>4. QED
      BY <2>2, <3>2, <3>3
  <2>5. ASSUME NEW i \in 1..Len(v), NEW f \in DOMAIN v[i], v[i][f] # ""
        PROVE  new[i][f] = v[i][f]
    <3>1. i \in DOMAIN old.back /\ ~(i > Len(v))
      BY <1>0, <1>3, <2>2
    <3>2. new[i] = [h \in DOMAIN v[i] |-> IF v[i][h] = "" THEN old.back[i][h] ELSE v[i][h]]
      BY <3>1, Zenon
    <3>3. QED
      BY <2>5, <3>2, Zenon
  <2> HIDE DEF new
  <2>6. Merged(v, old) \in Slices
    BY <1>0, <1>3, <2>1, <2>4 DEF Slices
  <2>7. Slice(Merged(v, old)) = SubSeq(new, 1, Len(v))
    BY <2>1 DEF Slice
  <2>8. /\ Len(SubSeq(new, 1, Len(v))) = Len(v)
        /\ \A i \in 1..Len(v) : SubSeq(new, 1, Len(v))[i] = new[i]
    BY <1>0, <1>3, <2>2, <2>4, SubSeqProperties
  <2>9. Slice(old) # <<>>
    <3>1. old.len > 0 /\ old.len <= Len(old.back) /\ old.len \in Nat
      BY <1>0, <1>3, <2>2 DEF Slices
    <3>2. Len(SubSeq(old.back, 1, old.len)) = old.len
      BY <2>2, <3>1, SubSeqProperties
    <3>3. Slice(old) = SubSeq(old.back, 1, old.len) /\ Len(<<>>) = 0
      BY DEF Slice
    <3>4. QED
      BY <3>1, <3>2, <3>3
  <2>10. DOMAIN v = 1..Len(v)
    BY LenProperties
  <2>11. Carries(Slice(Merged(v, old)), v)
    <3> DEFINE t == SubSeq(new, 1, Len(v))
    <3>1. \A i \in 1..Len(v) : t[i] = new[i]
      BY <2>8
    <3> HIDE DEF t
    <3>2. Carries(t, v)
      BY <2>5, <2>10, <3>1 DEF Carries
    <3>3. QED
      BY <2>7, <3>2 DEF t
  <2>12. QED
    BY <2>6, <2>7, <2>8, <2>9, <2>11
<1>4. QED
  BY <1>1, <1>2, <1>3

\* The encoded config and the client's variable, and what is proved.
DecodeInv == wire \in Packages /\ ic \in Slices /\ DecodesEncoded

LEMMA NextDecodeInv ==
  ASSUME DecodeInv, [OperatorNext]_operatorVars
  PROVE  DecodeInv'
<1> USE DEF DecodeInv
<1>1. CASE GetUniqueName \/ UNCHANGED operatorVars
  <2>1. UNCHANGED <<wire, ic, got>>
    BY <1>1 DEF GetUniqueName, operatorVars
  <2>2. QED
    BY <2>1 DEF DecodesEncoded
<1>2. CASE Encode
  <2>1. wire' \in Packages /\ UNCHANGED <<ic, got>>
    BY <1>2, OperatorAssumption DEF Encode, Packages
  <2>2. DecodesEncoded'
    BY <2>1 DEF DecodesEncoded
  <2>3. QED
    BY <2>1, <2>2
<1>3. CASE NewConfig
  <2>1. None \in Slices
    BY DEF None, Slices, Packages
  <2>2. QED
    BY <1>3, <2>1 DEF NewConfig, DecodesEncoded
<1>4. CASE Decode
  <2> DEFINE before == Slice(ic)
             after == Slice(Merged(wire, ic))
             g == [wire |-> wire, before |-> before, after |-> after]
  <2>1. /\ ic' \in Slices
        /\ before = <<>> => after = wire
        /\ wire # <<>> => Len(after) = Len(wire) /\ Carries(after, wire)
    BY <1>4, MergedKeeps DEF Decode
  <2>2. got' = <<g>> /\ UNCHANGED wire
    BY <1>4 DEF Decode
  <2> HIDE DEF before, after
  <2>3. g.wire = wire /\ g.before = before /\ g.after = after
    OBVIOUS
  <2> HIDE DEF g
  <2>4. DOMAIN got' = {1} /\ got'[1] = g
    <3>1. \A x : DOMAIN <<x>> = {1} /\ <<x>>[1] = x
      OBVIOUS
    <3>2. QED
      BY <2>2, <3>1, Zenon
  <2>5. DecodesEncoded'
    <3>1. /\ g.before = <<>> => g.after = g.wire
          /\ g.wire # <<>> => Len(g.after) = Len(g.wire) /\ Carries(g.after, g.wire)
      BY <2>1, <2>3, Zenon
    <3>2. \A k \in DOMAIN got' : got'[k] = g
      BY <2>4, Zenon
    <3> SUFFICES ASSUME NEW k \in DOMAIN got'
                 PROVE /\ got'[k].before = <<>> => got'[k].after = got'[k].wire
                       /\ got'[k].wire # <<>> =>
                            /\ Len(got'[k].after) = Len(got'[k].wire)
                            /\ Carries(got'[k].after, got'[k].wire)
      BY Zenon DEF DecodesEncoded, Carries
    <3>3. QED
      BY <3>1, <3>2
  <2>6. QED
    BY <2>1, <2>2, <2>5
<1>5. QED
  BY <1>1, <1>2, <1>3, <1>4 DEF OperatorNext

\* For any configs, in whatever order a client encodes them and decodes them into
\* new and used variables: what was set in the encoded config is in the decoded
\* one, and a new variable gets exactly what was encoded
\* (type_config_include.go:116-132).
THEOREM DecodesEncodedAlways == OperatorSpec => []DecodesEncoded
<1>1. OperatorInit => DecodeInv
  <2>1. DOMAIN <<>> = {} /\ <<>> \in Packages /\ None \in Slices
    BY DEF None, Slices, Packages
  <2>2. QED
    BY <2>1, Zenon DEF OperatorInit, DecodeInv, DecodesEncoded
<1>2. DecodeInv /\ [OperatorNext]_operatorVars => DecodeInv'
  BY NextDecodeInv
<1>3. DecodeInv => DecodesEncoded
  BY DEF DecodeInv
<1>4. QED
  BY <1>1, <1>2, <1>3, PTL DEF OperatorSpec
=============================================================================
