--------------------------- MODULE OperatorConfig ---------------------------
(***************************************************************************)
(* The Operator of a v1alpha2 configuration: the name it is tracked under, *)
(* and its IncludeConfig, which is encoded with gob and decoded into a     *)
(* variable of the client, new or used before.                             *)
(***************************************************************************)
EXTENDS Naturals, Sequences

CONSTANTS
  Catalogs,  \* values of Operator.Catalog, in the parts of a reference; with the
             \* slashes that follow "oci:" in the path of one on disk
  Targets,   \* pairs of TargetName and TargetTag, "" where not set
  Configs    \* values of an IncludeConfig: sequences of IncludePackages

VARIABLES
  name,  \* the last call of GetUniqueName: <<[catalog, target, is]>>, or <<>> for an error
  wire,  \* the encoded IncludeConfig
  ic,    \* the client's variable: [len, back], a slice of an array
  got    \* history: the last Decode, <<[wire, before, after]>>

operatorVars == <<name, wire, ic, got>>

Reference == [registry : STRING, namespace : STRING, name : STRING, tag : STRING, id : STRING]
IncludePackage == [name : STRING, minVersion : STRING]

ASSUME OperatorAssumption ==
  /\ \A c \in Catalogs : c.ref \in Reference /\ c.oci \in BOOLEAN /\ c.slashes \in Nat
  /\ Configs \subseteq Seq(IncludePackage)
  /\ Targets \subseteq STRING \X STRING

None == [len |-> 0, back |-> <<>>]
OperatorInit == name = <<>> /\ wire = <<>> /\ ic = None /\ got = <<>>

-----------------------------------------------------------------------------

IsFBCOCI(c) == c.oci

\* TrimPrefix of "oci:", "//" and "/": a fourth slash stays in the name, and does
\* not parse; this is the number that stay.
Trimmed(c) == IF ~IsFBCOCI(c) THEN 0 ELSE IF c.slashes <= 3 THEN 0 ELSE c.slashes - 3

\* Exact prints a digest rather than a tag.
Exact(r) == [r EXCEPT !.tag = IF r.id = "" THEN @ ELSE ""]

\* Mutant: the digest is not cleared for the target tag.
RetaggedWithID(r, target) ==
  [r EXCEPT !.name = IF target[1] = "" THEN @ ELSE target[1],
            !.tag  = IF target[2] = "" THEN @ ELSE target[2]]

\* The target name and tag take the place of the catalogue's.
Retagged(r, target) ==
  [r EXCEPT !.name = IF target[1] = "" THEN @ ELSE target[1],
            !.tag  = IF target[2] = "" THEN @ ELSE target[2],
            !.id   = IF target[2] = "" THEN @ ELSE ""]

GetUniqueName ==
  /\ \E c \in Catalogs, t \in Targets :
       name' = IF t = <<"", "">> THEN <<[catalog |-> c, target |-> t, is |-> c.ref]>>
               ELSE IF Trimmed(c) > 0 THEN <<>>
               ELSE <<[catalog |-> c, target |-> t, is |-> Exact(Retagged(c.ref, t))]>>
  /\ UNCHANGED <<wire, ic, got>>

-----------------------------------------------------------------------------

Encode ==
  /\ wire' \in Configs
  /\ UNCHANGED <<name, ic, got>>

\* gob leaves out what is zero, and does not touch what was left out; a slice
\* that has room for the elements is used again with what is in them.
Merged(v, old) ==
  IF v = <<>> THEN old
  ELSE IF Len(v) > Len(old.back) THEN [len |-> Len(v), back |-> v]
  ELSE [len |-> Len(v),
        back |-> [i \in DOMAIN old.back |->
          IF i > Len(v) THEN old.back[i]
          ELSE [f \in DOMAIN v[i] |-> IF v[i][f] = "" THEN old.back[i][f] ELSE v[i][f]]]]

Slice(s) == SubSeq(s.back, 1, s.len)

\* Mutant: Decode has a receiver that is not a pointer.
DecodeByValue ==
  /\ got' = <<[wire |-> wire, before |-> Slice(ic), after |-> Slice(ic)]>>
  /\ UNCHANGED <<name, wire, ic>>

Decode ==
  /\ ic' = Merged(wire, ic)
  /\ got' = <<[wire |-> wire, before |-> Slice(ic), after |-> Slice(Merged(wire, ic))]>>
  /\ UNCHANGED <<name, wire>>

\* The client starts with a new variable.
NewConfig == ic' = None /\ UNCHANGED <<name, wire, got>>

OperatorNext == GetUniqueName \/ Encode \/ Decode \/ NewConfig

OperatorSpec == OperatorInit /\ [][OperatorNext]_operatorVars

-----------------------------------------------------------------------------

\* The unique name keeps registry and namespace of the catalogue and carries the
\* target name and tag where they are set, also for a catalogue given by digest
\* and for one on disk (types_config.go:124-151).
NameCarriesTarget ==
  \A i \in DOMAIN name :
    LET r == name[i].is
        c == name[i].catalog.ref
        t == name[i].target
    IN /\ r.registry = c.registry /\ r.namespace = c.namespace
       /\ r.name = (IF t[1] = "" THEN c.name ELSE t[1])
       /\ t[2] # "" => r.tag = t[2] /\ r.id = ""
       /\ t[2] = "" => r.id = c.id

\* Decoding into a new variable gives what was encoded, and decoding into any
\* leaves as many packages as were encoded, with every name and version that was
\* set in its place (type_config_include.go:116-132).
DecodesEncoded ==
  \A k \in DOMAIN got : LET g == got[k] IN
    /\ g.before = <<>> => g.after = g.wire
    /\ g.wire # <<>> =>
         /\ Len(g.after) = Len(g.wire)
         /\ \A i \in DOMAIN g.wire : \A f \in DOMAIN g.wire[i] :
              g.wire[i][f] # "" => g.after[i][f] = g.wire[i][f]
=============================================================================
