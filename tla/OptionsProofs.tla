---------------------------- MODULE OptionsProofs ----------------------------
(***************************************************************************)
(* What the user says reaches the copy: CopyFollowsFlags for command lines *)
(* of any length, and any values of the flags and of the options that no   *)
(* flag sets.                                                              *)
(***************************************************************************)
EXTENDS Options, SequenceTheorems, WellFoundedInduction, TLAPS

-----------------------------------------------------------------------------
(* The last flag given under a name *)

LEMMA SmallestOf ==
  ASSUME NEW S \in SUBSET Nat, S # {}
  PROVE  \E n \in S : \A m \in S : n <= m
<1>1. \E n \in S : \A m \in S : ~(<<m, n>> \in OpToRel(<, Nat))
  BY WFMin, NatLessThanWellFounded, Zenon
<1>2. PICK n \in S : \A m \in S : ~(m < n)
  BY <1>1, Zenon DEF OpToRel
<1>3. QED
  BY <1>2

\* A set of positions of a sequence has a last one.
LEMMA LargestOf ==
  ASSUME NEW n \in Nat, NEW S \in SUBSET (1..n), S # {}
  PROVE  \E k \in S : \A j \in S : j <= k
<1> DEFINE T == {n - k : k \in S}
<1>1. T \in SUBSET Nat /\ T # {}
  <2>1. \A k \in S : n - k \in Nat
    OBVIOUS
  <2>2. QED
    BY <2>1
<1>2. PICK t \in T : \A m \in T : t <= m
  BY <1>1, SmallestOf
<1>3. PICK k \in S : t = n - k
  BY <1>2
<1>4. ASSUME NEW j \in S PROVE j <= k
  <2>1. n - j \in T
    OBVIOUS
  <2>2. t <= n - j
    BY <1>2, <2>1
  <2>3. j \in Nat /\ k \in Nat
    BY <1>3
  <2>4. QED
    BY <1>3, <2>2, <2>3
<1>5. QED
  BY <1>3, <1>4

\* A flag and its value, as they stand on the command line.
Given == [flag : {f.flag : f \in Flags}, value : UNION {f.values : f \in Flags}]

\* A further flag is the last given under its own name and under no other.
LEMMA LastGivenAppend ==
  ASSUME flags \in Seq(Given), NEW CONSTANT g \in Given, flags' = Append(flags, g),
         NEW CONSTANT names, NEW CONSTANT default
  PROVE  LastGiven(names, default)' =
           IF g.flag \in names THEN g.value ELSE LastGiven(names, default)
<1> DEFINE n == Len(flags)
           at == {k \in 1..n : flags[k].flag \in names}
           after == {k \in 1..Len(flags') : flags'[k].flag \in names}
<1>1. n \in Nat /\ Len(flags') = n + 1 /\ flags'[n + 1] = g
      /\ \A k \in 1..n : flags'[k] = flags[k]
  BY AppendProperties, LenProperties
<1>2. CASE g.flag \in names
  <2>1. n + 1 \in after /\ \A j \in after : j <= n + 1
    BY <1>1, <1>2
  <2>2. (CHOOSE k \in after : \A j \in after : j <= k) = n + 1
    <3>1. \A k \in after : (\A j \in after : j <= k) => k = n + 1
      BY <1>1, <2>1
    <3> HIDE DEF after
    <3>2. QED
      BY <2>1, <3>1
  <2>3. QED
    BY <1>1, <1>2, <2>1, <2>2 DEF LastGiven
<1>3. CASE g.flag \notin names
  <2>1. after = at
    BY <1>1, <1>3
  <2>2. CASE at = {}
    BY <1>3, <2>1, <2>2 DEF LastGiven
  <2>3. CASE at # {}
    <3>1. \E k \in at : \A j \in at : j <= k
      BY <1>1, <2>3, LargestOf
    <3>2. (CHOOSE k \in at : \A j \in at : j <= k) \in 1..n
      BY <3>1
    <3>3. LastGiven(names, default) = flags[CHOOSE k \in at : \A j \in at : j <= k].value
      BY <2>3 DEF LastGiven
    <3>4. LastGiven(names, default)' = flags'[CHOOSE k \in after : \A j \in after : j <= k].value
      BY <2>1, <2>3 DEF LastGiven
    <3>5. QED
      <4> HIDE DEF n, at, after
      <4>1. flags'[CHOOSE k \in at : \A j \in at : j <= k] = flags[CHOOSE k \in at : \A j \in at : j <= k]
        BY <1>1, <3>2
      <4>2. QED
        BY <1>3, <2>1, <3>3, <3>4, <4>1
  <2>4. QED
    BY <2>2, <2>3
<1>4. QED
  BY <1>2, <1>3

-----------------------------------------------------------------------------
(* The options that the copy is made with *)

\* An option that decides something in the copy, its flag and its default.
Option(object, field, name, default) ==
  [object |-> object, field |-> field, flag |-> <<object, name>>, default |-> default]

Decisive ==
  {Option(s, "dockerCertPath", "cert-dir", "") : s \in Sides}
  \cup {Option(s, "sharedBlobDir", "shared-blob-dir", "") : s \in Sides}
  \cup {Option(s, "dockerDaemonHost", "daemon-host", "") : s \in Sides}
  \cup {Option("shared", "authFilePath", "authfile", Env), Option("retry", "MaxRetry", "retry-times", "0"),
        Option("global", "LogLevel", "loglevel", "info")}

\* Each of them, spelled out.
LEMMA DecisiveCases ==
  ASSUME NEW d \in Decisive
  PROVE  /\ \/ /\ d.object \in Sides /\ d.default = ""
               /\ \/ d.field = "dockerCertPath" /\ d.flag[2] = "cert-dir"
                  \/ d.field = "sharedBlobDir" /\ d.flag[2] = "shared-blob-dir"
                  \/ d.field = "dockerDaemonHost" /\ d.flag[2] = "daemon-host"
            \/ d.object = "shared" /\ d.field = "authFilePath" /\ d.default = Env /\ d.flag[2] = "authfile"
            \/ d.object = "retry" /\ d.field = "MaxRetry" /\ d.default = "0" /\ d.flag[2] = "retry-times"
            \/ d.object = "global" /\ d.field = "LogLevel" /\ d.default = "info" /\ d.flag[2] = "loglevel"
         /\ d.flag[1] = d.object /\ d.flag = <<d.flag[1], d.flag[2]>>
<1>1. CASE \E s \in Sides : d = Option(s, "dockerCertPath", "cert-dir", "")
  <2>1. PICK s \in Sides : d = Option(s, "dockerCertPath", "cert-dir", "")
    BY <1>1
  <2>2. d.object = s /\ d.field = "dockerCertPath" /\ d.default = ""
        /\ d.flag[1] = s /\ d.flag[2] = "cert-dir" /\ d.flag = <<d.flag[1], d.flag[2]>>
    BY <2>1 DEF Option
  <2>3. QED
    BY <2>2
<1>2. CASE \E s \in Sides : d = Option(s, "sharedBlobDir", "shared-blob-dir", "")
  <2>1. PICK s \in Sides : d = Option(s, "sharedBlobDir", "shared-blob-dir", "")
    BY <1>2
  <2>2. d.object = s /\ d.field = "sharedBlobDir" /\ d.default = ""
        /\ d.flag[1] = s /\ d.flag[2] = "shared-blob-dir" /\ d.flag = <<d.flag[1], d.flag[2]>>
    BY <2>1 DEF Option
  <2>3. QED
    BY <2>2
<1>3. CASE \E s \in Sides : d = Option(s, "dockerDaemonHost", "daemon-host", "")
  <2>1. PICK s \in Sides : d = Option(s, "dockerDaemonHost", "daemon-host", "")
    BY <1>3
  <2>2. d.object = s /\ d.field = "dockerDaemonHost" /\ d.default = ""
        /\ d.flag[1] = s /\ d.flag[2] = "daemon-host" /\ d.flag = <<d.flag[1], d.flag[2]>>
    BY <2>1 DEF Option
  <2>3. QED
    BY <2>2
<1>4. CASE d = Option("shared", "authFilePath", "authfile", Env)
  BY <1>4 DEF Option
<1>5. CASE d = Option("retry", "MaxRetry", "retry-times", "0")
  BY <1>5 DEF Option
<1>6. CASE d = Option("global", "LogLevel", "loglevel", "info")
  BY <1>6 DEF Option
<1>7. QED
  BY <1>1, <1>2, <1>3, <1>4, <1>5, <1>6, Zenon DEF Decisive

\* One flag writes each of them, and that flag writes nothing else.
LEMMA OneFlagPerOption ==
  ASSUME NEW f \in Flags, NEW d \in Decisive
  PROVE  (f.object = d.object /\ f.field = d.field) <=> f.flag = d.flag
<1> DEFINE Same == (f.object = d.object /\ f.field = d.field) <=> f.flag = d.flag
           text == {<<"authfile", "authFilePath">>, <<"creds", "credsOption">>, <<"username", "userName">>,
                    <<"password", "password">>, <<"registry-token", "registryToken">>,
                    <<"cert-dir", "dockerCertPath">>}
           switches == {<<"compress", "dirForceCompression">>, <<"decompress", "dirForceDecompression">>,
                        <<"oci-accept-uncompressed-layers", "ociAcceptUncompressedLayers">>,
                        <<"precompute-digests", "precomputeDigests">>}
<1>0. "src" \in Sides /\ "dest" \in Sides /\ \A o \in {"shared", "retry", "global", ""} : o \notin Sides
  BY DEF Sides
<1>1. ASSUME NEW s \in Sides, NEW n, NEW o, NEW v, f = Flag(s, n, o, v),
             <<n, o>> \in text \cup switches \cup
               {<<"tls-verify", "tlsVerify">>, <<"no-creds", "noCreds">>,
                <<"shared-blob-dir", "sharedBlobDir">>, <<"daemon-host", "dockerDaemonHost">>,
                <<"compress-format", "compressionFormat">>, <<"compress-level", "compressionLevel">>}
      PROVE  Same
  <2>1. f.object = s /\ f.field = o /\ f.flag[1] = s /\ f.flag[2] = n /\ f.flag = <<f.flag[1], f.flag[2]>>
    BY <1>1 DEF Flag
  <2>2. QED
    BY <1>0, <1>1, <2>1, DecisiveCases, ZenonT(40)
<1>2. ASSUME NEW s \in Sides, NEW a \in {"screds", "dcreds"}, f \in ImageFlags(s, a)
      PROVE  Same
  <2>1. CASE f \in {Flag(s, g[1], g[2], Strings) : g \in text}
    <3>1. PICK g \in text : f = Flag(s, g[1], g[2], Strings)
      BY <2>1
    <3>2. <<g[1], g[2]>> \in text
      OBVIOUS
    <3>3. QED
      BY <1>1, <3>1, <3>2
  <2>2. CASE f = [flag |-> <<"", a>>, object |-> s, field |-> "credsOption", values |-> Strings]
    <3>1. f.object = s /\ f.field = "credsOption" /\ f.flag[1] = "" /\ f.flag[2] = a /\ f.flag = <<f.flag[1], f.flag[2]>>
      BY <2>2
    <3>2. QED
      BY <1>0, <3>1, DecisiveCases
  <2>3. QED
    BY <1>1, <1>2, <2>1, <2>2, Zenon DEF ImageFlags, dockerImageFlags
<1>3. ASSUME f \in ImageDestFlags("dest", "dcreds"), f \notin ImageFlags("dest", "dcreds")
      PROVE  Same
  <2>1. CASE f \in {Flag("dest", g[1], g[2], Bools) : g \in switches}
    <3>1. PICK g \in switches : f = Flag("dest", g[1], g[2], Bools)
      BY <2>1
    <3>2. <<g[1], g[2]>> \in switches
      OBVIOUS
    <3>3. QED
      BY <1>0, <1>1, <3>1, <3>2
  <2>2. QED
    BY <1>0, <1>1, <1>3, <2>1, Zenon DEF ImageDestFlags
<1>4. CASE f = Flag("shared", "authfile", "authFilePath", Strings)
  <2>1. f.object = "shared" /\ f.field = "authFilePath" /\ f.flag[1] = "shared" /\ f.flag[2] = "authfile" /\ f.flag = <<f.flag[1], f.flag[2]>>
    BY <1>4 DEF Flag
  <2>2. QED
    BY <1>0, <2>1, DecisiveCases
<1>5. CASE f = Flag("deprecated", "tls-verify", "tlsVerify", Bools)
  <2>1. f.object = "deprecated" /\ f.field = "tlsVerify" /\ f.flag[1] = "deprecated" /\ f.flag[2] = "tls-verify" /\ f.flag = <<f.flag[1], f.flag[2]>>
    BY <1>5 DEF Flag
  <2>2. QED
    BY <1>0, <2>1, DecisiveCases
<1>6. CASE f = Flag("retry", "retry-times", "MaxRetry", Numbers)
  <2>1. f.object = "retry" /\ f.field = "MaxRetry" /\ f.flag[1] = "retry" /\ f.flag[2] = "retry-times" /\ f.flag = <<f.flag[1], f.flag[2]>>
    BY <1>6 DEF Flag
  <2>2. QED
    BY <1>0, <2>1, DecisiveCases
<1>7. CASE f = Flag("global", "loglevel", "LogLevel", Levels)
  <2>1. f.object = "global" /\ f.field = "LogLevel" /\ f.flag[1] = "global" /\ f.flag[2] = "loglevel" /\ f.flag = <<f.flag[1], f.flag[2]>>
    BY <1>7 DEF Flag
  <2>2. QED
    BY <1>0, <2>1, DecisiveCases
<1>8. QED
  BY <1>0, <1>2, <1>3, <1>4, <1>5, <1>6, <1>7, Zenon
     DEF Flags, SharedImageFlags, DeprecatedTLSVerifyFlags, RetryFlags

\* Each is a field of its object, with that default.
LEMMA DecisiveIsOption ==
  ASSUME NEW d \in Decisive
  PROVE  /\ d.object \in Objects /\ d.field \in FieldsOf(d.object)
         /\ Default(d.object, d.field) = d.default
<1>1. \A s \in Sides : \E a : dockerImageFlags(s, a) \cup ImageFlags(s, a) \subseteq Flags
  BY Zenon DEF Flags, ImageDestFlags, ImageFlags, Sides
<1>2. \A s \in Sides : Flag(s, "cert-dir", "dockerCertPath", Strings) \in Flags
  <2> SUFFICES ASSUME NEW s \in Sides, NEW a, dockerImageFlags(s, a) \subseteq Flags
               PROVE Flag(s, "cert-dir", "dockerCertPath", Strings) \in dockerImageFlags(s, a)
    BY <1>1
  <2> DEFINE t == <<"cert-dir", "dockerCertPath">>
  <2>1. Flag(s, t[1], t[2], Strings) \in dockerImageFlags(s, a)
    BY Zenon DEF dockerImageFlags
  <2>2. QED
    BY <2>1
<1>3. \A s \in Sides : /\ Flag(s, "shared-blob-dir", "sharedBlobDir", Strings) \in Flags
                       /\ Flag(s, "daemon-host", "dockerDaemonHost", Strings) \in Flags
  BY <1>1, Zenon DEF ImageFlags
<1>4. /\ Flag("shared", "authfile", "authFilePath", Strings) \in Flags
      /\ Flag("retry", "retry-times", "MaxRetry", Numbers) \in Flags
      /\ Flag("global", "loglevel", "LogLevel", Levels) \in Flags
  BY Zenon DEF Flags, SharedImageFlags, RetryFlags
<1>5. \E f \in Flags : f.object = d.object /\ f.field = d.field
  <2>1. \A s, n, o, v : Flag(s, n, o, v).object = s /\ Flag(s, n, o, v).field = o
    BY DEF Flag
  <2> DEFINE Is(o, n) == \E f \in Flags : f.object = o /\ f.field = n
  <2>2. /\ \A s \in Sides : Is(s, "dockerCertPath") /\ Is(s, "sharedBlobDir") /\ Is(s, "dockerDaemonHost")
        /\ Is("shared", "authFilePath") /\ Is("retry", "MaxRetry") /\ Is("global", "LogLevel")
    <3>1. \A s, n, o, v : Flag(s, n, o, v) \in Flags => Is(s, o)
      <4> SUFFICES ASSUME NEW s, NEW n, NEW o, NEW v, Flag(s, n, o, v) \in Flags PROVE Is(s, o)
        OBVIOUS
      <4> WITNESS Flag(s, n, o, v) \in Flags
      <4> QED
        BY <2>1
    <3> HIDE DEF Is
    <3>2. QED
      BY <1>2, <1>3, <1>4, <3>1, Zenon
  <2> HIDE DEF Is
  <2>3. Is(d.object, d.field)
    BY <2>2, DecisiveCases
  <2>4. QED
    BY <2>3 DEF Is
<1>6. /\ \A s \in Sides : /\ Default(s, "dockerCertPath") = ""
                          /\ Default(s, "sharedBlobDir") = "" /\ Default(s, "dockerDaemonHost") = ""
      /\ Default("shared", "authFilePath") = Env
      /\ Default("retry", "MaxRetry") = "0" /\ Default("global", "LogLevel") = "info"
  BY Zenon DEF Default, Sides
<1>7. Default(d.object, d.field) = d.default
  BY <1>6, DecisiveCases
<1>8. QED
  BY <1>5, <1>7, Zenon DEF Objects, FieldsOf

-----------------------------------------------------------------------------
(* The invariant *)

\* The option objects, and the flags that were written into them.
OptionsTypeOK ==
  /\ flags \in Seq(Given)
  /\ DOMAIN opt = Objects /\ \A o \in Objects : DOMAIN opt[o] = FieldsOf(o)
  /\ DOMAIN ctx = Sides

\* Every option that decides something holds what its flag said last.
OptionsFollowFlags ==
  \A d \in Decisive : opt[d.object][d.field] = LastGiven({d.flag}, d.default)

\* A SystemContext has what the options of a side, and the shared ones, say.
ContextOf(c, side) ==
  /\ c.cert = opt[side]["dockerCertPath"] /\ c.daemonCert = opt[side]["dockerCertPath"]
  /\ c.blobs = opt[side]["sharedBlobDir"] /\ c.host = opt[side]["dockerDaemonHost"]
  /\ c.auth = opt["shared"]["authFilePath"] /\ c.skipTLS = ~global.TlsVerify

\* How far the contexts are made, each in an object of its own.
ContextsFollowOptions ==
  /\ pc \in {"flags", "policy", "src"} => heap = <<>>
  /\ pc = "dest" => heap = <<heap[1]>> /\ ctx["src"] = 1 /\ ContextOf(heap[1], "src")
  /\ pc \in {"format", "copy"} =>
       /\ heap = <<heap[1], heap[2]>> /\ ctx["src"] = 1 /\ ctx["dest"] = 2
       /\ ContextOf(heap[1], "src") /\ ContextOf(heap[2], "dest")
  /\ pc = "copying" =>
       /\ ContextOf(co.SourceCtx, "src") /\ ContextOf(co.DestinationCtx, "dest")
       /\ co.MaxRetry = opt["retry"]["MaxRetry"]
  /\ pc \notin {"flags", "usage"} => level = opt["global"]["LogLevel"]

OptionsInv == OptionsTypeOK /\ OptionsFollowFlags /\ ContextsFollowOptions

LEMMA InitOptionsInv == Init => OptionsInv
<1> SUFFICES ASSUME Init PROVE OptionsInv
  OBVIOUS
<1>1. OptionsTypeOK
  BY DEF Init, OptionsTypeOK
<1>2. OptionsFollowFlags
  <2> SUFFICES ASSUME NEW d \in Decisive
               PROVE opt[d.object][d.field] = LastGiven({d.flag}, d.default)
    BY DEF OptionsFollowFlags
  <2>1. opt[d.object][d.field] = d.default
    BY DecisiveIsOption DEF Init
  <2>2. LastGiven({d.flag}, d.default) = d.default
    BY DEF Init, LastGiven
  <2>3. QED
    BY <2>1, <2>2
<1>3. ContextsFollowOptions
  BY DEF Init, ContextsFollowOptions
<1>4. QED
  BY <1>1, <1>2, <1>3 DEF OptionsInv

LEMMA SetFlagFollows ==
  ASSUME OptionsInv, SetFlag
  PROVE  OptionsTypeOK' /\ OptionsFollowFlags'
<1> USE DEF OptionsInv
<1>0. PICK f \in Flags : \E v \in f.values :
        /\ flags' = Append(flags, [flag |-> f.flag, value |-> v])
        /\ opt' = [opt EXCEPT ![f.object][f.field] = v]
  BY DEF SetFlag
<1>1. PICK v \in f.values :
        /\ flags' = Append(flags, [flag |-> f.flag, value |-> v])
        /\ opt' = [opt EXCEPT ![f.object][f.field] = v]
  BY <1>0
<1> DEFINE g == [flag |-> f.flag, value |-> v]
<1>2. g \in Given
  BY DEF Given
<1>3. f.object \in Objects /\ f.field \in FieldsOf(f.object)
  BY DEF Objects, FieldsOf
<1>4. OptionsTypeOK'
  <2>1. flags' \in Seq(Given)
    BY <1>1, <1>2, AppendProperties DEF OptionsTypeOK
  <2>2. DOMAIN opt' = Objects /\ \A o \in Objects : DOMAIN opt'[o] = FieldsOf(o)
    BY <1>1, <1>3 DEF OptionsTypeOK
  <2>3. QED
    BY <2>1, <2>2 DEF OptionsTypeOK, SetFlag
<1>5. ASSUME NEW d \in Decisive
      PROVE  opt'[d.object][d.field] = LastGiven({d.flag}, d.default)'
  <2>1. LastGiven({d.flag}, d.default)' =
          IF g.flag \in {d.flag} THEN g.value ELSE LastGiven({d.flag}, d.default)
    BY <1>1, <1>2, LastGivenAppend DEF OptionsTypeOK
  <2>2. opt[d.object][d.field] = LastGiven({d.flag}, d.default)
    BY DEF OptionsFollowFlags
  <2>3. d.object \in Objects /\ d.field \in FieldsOf(d.object)
    BY DecisiveIsOption
  <2>4. (f.object = d.object /\ f.field = d.field) <=> f.flag = d.flag
    BY OneFlagPerOption
  <2>5. opt'[d.object][d.field] =
          IF f.object = d.object /\ f.field = d.field THEN v ELSE opt[d.object][d.field]
    BY <1>1, <1>3, <2>3 DEF OptionsTypeOK
  <2>6. QED
    BY <2>1, <2>2, <2>4, <2>5
<1>6. QED
  BY <1>4, <1>5 DEF OptionsFollowFlags

LEMMA AppendToOne ==
  ASSUME NEW x, NEW y
  PROVE  Append(<<x>>, y) = <<x, y>>
<1> DEFINE S == {x, y}
<1>1. <<x>> \in Seq(S) /\ <<x, y>> \in Seq(S) /\ Len(<<x>>) = 1 /\ Len(<<x, y>>) = 2
  OBVIOUS
<1>2. /\ Append(<<x>>, y) \in Seq(S) /\ Len(Append(<<x>>, y)) = 2
      /\ Append(<<x>>, y)[1] = x /\ Append(<<x>>, y)[2] = y
  BY <1>1, AppendProperties
<1>3. \A i \in 1..2 : Append(<<x>>, y)[i] = <<x, y>>[i]
  BY <1>2
<1>4. QED
  BY <1>1, <1>2, <1>3, SeqEqual

\* A new context is an object of its own; the ones there are keep what they have.
LEMMA NewContextIsOwn ==
  ASSUME NEW CONSTANT side \in Sides, OptionsTypeOK, NewSystemContext(side),
         NEW CONSTANT k \in 0..1, heap = IF k = 0 THEN <<>> ELSE <<heap[1]>>
  PROVE  /\ ctx' = [ctx EXCEPT ![side] = k + 1]
         /\ heap' = IF k = 0 THEN <<heap'[1]>> ELSE <<heap'[1], heap'[2]>>
         /\ k = 1 => heap'[1] = heap[1]
         /\ ContextOf(heap'[k + 1], side) /\ UNCHANGED <<opt, flags, global>>
<1> DEFINE c == [Fresh EXCEPT !.cert = opt[side]["dockerCertPath"], !.blobs = opt[side]["sharedBlobDir"],
                   !.auth = opt["shared"]["authFilePath"], !.host = opt[side]["dockerDaemonHost"],
                   !.daemonCert = opt[side]["dockerCertPath"]]
<1>1. ContextOf(c, side)
  BY DEF ContextOf, Fresh
<1> HIDE DEF c
<1>2. UNCHANGED <<opt, flags, global>>
  BY DEF NewSystemContext
<1>3. CASE k = 0
  <2>1. heap' = <<c>> /\ ctx' = [ctx EXCEPT ![side] = 1]
    BY <1>3 DEF NewSystemContext, newContext, c
  <2>2. heap'[k + 1] = c /\ heap' = <<heap'[1]>>
    BY <1>3, <2>1
  <2>3. QED
    BY <1>1, <1>2, <1>3, <2>1, <2>2
<1>4. CASE k = 1
  <2>0. heap = <<heap[1]>>
    BY <1>4
  <2>1. PICK h : heap = <<h>>
    BY <2>0, Zenon
  <2>2. heap[1] = h /\ Len(heap) = 1 /\ Append(heap, Fresh) = <<h, Fresh>>
    <3>1. \A x, y : Append(<<x>>, y) = <<x, y>>
      BY AppendToOne
    <3>2. heap[1] = h /\ Len(heap) = 1
      BY <2>1
    <3>3. QED
      BY <2>1, <3>1, <3>2, Zenon
  <2>3. heap' = [Append(heap, Fresh) EXCEPT ![2] = [@ EXCEPT
                   !.cert = opt[side]["dockerCertPath"], !.blobs = opt[side]["sharedBlobDir"],
                   !.auth = opt["shared"]["authFilePath"], !.host = opt[side]["dockerDaemonHost"],
                   !.daemonCert = opt[side]["dockerCertPath"]]]
        /\ ctx' = [ctx EXCEPT ![side] = 2]
    BY <2>2 DEF NewSystemContext, newContext
  <2>4. heap' = <<h, c>>
    BY <2>2, <2>3 DEF c
  <2>5. heap'[1] = h /\ heap'[2] = c /\ heap' = <<heap'[1], heap'[2]>>
    BY <2>4
  <2>6. QED
    BY <1>1, <1>2, <1>4, <2>2, <2>3, <2>5
<1>5. QED
  BY <1>3, <1>4

LEMMA NextOptionsInv ==
  ASSUME OptionsInv, [Next]_vars
  PROVE  OptionsInv'
<1> USE DEF OptionsInv, Goto
<1>0. "src" \in Sides /\ "dest" \in Sides /\ "src" # "dest"
  BY DEF Sides
<1>a. ASSUME UNCHANGED <<flags, opt>>, DOMAIN ctx' = DOMAIN ctx
      PROVE  OptionsTypeOK' /\ OptionsFollowFlags'
  <2>1. \A d \in Decisive : LastGiven({d.flag}, d.default)' = LastGiven({d.flag}, d.default)
    BY <1>a DEF LastGiven
  <2>2. QED
    BY <1>a, <2>1 DEF OptionsTypeOK, OptionsFollowFlags
<1>1. CASE SetFlag
  <2>1. ContextsFollowOptions'
    BY <1>1 DEF SetFlag, ContextsFollowOptions
  <2>2. QED
    BY <1>1, <2>1, SetFlagFollows
<1>2. CASE SetFlagFails
  BY <1>2, <1>a DEF SetFlagFails, ContextsFollowOptions
<1>3. CASE Complete
  BY <1>3, <1>a DEF Complete, ContextsFollowOptions
<1>4. CASE GetPolicyContext
  <2>1. /\ pc = "policy" /\ pc' \in {"src", "error"}
        /\ UNCHANGED <<flags, opt, level, heap, ctx, co, global>>
    BY <1>4 DEF GetPolicyContext
  <2>2. QED
    BY <1>a, <2>1 DEF ContextsFollowOptions
<1>5. CASE SourceContext
  <2>1. /\ pc = "src" /\ pc' = "dest" /\ heap = <<>> /\ UNCHANGED <<opt, flags, level, global>>
        /\ NewSystemContext("src")
    BY <1>5 DEF SourceContext, NewSystemContext, ContextsFollowOptions
  <2>2. /\ ctx' = [ctx EXCEPT !["src"] = 1] /\ heap' = <<heap'[1]>> /\ ContextOf(heap'[1], "src")
    BY <1>0, <2>1, NewContextIsOwn
  <2>3. ContextOf(heap[1], "src")'
    BY <2>1, <2>2 DEF ContextOf
  <2>4. OptionsTypeOK' /\ OptionsFollowFlags'
    BY <1>a, <2>1, <2>2
  <2>5. ContextsFollowOptions'
    BY <1>0, <2>1, <2>2, <2>3 DEF ContextsFollowOptions, OptionsTypeOK
  <2>6. QED
    BY <2>4, <2>5
<1>6. CASE DestinationContext
  <2>1. /\ pc = "dest" /\ pc' = "format" /\ heap = <<heap[1]>> /\ ctx["src"] = 1
        /\ ContextOf(heap[1], "src") /\ UNCHANGED <<opt, flags, level, global>>
        /\ NewSystemContext("dest")
    BY <1>6 DEF DestinationContext, NewSystemContext, ContextsFollowOptions
  <2>2. /\ ctx' = [ctx EXCEPT !["dest"] = 2] /\ heap' = <<heap'[1], heap'[2]>>
        /\ heap'[1] = heap[1] /\ ContextOf(heap'[2], "dest")
    BY <1>0, <2>1, NewContextIsOwn
  <2>3. ContextOf(heap[1], "src")' /\ ContextOf(heap[2], "dest")'
    BY <2>1, <2>2 DEF ContextOf
  <2>4. OptionsTypeOK' /\ OptionsFollowFlags'
    BY <1>a, <2>1, <2>2
  <2>5. ContextsFollowOptions'
    BY <1>0, <2>1, <2>2, <2>3 DEF ContextsFollowOptions, OptionsTypeOK
  <2>6. QED
    BY <2>4, <2>5
<1>7. CASE ParseManifestFormat
  <2>1. /\ pc = "format" /\ pc' \in {"copy", "error"}
        /\ UNCHANGED <<flags, opt, level, heap, ctx, co, global>>
    BY <1>7 DEF ParseManifestFormat
  <2>2. QED
    BY <1>a, <2>1 DEF ContextsFollowOptions, ContextOf
<1>8. CASE CopyOptions
  <2>1. /\ pc = "copy" /\ pc' = "copying" /\ UNCHANGED <<flags, opt, level, heap, ctx, global>>
        /\ co'.SourceCtx = heap[1] /\ co'.DestinationCtx = heap[2]
        /\ co'.MaxRetry = opt["retry"]["MaxRetry"]
        /\ ContextOf(heap[1], "src") /\ ContextOf(heap[2], "dest")
        /\ level = opt["global"]["LogLevel"]
    BY <1>8 DEF CopyOptions, ContextsFollowOptions
  <2>2. ContextOf(co.SourceCtx, "src")' /\ ContextOf(co.DestinationCtx, "dest")'
    BY <2>1 DEF ContextOf
  <2>3. QED
    BY <1>a, <2>1, <2>2 DEF ContextsFollowOptions
<1>9. CASE Finished \/ UNCHANGED vars
  BY <1>9, <1>a DEF Finished, vars, ContextsFollowOptions, ContextOf
<1>10. QED
  BY <1>1, <1>2, <1>3, <1>4, <1>5, <1>6, <1>7, <1>8, <1>9 DEF Next

\* What the invariant says of one option.
LEMMA FollowsAt ==
  ASSUME OptionsInv, NEW CONSTANT o, NEW CONSTANT field, NEW CONSTANT name, NEW CONSTANT default,
         Option(o, field, name, default) \in Decisive
  PROVE  opt[o][field] = LastGiven({<<o, name>>}, default)
<1>1. /\ Option(o, field, name, default).object = o /\ Option(o, field, name, default).field = field
      /\ Option(o, field, name, default).flag = <<o, name>>
      /\ Option(o, field, name, default).default = default
  BY DEF Option
<1>2. QED
  BY <1>1 DEF OptionsInv, OptionsFollowFlags

\* Each option that CopyFollowsFlags speaks of is one of the decisive ones.
LEMMA InvImpliesFollows == OptionsInv => CopyFollowsFlags
<1> SUFFICES ASSUME OptionsInv, pc = "copying" PROVE CopyFollowsFlags
  BY DEF CopyFollowsFlags
<1>1. ASSUME NEW s \in Sides
      PROVE  /\ opt[s]["dockerCertPath"] = LastGiven({<<s, "cert-dir">>}, "")
             /\ opt[s]["sharedBlobDir"] = LastGiven({<<s, "shared-blob-dir">>}, "")
             /\ opt[s]["dockerDaemonHost"] = LastGiven({<<s, "daemon-host">>}, "")
  <2>1. /\ Option(s, "dockerCertPath", "cert-dir", "") \in Decisive
        /\ Option(s, "sharedBlobDir", "shared-blob-dir", "") \in Decisive
        /\ Option(s, "dockerDaemonHost", "daemon-host", "") \in Decisive
    BY Zenon DEF Decisive
  <2>2. \A field, name, default : Option(s, field, name, default) \in Decisive
                                 => opt[s][field] = LastGiven({<<s, name>>}, default)
    BY FollowsAt
  <2>3. QED
    BY <2>1, <2>2, Zenon
<1>2. /\ opt["shared"]["authFilePath"] = LastGiven({<<"shared", "authfile">>}, Env)
      /\ opt["retry"]["MaxRetry"] = LastGiven({<<"retry", "retry-times">>}, "0")
      /\ opt["global"]["LogLevel"] = LastGiven({<<"global", "loglevel">>}, "info")
  <2>1. /\ Option("shared", "authFilePath", "authfile", Env) \in Decisive
        /\ Option("retry", "MaxRetry", "retry-times", "0") \in Decisive
        /\ Option("global", "LogLevel", "loglevel", "info") \in Decisive
    BY Zenon DEF Decisive
  <2>2. QED
    BY <2>1, FollowsAt
<1>3. /\ ContextOf(co.SourceCtx, "src") /\ ContextOf(co.DestinationCtx, "dest")
      /\ co.MaxRetry = opt["retry"]["MaxRetry"] /\ level = opt["global"]["LogLevel"]
  BY DEF OptionsInv, ContextsFollowOptions
<1>4. ASSUME NEW c \in Contexts
      PROVE  /\ c[2].cert = LastGiven({<<c[1], "cert-dir">>}, "") /\ c[2].daemonCert = c[2].cert
             /\ c[2].blobs = LastGiven({<<c[1], "shared-blob-dir">>}, "")
             /\ c[2].host = LastGiven({<<c[1], "daemon-host">>}, "")
             /\ c[2].auth = LastGiven({<<"shared", "authfile">>}, Env)
             /\ c[2].skipTLS = ~global.TlsVerify
  <2>1. c[1] \in Sides /\ ContextOf(c[2], c[1])
    BY <1>3 DEF Sides, Contexts
  <2>2. QED
    BY <1>1, <1>2, <2>1 DEF ContextOf
<1>5. QED
  BY <1>2, <1>3, <1>4, Zenon DEF CopyFollowsFlags

\* For command lines of any length, and whatever values the flags take and the
\* other options have: certificates, blob directory, daemon, retries and log level
\* are those given last for a side, or for both; and where no flag of the side is
\* to override them, so are the shared authentication file and the caller's TLS
\* setting (options.go:176-208, executor.go:48-72, 99-105).
THEOREM CopyFollowsFlagsAlways == Spec => []CopyFollowsFlags
<1>1. Init => OptionsInv
  BY InitOptionsInv
<1>2. OptionsInv /\ [Next]_vars => OptionsInv'
  BY NextOptionsInv
<1>3. OptionsInv => CopyFollowsFlags
  BY InvImpliesFollows
<1>4. QED
  BY <1>1, <1>2, <1>3, PTL DEF Spec
=============================================================================
