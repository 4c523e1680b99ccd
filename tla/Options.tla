------------------------------ MODULE Options -------------------------------
(***************************************************************************)
(* From the command line to what copy.Image is given: the flag sets, the   *)
(* option objects they write into (one for the source, one for the         *)
(* destination, the others shared by the two), and the SystemContexts that *)
(* Mirror.copy makes of them, which live in a heap and are updated in      *)
(* place.  A flag is a prefix and a name; an option is a field of an       *)
(* object.  The options no flag sets are the parameter Globals.            *)
(***************************************************************************)
EXTENDS Naturals, Sequences, FiniteSets

CONSTANTS
  MaxFlags,  \* flags on a command line
  Strings,   \* values of a flag that takes text, not ""
  Globals,   \* the GlobalOptions and Format that are not set by flags
  Env,       \* $REGISTRY_AUTH_FILE
  Unset      \* an optional value that is not present

VARIABLES
  pc,       \* where the command is
  flags,    \* history: the flags given, in order, as [flag, value]
  opt,      \* opt[o][f] : field f of option object o
  global,   \* GlobalOptions
  level,    \* level of the logger
  heap,     \* the SystemContexts, in the order they were allocated
  ctx,      \* ctx[side] : which of them the source and the destination have
  policy,   \* the signature policy
  co        \* what copy.Image and the retry loop are given

vars == <<pc, flags, opt, global, level, heap, ctx, policy, co>>

Sides == {"src", "dest"}
Bools == {"true", "false"}
Numbers == {"0", "3"}
Levels == {"info", "debug", "trace", "error"}

Flag(prefix, name, field, values) ==
  [flag |-> <<prefix, name>>, object |-> prefix, field |-> field, values |-> values]

\* The flags of an image that concern a registry; the alias writes where creds does.
dockerImageFlags(side, alias) ==
  {Flag(side, f[1], f[2], Strings) : f \in
     {<<"authfile", "authFilePath">>, <<"creds", "credsOption">>, <<"username", "userName">>,
      <<"password", "password">>, <<"registry-token", "registryToken">>,
      <<"cert-dir", "dockerCertPath">>}}
  \cup {Flag(side, "tls-verify", "tlsVerify", Bools), Flag(side, "no-creds", "noCreds", Bools)}
  \cup {[flag |-> <<"", alias>>, object |-> side, field |-> "credsOption", values |-> Strings]}

ImageFlags(side, alias) ==
  dockerImageFlags(side, alias)
  \cup {Flag(side, "shared-blob-dir", "sharedBlobDir", Strings),
        Flag(side, "daemon-host", "dockerDaemonHost", Strings)}

ImageDestFlags(side, alias) ==
  ImageFlags(side, alias)
  \cup {Flag(side, f[1], f[2], Bools) : f \in
          {<<"compress", "dirForceCompression">>, <<"decompress", "dirForceDecompression">>,
           <<"oci-accept-uncompressed-layers", "ociAcceptUncompressedLayers">>,
           <<"precompute-digests", "precomputeDigests">>}}
  \cup {Flag(side, "compress-format", "compressionFormat", Strings),
        Flag(side, "compress-level", "compressionLevel", Numbers)}

\* --authfile, --tls-verify and --retry-times
SharedImageFlags == {Flag("shared", "authfile", "authFilePath", Strings)}
DeprecatedTLSVerifyFlags == {Flag("deprecated", "tls-verify", "tlsVerify", Bools)}
RetryFlags == {Flag("retry", "retry-times", "MaxRetry", Numbers)}

\* All the flags of the command; --image-index is left to Collector.
Flags ==
  {Flag("global", "loglevel", "LogLevel", Levels)}
  \cup SharedImageFlags \cup DeprecatedTLSVerifyFlags \cup RetryFlags
  \cup ImageFlags("src", "screds") \cup ImageDestFlags("dest", "dcreds")

Default(object, field) ==
  IF object = "shared" THEN Env
  ELSE CASE field = "LogLevel" -> "info"
         [] field = "MaxRetry" -> "0"
         [] field \in {"authFilePath", "credsOption", "userName", "password", "registryToken",
                       "tlsVerify", "compressionLevel"} -> Unset
         [] field \in {"noCreds", "dirForceCompression", "dirForceDecompression",
                       "ociAcceptUncompressedLayers", "precomputeDigests"} -> "false"
         [] OTHER -> ""

Objects == {f.object : f \in Flags}
FieldsOf(object) == {f.field : f \in {g \in Flags : g.object = object}}

\* What decides something in the copy; and the Format of CopyOptions.
GlobalOptions == [TlsVerify : BOOLEAN, InsecurePolicy : BOOLEAN, PolicyPath : {"", "file"},
                  CommandTimeout : Nat, Format : {"", "oci", "v2s1", "v2s2", "other"}]

ASSUME OptionsAssumption ==
  /\ MaxFlags \in Nat
  /\ "" \notin Strings
  /\ Globals \subseteq GlobalOptions

-----------------------------------------------------------------------------

\* main and NewCliCmd.
Init ==
  /\ pc = "flags" /\ flags = <<>>
  /\ opt = [o \in Objects |-> [f \in FieldsOf(o) |-> Default(o, f)]]
  /\ global \in Globals
  /\ level = "info"
  /\ heap = <<>> /\ ctx = [s \in Sides |-> 0]
  /\ policy = Unset /\ co = Unset

Goto(from, to) == pc = from /\ pc' = to

\* The next flag of the command line is stored; later ones overwrite it.
SetFlag ==
  /\ pc = "flags" /\ Len(flags) < MaxFlags
  /\ \E f \in Flags : \E v \in f.values :
       /\ flags' = Append(flags, [flag |-> f.flag, value |-> v])
       /\ opt' = [opt EXCEPT ![f.object][f.field] = v]
  /\ UNCHANGED <<pc, global, level, heap, ctx, policy, co>>

\* A flag that wants a boolean or a number is given something else.
SetFlagFails ==
  /\ Goto("flags", "usage") /\ Len(flags) < MaxFlags
  /\ UNCHANGED <<flags, opt, global, level, heap, ctx, policy, co>>

\* Complete overrides the level of the logger; any word will do.
Complete ==
  /\ Goto("flags", "policy")
  /\ level' = opt["global"]["LogLevel"]
  /\ UNCHANGED <<flags, opt, global, heap, ctx, policy, co>>

\* GetPolicyContext: a default or named policy file may fail to load.
GetPolicyContext ==
  /\ pc = "policy"
  /\ IF global.InsecurePolicy THEN policy' = "accept anything" /\ pc' = "src"
     ELSE \/ policy' = (IF global.PolicyPath = "" THEN "default" ELSE global.PolicyPath) /\ pc' = "src"
          \/ pc' = "error" /\ UNCHANGED policy
  /\ UNCHANGED <<flags, opt, global, level, heap, ctx, co>>

\* GlobalOptions.NewSystemContext: a new object.
Fresh == [skipTLS |-> ~global.TlsVerify, cert |-> "", blobs |-> "", auth |-> "", host |-> "",
          daemonCert |-> ""]

\* Mutant: one object for every call.
newContextShared == [heap |-> IF heap = <<>> THEN <<Fresh>> ELSE heap, at |-> 1]

newContext == [heap |-> Append(heap, Fresh), at |-> Len(heap) + 1]

\* imageOptions.NewSystemContext, of the source or, promoted, of the destination.
NewSystemContext(side) ==
  LET new == newContext
      o   == opt[side]
  IN
  /\ ctx' = [ctx EXCEPT ![side] = new.at]
  /\ heap' = [new.heap EXCEPT ![new.at] =
       [@ EXCEPT !.cert = o["dockerCertPath"], !.blobs = o["sharedBlobDir"],
                 !.auth = opt["shared"]["authFilePath"], !.host = o["dockerDaemonHost"],
                 !.daemonCert = o["dockerCertPath"]]]
  /\ UNCHANGED <<flags, opt, global, level, policy, co>>

SourceContext == Goto("src", "dest") /\ NewSystemContext("src")
DestinationContext == Goto("dest", "format") /\ NewSystemContext("dest")

\* The MIME type of a format; other names are refused.
ManifestFormat == [oci |-> "image.manifest.v1", v2s1 |-> "manifest.v1+prettyjws", v2s2 |-> "manifest.v2"]

ParseManifestFormat ==
  /\ pc = "format"
  /\ pc' = IF global.Format \in {""} \cup DOMAIN ManifestFormat THEN "copy" ELSE "error"
  /\ UNCHANGED <<flags, opt, global, level, heap, ctx, policy, co>>

\* copy.Options and the retry options; a timeout of 0 is none.
CopyOptions ==
  /\ Goto("copy", "copying")
  /\ co' = [RemoveSignatures |-> TRUE,
            SourceCtx |-> heap[ctx["src"]], DestinationCtx |-> heap[ctx["dest"]],
            MaxRetry |-> opt["retry"]["MaxRetry"],
            ForceManifestMIMEType |-> IF global.Format = "" THEN "" ELSE ManifestFormat[global.Format],
            timed |-> global.CommandTimeout > 0]
  /\ UNCHANGED <<flags, opt, global, level, heap, ctx, policy>>

Finished == pc \in {"usage", "error", "copying"} /\ UNCHANGED vars

Next ==
  \/ SetFlag \/ SetFlagFails \/ Complete \/ GetPolicyContext
  \/ SourceContext \/ DestinationContext \/ ParseManifestFormat \/ CopyOptions
  \/ Finished

Spec == Init /\ [][Next]_vars

-----------------------------------------------------------------------------

\* The value the user last gave under one of the names, or the default.
LastGiven(names, default) ==
  LET at == {k \in 1..Len(flags) : flags[k].flag \in names}
  IN IF at = {} THEN default ELSE flags[CHOOSE k \in at : \A j \in at : j <= k].value

\* The context of each side.
Contexts == {<<"src", co.SourceCtx>>, <<"dest", co.DestinationCtx>>}

\* Certificates, blob directory, daemon and retries, and the level of the log, are
\* those the user gave last for this side, or for both, whatever was said of the
\* other side and in whatever order: each side has a SystemContext of its own
\* (options.go:176-208, executor.go:48-72, 99-105).  So are the shared
\* authentication file and the caller's TLS setting where no flag of the side is
\* to override them.  Nothing is said of a side's own authfile and of the
\* tls-verify flags, for which see PerImageFlagsOverride, nor of its credentials,
\* token and no-creds: they are stored, and nothing reads them.
CopyFollowsFlags ==
  pc = "copying" =>
    /\ \A c \in Contexts :
         /\ c[2].cert = LastGiven({<<c[1], "cert-dir">>}, "") /\ c[2].daemonCert = c[2].cert
         /\ c[2].blobs = LastGiven({<<c[1], "shared-blob-dir">>}, "")
         /\ c[2].host = LastGiven({<<c[1], "daemon-host">>}, "")
         /\ LastGiven({<<c[1], "authfile">>}, Unset) = Unset =>
              c[2].auth = LastGiven({<<"shared", "authfile">>}, Env)
         /\ LastGiven({<<c[1], "tls-verify">>, <<"deprecated", "tls-verify">>}, Unset) = Unset =>
              c[2].skipTLS = ~global.TlsVerify
    /\ co.MaxRetry = LastGiven({<<"retry", "retry-times">>}, "0")
    /\ level = LastGiven({<<"global", "loglevel">>}, "info")

\* Not kept: what the flags of an image say overrides what holds for both sides:
\* the TLS setting ("override it if a per-image flag is provided", options.go:188)
\* and the authentication file ("prefixed version to override shared image
\* option", options.go:78).
PerImageFlagsOverride ==
  pc = "copying" =>
    \A c \in Contexts :
      /\ LastGiven({<<c[1], "tls-verify">>}, Unset) = "true" => ~c[2].skipTLS
      /\ c[2].auth = LastGiven({<<c[1], "authfile">>}, LastGiven({<<"shared", "authfile">>}, Env))
=============================================================================
