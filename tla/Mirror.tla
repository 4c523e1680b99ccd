------------------------------- MODULE Mirror -------------------------------
(***************************************************************************)
(* One call of Mirror.Run by Collect: the policy context, the copy with    *)
(* its goroutines (one per layer, as many at a time as the semaphore lets),*)
(* the retry loop, the command timeout, and the report.  The report goes   *)
(* to a bufio.Writer that is handed down by value: each copy of it counts  *)
(* the lines it has buffered on its own, all share one buffer, and nothing *)
(* guards it against the goroutines.  A line is the unit of the buffer.    *)
(***************************************************************************)
EXTENDS Integers, Sequences, FiniteSets

CONSTANTS
  NLayers,   \* the most layers an image has
  MaxRetry,  \* --retry-times
  Size,      \* lines the report buffer holds
  Inputs,    \* what the call is given: records [layers, loads, parses, timed, parallel]
  Blank      \* a place of the buffer never written

VARIABLES
  given,      \* how many layers has the image? does the policy load? do the names and
              \* the format parse? is there a CommandTimeout? how many layers are copied
              \* at a time?
  pc,         \* where the call is
  err,        \* the error in hand
  attempt,    \* retries so far
  expired,    \* has the context of the command timed out?
  policy,     \* state of the PolicyContext
  committed,  \* history: has a try written index.json?
  layer,      \* layer[l] : where the goroutine of layer l is, or how it ended
  at,         \* at[l] : the count it has read
  n,          \* n[w] : lines buffered, as counted by the copy w of the writer
  buf,        \* the buffer
  stuck,      \* the error a writer keeps: it writes nothing any more
  file,       \* the lines of the log file
  said        \* history: the lines reported, in order

report == <<n, buf, stuck, file, said>>
crew   == <<layer, at>>
flow   == <<given, attempt, expired, policy, committed>>
vars   == <<pc, err, flow, crew, report>>

Ls == 1..NLayers
Writers == {"Collect", "copy"}
Retryable == {"refused"}
Errors == Retryable \cup {"fatal", "cancelled", "destroy"}
Over == {"fetched"} \cup Errors
Lines == [try : 0..MaxRetry, kind : {"blob", "config", "manifest", "signatures"}, of : 0..NLayers]
Line(kind, l) == [try |-> attempt, kind |-> kind, of |-> l]
Ended == {"end", "panic"}

ASSUME MirrorAssumption ==
  /\ NLayers \in Nat /\ MaxRetry \in Nat
  /\ Size \in Nat \ {0}
  /\ Inputs \subseteq [layers : 0..NLayers, loads : BOOLEAN, parses : BOOLEAN,
                       timed : BOOLEAN, parallel : Nat \ {0}]
  /\ Blank \notin Lines

Init ==
  /\ given \in Inputs
  /\ pc = "policy" /\ err = "none" /\ attempt = 0 /\ expired = FALSE
  /\ policy = "none" /\ committed = FALSE
  /\ layer = [l \in Ls |-> "none"] /\ at = [l \in Ls |-> 0]
  /\ n = [w \in Writers |-> 0]
  /\ buf = [k \in 1..Size |-> Blank] /\ stuck = FALSE
  /\ file = <<>> /\ said = <<>>

Go(from, to) == pc = from /\ pc' = to
Fail(e) == pc' = "failed" /\ err' = e

-----------------------------------------------------------------------------
(* The bufio.Writer.  A count beyond the buffer makes the next slice of it *)
(* panic.                                                                  *)

Buffered(w) == SubSeq(buf, 1, n[w])

\* Printf by the only goroutine that runs: a full buffer is flushed first.
Printf(line) ==
  /\ n["copy"] <= Size
  /\ said' = Append(said, line)
  /\ IF stuck THEN UNCHANGED <<n, buf, file>>
     ELSE LET full == n["copy"] = Size
              k    == IF full THEN 1 ELSE n["copy"] + 1
          IN /\ file' = IF full THEN file \o buf ELSE file
             /\ n' = [n EXCEPT !["copy"] = k]
             /\ buf' = [buf EXCEPT ![k] = line]
  /\ UNCHANGED stuck

Flush(w) ==
  /\ n[w] <= Size
  /\ IF stuck THEN UNCHANGED <<n, file>>
     ELSE file' = file \o Buffered(w) /\ n' = [n EXCEPT ![w] = 0]
  /\ UNCHANGED <<buf, stuck, said>>

\* The process dies of a slice out of range, in the call or in a goroutine.
Panic ==
  /\ n["copy"] > Size /\ ~stuck /\ pc \notin Ended
  /\ \/ pc \in {"config", "manifest", "signatures", "flush"}
     \/ \E l \in Ls : layer[l] \in {"report", "drain", "reset", "store"}
  /\ pc' = "panic"
  /\ UNCHANGED <<err, flow, crew, report>>

-----------------------------------------------------------------------------
(* Mirror.copy, up to the first try *)

\* GetPolicyContext; without a policy the deferred Destroy is not set up.
LoadPolicy ==
  /\ Go("policy", IF given.loads THEN "parse" ELSE "collect")
  /\ policy' = IF given.loads THEN "Ready" ELSE policy
  /\ err' = IF given.loads THEN err ELSE "fatal"
  /\ UNCHANGED <<given, attempt, expired, committed, crew, report>>

\* The two image names, the two system contexts, the manifest format; then the
\* context of the command.
Prepare ==
  /\ Go("parse", IF given.parses THEN "open" ELSE "destroy")
  /\ err' = IF given.parses THEN err ELSE "fatal"
  /\ UNCHANGED <<flow, crew, report>>

\* Mutant: the condition of CommandTimeoutContext is turned round.
ExpireUntimed ==
  /\ ~given.timed /\ ~expired
  /\ pc \notin {"policy", "parse", "destroy", "collect"} \cup Ended
  /\ expired' = TRUE
  /\ UNCHANGED <<pc, err, given, attempt, policy, committed, crew, report>>

\* The context of CommandTimeoutContext, in existence from the first try on.
Expire ==
  /\ given.timed /\ ~expired
  /\ pc \notin {"policy", "parse", "destroy", "collect"} \cup Ended
  /\ expired' = TRUE
  /\ UNCHANGED <<pc, err, given, attempt, policy, committed, crew, report>>

-----------------------------------------------------------------------------
(* copy.Image *)

\* The destination is opened; the source is asked for.
OpenDest ==
  /\ Go("open", "source")
  /\ layer' = [l \in Ls |-> "none"]
  /\ UNCHANGED <<err, flow, at, report>>

\* The registry answers a request of the call.
Respond ==
  /\ pc \in {"source", "blob"}
  /\ pc' = IF pc = "source" THEN "allow" ELSE "manifest"
  /\ UNCHANGED <<err, flow, crew, report>>

\* It answers with an error, or the connection fails.
Refuse ==
  /\ pc \in {"source", "blob"}
  /\ \E e \in Retryable \cup {"fatal"} : Fail(e)
  /\ UNCHANGED <<flow, crew, report>>

\* A request ends with the context.
Cancel ==
  /\ pc \in {"source", "blob"} /\ expired
  /\ Fail("cancelled")
  /\ UNCHANGED <<flow, crew, report>>

\* IsRunningImageAllowed takes the policy context ...
Allow ==
  /\ pc = "allow"
  /\ IF policy = "Ready" THEN policy' = "InUse" /\ pc' = "judge" /\ UNCHANGED err
     ELSE UNCHANGED policy /\ Fail("fatal")
  /\ UNCHANGED <<given, attempt, expired, committed, crew, report>>

\* Mutant: and keeps it.
JudgeKeeps ==
  /\ Go("judge", "layers")
  /\ UNCHANGED <<err, flow, crew, report>>

\* ... and gives it back.
Judge ==
  /\ Go("judge", "layers")
  /\ policy' = "Ready"
  /\ UNCHANGED <<err, given, attempt, expired, committed, crew, report>>

\* A policy that is not the insecure one may refuse the image.
JudgeDenies ==
  /\ pc = "judge" /\ Fail("fatal")
  /\ policy' = "Ready"
  /\ UNCHANGED <<given, attempt, expired, committed, crew, report>>

Running == {l \in Ls : layer[l] \notin {"none"} \cup Over}
Waiting == {l \in 1..given.layers : layer[l] = "none"}

\* copyLayers: a goroutine per layer, in order, as the semaphore has room.
Launch ==
  /\ pc = "layers" /\ Cardinality(Running) < given.parallel
  /\ \E l \in Waiting :
       /\ \A k \in Waiting : l <= k
       /\ layer' = [layer EXCEPT ![l] = "report"]
  /\ UNCHANGED <<pc, err, flow, at, report>>

\* No room, and Acquire ends with the context; the rest is not started.
LaunchCancelled ==
  /\ Go("layers", "wait")
  /\ Waiting # {} /\ Cardinality(Running) >= given.parallel /\ expired
  /\ err' = "cancelled"
  /\ UNCHANGED <<flow, crew, report>>

Launched ==
  /\ Go("layers", "wait")
  /\ Waiting = {}
  /\ UNCHANGED <<err, flow, crew, report>>

\* copyGroup.Wait, then the error of the first layer that has one.
Joined ==
  LET bad == {l \in Ls : layer[l] \in Errors}
  IN
  /\ pc = "wait" /\ Running = {}
  /\ IF err # "none" THEN Fail(err)
     ELSE IF bad # {} THEN \E l \in bad : (\A k \in bad : l <= k) /\ Fail(layer[l])
     ELSE pc' = "config" /\ UNCHANGED err
  /\ UNCHANGED <<flow, crew, report>>

\* The config, the manifest and the (removed) signatures are reported and written.
PrintConfig ==
  /\ Go("config", "blob") /\ Printf(Line("config", 0))
  /\ UNCHANGED <<err, flow, crew>>
PrintManifest ==
  /\ Go("manifest", "signatures") /\ Printf(Line("manifest", 0))
  /\ UNCHANGED <<err, flow, crew>>
PrintSignatures ==
  /\ Go("signatures", "commit") /\ Printf(Line("signatures", 0))
  /\ UNCHANGED <<err, flow, crew>>

Commit ==
  /\ Go("commit", "flush")
  /\ committed' = TRUE
  /\ UNCHANGED <<err, given, attempt, expired, policy, crew, report>>

\* The layout cannot be opened or written.
DestFails ==
  /\ pc \in {"open", "signatures", "commit"}
  /\ \E e \in Retryable \cup {"fatal"} : Fail(e)
  /\ UNCHANGED <<flow, crew, report>>

-----------------------------------------------------------------------------
(* The goroutine of a layer: copyLayer reports the blob through the writer *)
(* the others use too, then fetches it.  Write reads the count, copies the *)
(* line to the place it has read, and adds to the count.                   *)

At(l, step) == pc \in {"layers", "wait"} /\ layer[l] = step
To(l, step) == layer' = [layer EXCEPT ![l] = step] /\ UNCHANGED <<pc, err, flow>>

Write(l) ==
  /\ At(l, "report") /\ ~stuck /\ n["copy"] <= Size
  /\ at' = [at EXCEPT ![l] = n["copy"]]
  /\ To(l, IF n["copy"] = Size THEN "drain" ELSE "store")
  /\ UNCHANGED report

WriteStuck(l) ==
  /\ At(l, "report") /\ stuck
  /\ said' = Append(said, Line("blob", l))
  /\ To(l, "fetch")
  /\ UNCHANGED <<at, n, buf, stuck, file>>

\* The buffer is full: Flush hands it to the file ...
Drain(l) ==
  /\ At(l, "drain") /\ n["copy"] <= Size
  /\ at' = [at EXCEPT ![l] = n["copy"]]
  /\ file' = file \o Buffered("copy")
  /\ To(l, IF n["copy"] = 0 THEN "report" ELSE "reset")
  /\ UNCHANGED <<n, buf, stuck, said>>

\* ... and clears the count; what has come in between passes for a short write.
Reset(l) ==
  LET over == n["copy"] - at[l]
  IN
  /\ At(l, "reset") /\ n["copy"] <= Size
  /\ IF over <= 0 THEN n' = [n EXCEPT !["copy"] = 0] /\ UNCHANGED <<buf, stuck>>
     ELSE /\ n' = [n EXCEPT !["copy"] = over] /\ stuck' = TRUE
          /\ buf' = [k \in 1..Size |-> IF k <= over THEN buf[at[l] + k] ELSE buf[k]]
  /\ To(l, "report")
  /\ UNCHANGED <<at, file, said>>

Store(l) ==
  /\ At(l, "store")
  /\ buf' = [buf EXCEPT ![at[l] + 1] = Line("blob", l)]
  /\ said' = Append(said, Line("blob", l))
  /\ To(l, "advance")
  /\ UNCHANGED <<at, n, stuck, file>>

\* b.n += nn, with the count read again or still in a register.
Advance(l) ==
  /\ At(l, "advance")
  /\ \E k \in {at[l], n["copy"]} : n' = [n EXCEPT !["copy"] = k + 1]
  /\ To(l, "fetch")
  /\ UNCHANGED <<at, buf, stuck, file, said>>

\* The registry answers the goroutine, with the blob or with an error.
Fetch(l) ==
  /\ At(l, "fetch")
  /\ \E answer \in {"fetched", "fatal"} \cup Retryable : To(l, answer)
  /\ UNCHANGED <<at, report>>

FetchCancelled(l) ==
  /\ At(l, "fetch") /\ expired
  /\ To(l, "cancelled")
  /\ UNCHANGED <<at, report>>

-----------------------------------------------------------------------------
(* The end of a try, retry.IfNecessary, and the return *)

\* Mutant: the report is left in the buffer.
OutUnflushed ==
  /\ Go("flush", "destroy")
  /\ UNCHANGED <<err, flow, crew, report>>

OutFlush ==
  /\ Go("flush", "destroy") /\ Flush("copy")
  /\ UNCHANGED <<err, flow, crew>>

\* Mutant: one retry more.
DecideOneMore ==
  /\ Go("failed", IF err \in Retryable /\ attempt <= MaxRetry THEN "delay" ELSE "destroy")
  /\ UNCHANGED <<err, flow, crew, report>>

Decide ==
  /\ Go("failed", IF err \in Retryable /\ attempt < MaxRetry THEN "delay" ELSE "destroy")
  /\ UNCHANGED <<err, flow, crew, report>>

\* time.After fires first ...
Wake ==
  /\ Go("delay", "open") /\ err' = "none"
  /\ attempt' = attempt + 1
  /\ UNCHANGED <<given, expired, policy, committed, crew, report>>

\* ... or the context ends.
WakeCancelled ==
  /\ Go("delay", "destroy") /\ expired
  /\ UNCHANGED <<err, flow, crew, report>>

\* The deferred Destroy, whose error takes the place of the result.
Destroy ==
  /\ Go("destroy", "collect")
  /\ IF policy = "Ready" THEN policy' = "Destroyed" /\ UNCHANGED err
     ELSE UNCHANGED policy /\ err' = "destroy"
  /\ UNCHANGED <<given, attempt, expired, committed, crew, report>>

\* Back in Collect, which flushes its own copy of the writer.
CollectFlush ==
  /\ Go("collect", "end") /\ Flush("Collect")
  /\ UNCHANGED <<err, flow, crew>>

Finished == pc \in Ended /\ UNCHANGED vars

-----------------------------------------------------------------------------

\* What the code does when it is scheduled.
Code ==
  \/ LoadPolicy \/ Prepare \/ OpenDest \/ Cancel \/ Allow \/ Judge \/ JudgeDenies
  \/ Launch \/ LaunchCancelled \/ Launched \/ Joined
  \/ PrintConfig \/ PrintManifest \/ PrintSignatures \/ Commit \/ OutFlush
  \/ Decide \/ Wake \/ WakeCancelled \/ Destroy \/ CollectFlush
Goroutine(l) ==
  \/ Write(l) \/ WriteStuck(l) \/ Drain(l) \/ Reset(l) \/ Store(l) \/ Advance(l)
  \/ FetchCancelled(l)
\* What the registry does.
Answer == Respond \/ Refuse

Next ==
  \/ Code \/ Panic \/ DestFails \/ Answer \/ Expire \/ Finished
  \/ \E l \in Ls : Goroutine(l) \/ Fetch(l)

Spec == Init /\ [][Next]_vars

\* The goroutines are scheduled, system calls return, time passes.
FairSpec ==
  Spec /\ WF_vars(Code) /\ WF_vars(Panic) /\ WF_vars(Expire) /\ \A l \in Ls : WF_vars(Goroutine(l))

\* And the registry answers what it is asked, if nothing else ends a request.
AnsweringSpec ==
  /\ FairSpec
  /\ WF_vars(~given.timed /\ Answer)
  /\ \A l \in Ls : WF_vars(~given.timed /\ Fetch(l))

-----------------------------------------------------------------------------

\* Types.  The unguarded count can pass the size of the buffer, by one for each
\* goroutine at most; the retries stay within --retry-times.
TypeOK ==
  /\ given \in Inputs /\ expired \in BOOLEAN /\ committed \in BOOLEAN /\ stuck \in BOOLEAN
  /\ pc \in {"policy", "parse", "open", "source", "allow", "judge", "layers", "wait",
             "config", "blob", "manifest", "signatures", "commit", "flush", "failed",
             "delay", "destroy", "collect"} \cup Ended
  /\ err \in {"none"} \cup Errors
  /\ attempt \in 0..MaxRetry
  /\ policy \in {"none", "Ready", "InUse", "Destroyed"}
  /\ layer \in [Ls -> {"none", "report", "drain", "reset", "store", "advance", "fetch"} \cup Over]
  /\ at \in [Ls -> 0..Size] /\ n \in [Writers -> 0..(Size + NLayers)]
  /\ buf \in [1..Size -> Lines \cup {Blank}]
  /\ file \in Seq(Lines \cup {Blank}) /\ said \in Seq(Lines)

\* What Mirror.Run is to its caller.
phase == IF pc = "panic" THEN "dead"
         ELSE IF pc = "end" THEN IF err = "none" THEN "nil" ELSE "error"
         ELSE IF committed THEN "committed" ELSE "trying"
Contract == INSTANCE CopyContract WITH MaxTries <- MaxRetry, tries <- attempt, phase <- phase

\* Mirror.Run returns nil if and only if a try has committed, which is the last
\* one, whatever fails, expires or is retried: the deferred Destroy never turns
\* a copy that is on disk into an error (mirror.go:68-72, 117-125).
KeepsContract == Contract!Spec

\* The lines of a copy after its blobs, and what the log file would end with if the
\* buffer were flushed.
Ending == <<Line("config", 0), Line("manifest", 0), Line("signatures", 0)>>
EndsWith(s, t) == Len(t) <= Len(s) /\ \A i \in 1..Len(t) : s[Len(s) - Len(t) + i] = t[i]

\* What the report keeps, through the writer handed down by value, although the
\* layers are copied several at a time (mirror.go:110, 123).  An image of one layer
\* has all of it, of all the tries, in the log, in the order it was printed.  The
\* goroutines of more layers may garble what they print, and the count of the
\* buffer with it; the lines after them still end the log of a copy that succeeds,
\* unless the writer was left with an error.
ReportInOrder ==
  /\ given.layers <= 1 =>
       /\ (\A l \in Ls : layer[l] \notin {"reset", "advance"}) => file \o Buffered("copy") = said
       /\ pc = "end" /\ err = "none" => file = said
  /\ pc = "end" /\ err = "none" /\ ~stuck => EndsWith(file, Ending)

\* A call of Mirror.Run ends (mirror.go:58-126): every wait in it, for the
\* registry, the semaphore, the delay of a retry or the other goroutines, ends,
\* with a timeout also if the registry never answers.
CopyEnds == <>(pc \in Ended)

\* Not kept: every blob that is copied is in the report in the log
\* ("we still want to indicate when blobs and configs are copied").
EachBlobReported ==
  pc = "end" /\ err = "none" =>
    \A l \in 1..given.layers : \E k \in 1..Len(file) : file[k] = Line("blob", l)
=============================================================================
