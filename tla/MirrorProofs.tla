---------------------------- MODULE MirrorProofs ----------------------------
(***************************************************************************)
(* Mirror.Run implements CopyContract, for any number of layers, goroutines*)
(* and retries, any size of the buffer, with or without a timeout; and for *)
(* as many of them, the report of a copy: how far the unguarded count of   *)
(* the buffer can run when several goroutines print, that an image of one  *)
(* layer has all its lines in the log, and that the goroutines of more do  *)
(* not cost the log the lines after them.                                  *)
(***************************************************************************)
EXTENDS Mirror, SequenceTheorems, FiniteSetTheorems, TLAPS

Trying == {"open", "source", "allow", "layers", "wait", "config", "blob", "manifest",
           "signatures", "commit"}

\* The try that runs has not committed, and has no error in hand unless it is
\* waiting for goroutines after Acquire failed.
Uncommitted ==
  /\ pc \in Trying \cup {"policy", "parse", "judge", "failed", "delay"} => committed = FALSE
  /\ pc \in (Trying \ {"wait"}) \cup {"policy", "parse", "judge", "flush"} => err = "none"
  /\ pc \in {"failed", "delay"} => err # "none"

\* Where the deferred Destroy can be reached, the policy context is Ready.
PolicyReady == pc \in Trying \cup {"parse", "failed", "delay", "flush", "destroy"} => policy = "Ready"

\* On the way out there is no error if and only if a try has committed.
Settled ==
  /\ pc = "flush" => committed = TRUE
  /\ pc \in {"destroy", "collect", "end"} => (committed = TRUE <=> err = "none")

Retries ==
  /\ attempt \in 0..MaxRetry
  /\ pc = "delay" => attempt < MaxRetry

Inv == Uncommitted /\ PolicyReady /\ Settled /\ Retries /\ committed \in BOOLEAN

\* The part of the state the contract is about.
core == <<pc, err, attempt, policy, committed>>

\* Before anything has happened there is nothing to keep.
LEMMA InvInit == Init => Inv
<1> SUFFICES ASSUME Init PROVE Inv
  OBVIOUS
<1>1. pc = "policy" /\ err = "none" /\ attempt = 0 /\ committed = FALSE
  BY DEF Init
<1>2. Retries
  BY <1>1, MirrorAssumption DEF Retries
<1> QED
  BY <1>1, <1>2 DEF Inv, Uncommitted, PolicyReady, Settled, Trying

\* A step that leaves the core alone keeps the invariant and is a stutter of
\* the contract: the goroutines, the timeout and the writers are such steps.
LEMMA CoreSteps ==
  ASSUME Inv, UNCHANGED core
  PROVE  Inv' /\ UNCHANGED Contract!vars
BY DEF Inv, Uncommitted, PolicyReady, Settled, Retries, core, Contract!vars, phase

\* The steps of the goroutines, of the timeout and after the end.
LEMMA QuietSteps ==
  ASSUME \/ \E l \in Ls : Goroutine(l) \/ Fetch(l)
         \/ Expire \/ Finished \/ Launch
  PROVE  UNCHANGED core
BY DEF Goroutine, Write, WriteStuck, Drain, Reset, Store, Advance, Fetch, FetchCancelled,
       To, flow, Expire, Finished, Launch, vars, core

\* Every other step keeps the invariant and is a step of the contract.
LEMMA LoudSteps ==
  ASSUME Inv, Code \/ Panic \/ DestFails \/ Answer, ~Launch
  PROVE  Inv' /\ [Contract!Next]_(Contract!vars)
<1> USE DEF Inv, Uncommitted, PolicyReady, Settled, Retries, Trying, Go, Fail, flow, Contract!vars, phase
<1>1. CASE LoadPolicy
  BY <1>1 DEF LoadPolicy
<1>2. CASE Prepare
  BY <1>2 DEF Prepare
<1>3. CASE OpenDest
  BY <1>3 DEF OpenDest
<1>4. CASE Respond
  BY <1>4 DEF Respond
<1>5. CASE Refuse \/ DestFails
  BY <1>5 DEF Refuse, DestFails, Retryable
<1>6. CASE Cancel
  BY <1>6 DEF Cancel
<1>7. CASE Allow
  BY <1>7 DEF Allow
<1>8. CASE Judge \/ JudgeDenies
  BY <1>8 DEF Judge, JudgeDenies
<1>9. CASE LaunchCancelled
  BY <1>9 DEF LaunchCancelled
<1>10. CASE Launched
  BY <1>10 DEF Launched
<1>11. CASE Joined
  BY <1>11 DEF Joined, Errors, Retryable
<1>12. CASE PrintConfig \/ PrintManifest \/ PrintSignatures
  BY <1>12 DEF PrintConfig, PrintManifest, PrintSignatures
<1>13. CASE Commit
  BY <1>13 DEF Commit, Contract!Next, Contract!Commit
<1>14. CASE OutFlush
  BY <1>14 DEF OutFlush
<1>15. CASE Decide
  BY <1>15 DEF Decide
<1>16. CASE Wake
  BY <1>16, MirrorAssumption DEF Wake, Contract!Next, Contract!Again
<1>17. CASE WakeCancelled
  BY <1>17 DEF WakeCancelled
<1>18. CASE Destroy
  BY <1>18 DEF Destroy
<1>19. CASE CollectFlush
  BY <1>19 DEF CollectFlush, Contract!Next, Contract!Succeed, Contract!Fail
<1>20. CASE Panic
  BY <1>20 DEF Panic, Ended, Contract!Next, Contract!Die
<1> QED
  BY <1>1, <1>2, <1>3, <1>4, <1>5, <1>6, <1>7, <1>8, <1>9, <1>10, <1>11, <1>12, <1>13, <1>14,
     <1>15, <1>16, <1>17, <1>18, <1>19, <1>20 DEF Code, Answer

\* Either way.
LEMMA StepSimulation ==
  ASSUME Inv, [Next]_vars
  PROVE  Inv' /\ [Contract!Next]_(Contract!vars)
<1>1. CASE UNCHANGED vars
  BY <1>1, CoreSteps DEF vars, flow, core
<1>2. CASE \/ \E l \in Ls : Goroutine(l) \/ Fetch(l)
           \/ Expire \/ Finished \/ Launch
  BY <1>2, QuietSteps, CoreSteps
<1>3. CASE (Code \/ Panic \/ DestFails \/ Answer) /\ ~Launch
  BY <1>3, LoudSteps
<1> QED
  BY <1>1, <1>2, <1>3 DEF Next

\* Mirror.Run returns nil if and only if a try has committed, tries at most
\* MaxRetry times more, and does not try again after a commit; the deferred
\* Destroy finds the policy context Ready on every way out (mirror.go:58-126).
THEOREM MirrorKeepsContract == Spec => KeepsContract
<1>1. Init => Inv
  BY InvInit
<1>2. Init => Contract!Init
  BY DEF Init, Contract!Init, phase
<1>3. Inv /\ [Next]_vars => Inv' /\ [Contract!Next]_(Contract!vars)
  BY StepSimulation
<1> QED
  BY <1>1, <1>2, <1>3, PTL DEF Spec, KeepsContract, Contract!Spec

-----------------------------------------------------------------------------
(* The types, and the report *)

Places == Lines \cup {Blank}
Steps == {"none", "report", "drain", "reset", "store", "advance", "fetch"} \cup Over

\* TypeOK in three parts.
FlowTypes ==
  /\ given \in Inputs /\ expired \in BOOLEAN
  /\ pc \in {"policy", "parse", "open", "source", "allow", "judge", "layers", "wait",
             "config", "blob", "manifest", "signatures", "commit", "flush", "failed",
             "delay", "destroy", "collect"} \cup Ended
  /\ err \in {"none"} \cup Errors
  /\ policy \in {"none", "Ready", "InUse", "Destroyed"}
CrewTypes == layer \in [Ls -> Steps] /\ at \in [Ls -> 0..Size]
ReportTypes ==
  /\ stuck \in BOOLEAN /\ n \in [Writers -> 0..(Size + NLayers)]
  /\ buf \in [1..Size -> Places] /\ file \in Seq(Places) /\ said \in Seq(Lines)

\* The goroutines between reading the count and adding to it.
Midway == {l \in Ls : layer[l] \in {"store", "advance"}}

\* What has been read leaves room; each goroutine that is midway can still add one
\* to the count.  Collect's copy of the writer stays empty.
Bounds ==
  /\ \A l \in Midway : at[l] < Size
  /\ n["copy"] + Cardinality(Midway) <= Size + NLayers
  /\ n["Collect"] = 0

TypeInv == FlowTypes /\ CrewTypes /\ ReportTypes /\ Bounds /\ Inv

\* The steps that the report and the goroutines do not see.
Elsewhere ==
  \/ LoadPolicy \/ Prepare \/ Cancel \/ Allow \/ Judge \/ JudgeDenies \/ LaunchCancelled \/ Launched
  \/ Joined \/ Commit \/ Decide \/ Wake \/ WakeCancelled \/ Destroy
  \/ Panic \/ DestFails \/ Answer \/ Expire \/ Finished \/ UNCHANGED vars

LEMMA ElsewhereQuiet ==
  ASSUME Elsewhere
  PROVE  UNCHANGED <<layer, at, n, buf, stuck, file, said>>
BY DEF Elsewhere, LoadPolicy, Prepare, Cancel, Allow, Judge, JudgeDenies, LaunchCancelled, Launched,
       Joined, Commit, Decide, Wake, WakeCancelled, Destroy, Panic, DestFails, Answer, Respond,
       Refuse, Expire, Finished, vars, crew, report

-----------------------------------------------------------------------------
(* Types *)

LEMMA NextFlowTypes ==
  ASSUME FlowTypes, CrewTypes, [Next]_vars
  PROVE  FlowTypes'
<1> USE DEF FlowTypes, Go, Fail, flow, Ended, Errors, Retryable
<1>1. CASE \E l \in Ls : Goroutine(l) \/ Fetch(l)
  BY <1>1 DEF Goroutine, Write, WriteStuck, Drain, Reset, Store, Advance, Fetch, FetchCancelled, To
<1>2. CASE Expire \/ Finished \/ Launch \/ UNCHANGED vars
  BY <1>2 DEF Expire, Finished, Launch, vars
<1>3. CASE LoadPolicy \/ Prepare
  BY <1>3 DEF LoadPolicy, Prepare
<1>4. CASE OpenDest \/ Respond
  BY <1>4 DEF OpenDest, Respond
<1>5. CASE Refuse \/ DestFails \/ Cancel
  BY <1>5 DEF Refuse, DestFails, Cancel
<1>6. CASE Allow \/ Judge \/ JudgeDenies
  BY <1>6 DEF Allow, Judge, JudgeDenies
<1>7. CASE LaunchCancelled \/ Launched
  BY <1>7 DEF LaunchCancelled, Launched
<1>8. CASE Joined
  BY <1>8 DEF Joined, CrewTypes
<1>9. CASE PrintConfig \/ PrintManifest \/ PrintSignatures \/ Commit \/ OutFlush
  BY <1>9 DEF PrintConfig, PrintManifest, PrintSignatures, Commit, OutFlush
<1>10. CASE Decide \/ Wake \/ WakeCancelled \/ Destroy \/ CollectFlush \/ Panic
  BY <1>10 DEF Decide, Wake, WakeCancelled, Destroy, CollectFlush, Panic
<1>11. QED
  BY <1>1, <1>2, <1>3, <1>4, <1>5, <1>6, <1>7, <1>8, <1>9, <1>10 DEF Next, Code, Answer

LEMMA NextCrewTypes ==
  ASSUME CrewTypes, ReportTypes, [Next]_vars
  PROVE  CrewTypes'
<1> USE DEF CrewTypes, Steps, To
<1>1. CASE Elsewhere
  BY <1>1, ElsewhereQuiet
<1>2. CASE OpenDest \/ Launch
  <2>1. CASE OpenDest
    BY <2>1 DEF OpenDest
  <2>2. CASE Launch
    <3>1. PICK l \in Waiting : layer' = [layer EXCEPT ![l] = "report"]
      BY <2>2 DEF Launch
    <3>2. UNCHANGED at
      BY <2>2 DEF Launch
    <3>3. QED
      BY <3>1, <3>2
  <2>3. QED
    BY <1>2, <2>1, <2>2
<1>3. CASE PrintConfig \/ PrintManifest \/ PrintSignatures \/ OutFlush \/ CollectFlush
  BY <1>3 DEF PrintConfig, PrintManifest, PrintSignatures, OutFlush, CollectFlush, crew
<1>4. ASSUME NEW l \in Ls, Goroutine(l) \/ Fetch(l)
      PROVE  CrewTypes'
  <2>1. n["copy"] \in Nat
    BY MirrorAssumption DEF ReportTypes, Writers
  <2>2. CASE Write(l) \/ Drain(l)
    BY <2>1, <2>2, MirrorAssumption DEF Write, Drain
  <2>3. CASE WriteStuck(l) \/ Reset(l) \/ Store(l) \/ Advance(l)
    BY <2>3 DEF WriteStuck, Reset, Store, Advance
  <2>4. CASE Fetch(l) \/ FetchCancelled(l)
    BY <2>4 DEF Fetch, FetchCancelled, Over, Errors, Retryable
  <2>5. QED
    BY <1>4, <2>2, <2>3, <2>4 DEF Goroutine
<1>5. QED
  BY <1>1, <1>2, <1>3, <1>4 DEF Next, Code, Elsewhere

\* The buffer is a sequence, and what is buffered a prefix of it.
LEMMA BufferedIsSeq ==
  ASSUME NEW b \in [1..Size -> Places], NEW k \in 0..Size
  PROVE  /\ b \in Seq(Places) /\ Len(b) = Size
         /\ SubSeq(b, 1, k) \in Seq(Places) /\ Len(SubSeq(b, 1, k)) = k
         /\ \A i \in 1..k : SubSeq(b, 1, k)[i] = b[i]
<1>1. b \in Seq(Places)
  BY MirrorAssumption, SeqDef
<1>2. Len(b) = Size
  <2>1. DOMAIN b = 1..Len(b) /\ DOMAIN b = 1..Size /\ Len(b) \in Nat
    BY <1>1, LenProperties
  <2>2. QED
    BY <2>1, MirrorAssumption
<1>3. \A i \in 1..k : b[i] \in Places
  BY MirrorAssumption
<1>4. QED
  BY <1>1, <1>2, <1>3, SubSeqProperties, MirrorAssumption

LEMMA LineIsLine ==
  ASSUME Inv, NEW kind \in {"blob", "config", "manifest", "signatures"}, NEW l \in 0..NLayers
  PROVE  Line(kind, l) \in Lines /\ Line(kind, l) \in Places
BY DEF Inv, Retries, Line, Lines, Places

LEMMA PrintfTypes ==
  ASSUME ReportTypes, n["Collect"] = 0, NEW line \in Lines, Printf(line)
  PROVE  ReportTypes' /\ n'["Collect"] = 0 /\ (n["copy"] <= Size => n'["copy"] <= Size)
<1> USE DEF ReportTypes
<1>1. said' \in Seq(Lines) /\ stuck' \in BOOLEAN
  BY AppendProperties DEF Printf
<1>2. CASE stuck
  BY <1>1, <1>2 DEF Printf
<1>3. CASE ~stuck
  <2> DEFINE k == IF n["copy"] = Size THEN 1 ELSE n["copy"] + 1
  <2>1. /\ n["copy"] <= Size /\ n["copy"] \in Nat /\ Size \in Nat \ {0}
        /\ file' = IF n["copy"] = Size THEN file \o buf ELSE file
        /\ n' = [n EXCEPT !["copy"] = k] /\ buf' = [buf EXCEPT ![k] = line]
    BY <1>3, MirrorAssumption DEF Printf, Writers
  <2>2. k \in 1..Size /\ k \in 0..(Size + NLayers)
    BY <2>1, MirrorAssumption
  <2> HIDE DEF k
  <2>3. n' \in [Writers -> 0..(Size + NLayers)] /\ n'["Collect"] = 0 /\ n'["copy"] <= Size
    BY <2>1, <2>2 DEF Writers
  <2>4. buf' \in [1..Size -> Places]
    BY <2>1, <2>2 DEF Places
  <2>5. file' \in Seq(Places)
    <3>1. buf \in Seq(Places)
      BY <2>1, BufferedIsSeq
    <3>2. QED
      BY <2>1, <3>1, ConcatProperties
  <2>6. QED
    BY <1>1, <2>3, <2>4, <2>5
<1>4. QED
  BY <1>2, <1>3

LEMMA FlushTypes ==
  ASSUME ReportTypes, n["Collect"] = 0, NEW w \in Writers, Flush(w)
  PROVE  ReportTypes' /\ n'["Collect"] = 0 /\ n'["copy"] <= n["copy"]
<1> USE DEF ReportTypes
<1>1. n[w] \in 0..Size /\ n["copy"] \in Nat
  BY MirrorAssumption DEF Flush, Writers
<1>2. CASE stuck
  BY <1>1, <1>2 DEF Flush
<1>3. CASE ~stuck
  <2>1. Buffered(w) \in Seq(Places)
    BY <1>1, BufferedIsSeq DEF Buffered
  <2>2. file' \in Seq(Places)
    BY <1>3, <2>1, ConcatProperties DEF Flush
  <2>3. n' = [n EXCEPT ![w] = 0] /\ UNCHANGED <<buf, stuck, said>>
    BY <1>3 DEF Flush
  <2>4. n' \in [Writers -> 0..(Size + NLayers)]
    BY <2>3, MirrorAssumption
  <2>5. n'["Collect"] = 0 /\ n'["copy"] <= n["copy"]
    BY <1>1, <2>3 DEF Writers
  <2>6. QED
    BY <2>2, <2>3, <2>4, <2>5
<1>4. QED
  BY <1>2, <1>3

\* No more goroutines are midway than there are layers.
LEMMA MidwayFinite ==
  /\ IsFiniteSet(Midway) /\ Cardinality(Midway) \in 0..NLayers
  /\ IsFiniteSet(Midway') /\ Cardinality(Midway') \in 0..NLayers
<1>1. IsFiniteSet(Ls) /\ Cardinality(Ls) = NLayers
  <2>1. 1 \in Int /\ NLayers \in Int /\ NLayers >= 0
    BY MirrorAssumption
  <2>2. QED
    BY <2>1, FS_Interval DEF Ls
<1>2. ASSUME NEW T \in SUBSET Ls PROVE IsFiniteSet(T) /\ Cardinality(T) \in 0..NLayers
  BY <1>1, FS_Subset, FS_CardinalityType, MirrorAssumption
<1>3. Midway \in SUBSET Ls /\ Midway' \in SUBSET Ls
  BY DEF Midway
<1>4. QED
  BY <1>2, <1>3

\* A step of a goroutine, as the report sees it.
LEMMA GoroutineBounds ==
  ASSUME TypeInv, NEW l \in Ls, Goroutine(l) \/ Fetch(l)
  PROVE  ReportTypes' /\ Bounds'
<1> USE DEF TypeInv, CrewTypes, ReportTypes, Bounds, To, At
<1>0. /\ n["copy"] \in Nat /\ n["Collect"] = 0 /\ at[l] \in 0..Size /\ DOMAIN n = Writers
      /\ Size \in Nat \ {0} /\ NLayers \in Nat /\ "copy" \in Writers /\ "Collect" \in Writers
      /\ Line("blob", l) \in Lines /\ Line("blob", l) \in Places
  BY MirrorAssumption, LineIsLine DEF Writers, Ls
<1>1. CASE Write(l)
  <2>1. UNCHANGED report
    BY <1>1 DEF Write
  <2>2. n["copy"] < Size => n["copy"] + Cardinality(Midway') <= Size + NLayers
    BY <1>0, MidwayFinite
  <2>3. n["copy"] = Size => Midway' = Midway
    BY <1>1 DEF Write, Midway
  <2>4. \A k \in Midway' : at'[k] < Size
    BY <1>0, <1>1 DEF Write, Midway
  <2>5. n["copy"] <= Size
    BY <1>1 DEF Write
  <2>6. n'["copy"] + Cardinality(Midway') <= Size + NLayers
    <3>1. CASE n["copy"] < Size
      BY <2>1, <2>2, <3>1 DEF report
    <3>2. CASE n["copy"] = Size
      BY <2>1, <2>3, <3>2 DEF report
    <3>3. QED
      BY <1>0, <2>5, <3>1, <3>2
  <2>7. QED
    BY <2>1, <2>4, <2>6 DEF report
<1>2. CASE WriteStuck(l)
  <2>1. Midway' = Midway /\ UNCHANGED <<at, n, buf, stuck, file>>
    BY <1>2 DEF WriteStuck, Midway
  <2>2. said' \in Seq(Lines)
    BY <1>0, <1>2, AppendProperties DEF WriteStuck
  <2>3. QED
    BY <2>1, <2>2
<1>3. CASE Drain(l)
  <2>1. Midway' = Midway /\ UNCHANGED <<n, buf, stuck, said>> /\ n["copy"] \in 0..Size
    BY <1>0, <1>3 DEF Drain, Midway
  <2>2. file' \in Seq(Places)
    <3>1. Buffered("copy") \in Seq(Places)
      BY <2>1, BufferedIsSeq DEF Buffered
    <3>2. QED
      BY <1>3, <3>1, ConcatProperties DEF Drain
  <2>3. \A k \in Midway' : at'[k] < Size
    BY <1>3, <2>1 DEF Drain, Midway
  <2>4. QED
    BY <2>1, <2>2, <2>3
<1>4. CASE Reset(l)
  <2> DEFINE over == n["copy"] - at[l]
  <2>1. Midway' = Midway /\ UNCHANGED <<at, file, said>> /\ n["copy"] <= Size
    BY <1>4 DEF Reset, Midway
  <2>2. CASE over <= 0
    <3>1. n' = [n EXCEPT !["copy"] = 0] /\ UNCHANGED <<buf, stuck>>
      BY <1>4, <2>2 DEF Reset
    <3>2. n' \in [Writers -> 0..(Size + NLayers)] /\ n'["copy"] = 0 /\ n'["Collect"] = 0
      BY <1>0, <3>1
    <3>3. QED
      BY <1>0, <2>1, <3>1, <3>2, MidwayFinite
  <2>3. CASE over > 0
    <3>1. /\ n' = [n EXCEPT !["copy"] = over] /\ stuck' = TRUE
          /\ buf' = [k \in 1..Size |-> IF k <= over THEN buf[at[l] + k] ELSE buf[k]]
      BY <1>0, <1>4, <2>3 DEF Reset
    <3>2. over \in 0..Size
      BY <1>0, <2>1, <2>3
    <3>3. \A k \in 1..Size : k <= over => at[l] + k \in 1..Size
      BY <1>0, <2>1
    <3> HIDE DEF over
    <3>4. n' \in [Writers -> 0..(Size + NLayers)] /\ n'["copy"] = over /\ n'["Collect"] = 0
      BY <1>0, <3>1, <3>2
    <3>5. buf' \in [1..Size -> Places]
      BY <3>1, <3>3
    <3>6. QED
      BY <1>0, <2>1, <3>1, <3>2, <3>4, <3>5, MidwayFinite
  <2>4. QED
    BY <1>0, <2>2, <2>3
<1>5. CASE Store(l)
  <2>1. Midway' = Midway /\ UNCHANGED <<at, n, stuck, file>> /\ at[l] < Size
    BY <1>5 DEF Store, Midway
  <2>2. said' \in Seq(Lines)
    BY <1>0, <1>5, AppendProperties DEF Store
  <2>3. buf' \in [1..Size -> Places]
    BY <1>0, <1>5, <2>1 DEF Store
  <2>4. QED
    BY <2>1, <2>2, <2>3
<1>6. CASE Advance(l)
  <2>1. l \in Midway /\ Midway' = Midway \ {l} /\ UNCHANGED <<at, buf, stuck, file, said>>
    BY <1>6 DEF Advance, Midway
  <2>2. Cardinality(Midway') = Cardinality(Midway) - 1
    BY <2>1, MidwayFinite, FS_RemoveElement
  <2>3. PICK k \in {at[l], n["copy"]} : n' = [n EXCEPT !["copy"] = k + 1]
    BY <1>6 DEF Advance
  <2>4. k \in Nat /\ k + 1 + Cardinality(Midway') <= Size + NLayers
    BY <1>0, <2>1, <2>2, MidwayFinite
  <2>5. k + 1 \in 0..(Size + NLayers)
    BY <1>0, <2>4, MidwayFinite
  <2>6. n' \in [Writers -> 0..(Size + NLayers)] /\ n'["copy"] = k + 1 /\ n'["Collect"] = 0
    BY <1>0, <2>3, <2>5
  <2>7. QED
    BY <2>1, <2>4, <2>6
<1>7. CASE Fetch(l) \/ FetchCancelled(l)
  <2>1. layer[l] = "fetch" /\ UNCHANGED <<at, report>>
        /\ \E a \in {"fetched", "fatal", "cancelled"} \cup Retryable : layer' = [layer EXCEPT ![l] = a]
    BY <1>7 DEF Fetch, FetchCancelled
  <2>2. Midway' = Midway
    BY <2>1 DEF Midway, Retryable
  <2>3. QED
    BY <2>1, <2>2 DEF report
<1>8. QED
  BY <1>1, <1>2, <1>3, <1>4, <1>5, <1>6, <1>7 DEF Goroutine

LEMMA NextBounds ==
  ASSUME TypeInv, [Next]_vars
  PROVE  ReportTypes' /\ Bounds'
<1>0. n["copy"] \in Nat /\ Size \in Nat /\ NLayers \in Nat /\ CrewTypes
  BY MirrorAssumption DEF TypeInv, ReportTypes, Writers
<1>1. CASE Elsewhere
  <2>1. UNCHANGED <<layer, at, n, buf, stuck, file, said>>
    BY <1>1, ElsewhereQuiet
  <2>2. Midway' = Midway
    BY <2>1 DEF Midway
  <2>3. QED
    BY <2>1, <2>2 DEF TypeInv, ReportTypes, Bounds
<1>2. CASE OpenDest \/ Launch
  <2>1. UNCHANGED <<at, n, buf, stuck, file, said>>
    BY <1>2 DEF OpenDest, Launch, report
  <2>2. Midway' = {} \/ Midway' = Midway
    <3>1. CASE OpenDest
      BY <3>1 DEF OpenDest, Midway
    <3>2. CASE Launch
      <4>1. PICK l \in Waiting : layer' = [layer EXCEPT ![l] = "report"]
        BY <3>2 DEF Launch
      <4>2. layer[l] = "none"
        BY DEF Waiting
      <4>3. QED
        BY <1>0, <4>1, <4>2 DEF Midway, CrewTypes
    <3>3. QED
      BY <1>2, <3>1, <3>2
  <2>3. n'["copy"] + Cardinality(Midway') <= Size + NLayers
    <3>1. Midway' = {} => Cardinality(Midway') = 0
      BY FS_EmptySet
    <3>2. n["copy"] <= Size + NLayers
      BY DEF TypeInv, ReportTypes, Writers
    <3>3. QED
      BY <1>0, <2>1, <2>2, <3>1, <3>2 DEF TypeInv, Bounds
  <2>4. QED
    BY <2>1, <2>2, <2>3 DEF TypeInv, ReportTypes, Bounds
<1>3. CASE PrintConfig \/ PrintManifest \/ PrintSignatures
  <2>1. PICK line \in Lines : Printf(line)
    <3>1. 0 \in 0..NLayers
      BY <1>0
    <3>2. QED
      BY <1>3, <3>1, LineIsLine DEF TypeInv, PrintConfig, PrintManifest, PrintSignatures
  <2>2. ReportTypes' /\ n'["Collect"] = 0 /\ n'["copy"] <= Size /\ n'["copy"] \in Nat
    <3>1. ReportTypes' /\ n'["Collect"] = 0 /\ n'["copy"] <= Size
      BY <2>1, PrintfTypes DEF TypeInv, Bounds, Printf
    <3>2. QED
      BY <3>1, MirrorAssumption DEF ReportTypes, Writers
  <2>3. Midway' = Midway /\ at' = at
    BY <1>3 DEF PrintConfig, PrintManifest, PrintSignatures, crew, Midway
  <2>4. n'["copy"] + Cardinality(Midway') <= Size + NLayers
    BY <1>0, <2>2, MidwayFinite
  <2>5. QED
    BY <2>2, <2>3, <2>4 DEF TypeInv, Bounds
<1>4. CASE OutFlush \/ CollectFlush
  <2>1. PICK w \in Writers : Flush(w)
    BY <1>4 DEF OutFlush, CollectFlush, Writers
  <2>2. ReportTypes' /\ n'["Collect"] = 0 /\ n'["copy"] <= n["copy"] /\ n'["copy"] \in Nat
    <3>1. ReportTypes' /\ n'["Collect"] = 0 /\ n'["copy"] <= n["copy"]
      BY <2>1, FlushTypes DEF TypeInv, Bounds
    <3>2. QED
      BY <3>1, MirrorAssumption DEF ReportTypes, Writers
  <2>3. Midway' = Midway /\ at' = at
    BY <1>4 DEF OutFlush, CollectFlush, crew, Midway
  <2>4. n'["copy"] + Cardinality(Midway') <= Size + NLayers
    BY <1>0, <2>2, <2>3, MidwayFinite DEF TypeInv, Bounds
  <2>5. QED
    BY <2>2, <2>3, <2>4 DEF TypeInv, Bounds
<1>5. CASE \E l \in Ls : Goroutine(l) \/ Fetch(l)
  BY <1>5, GoroutineBounds
<1>6. QED
  BY <1>1, <1>2, <1>3, <1>4, <1>5 DEF Next, Code, Elsewhere

LEMMA TypeInvariant == Spec => []TypeInv
<1>1. Init => TypeInv
  <2> SUFFICES ASSUME Init PROVE TypeInv
    OBVIOUS
  <2>0. 0 \in 0..Size /\ 0 \in 0..(Size + NLayers)
    BY MirrorAssumption
  <2>1. FlowTypes /\ CrewTypes
    <3>1. FlowTypes
      BY DEF Init, FlowTypes
    <3>2. CrewTypes
      BY <2>0 DEF Init, CrewTypes, Steps
    <3>3. QED
      BY <3>1, <3>2
  <2>2. ReportTypes
    <3>1. n \in [Writers -> 0..(Size + NLayers)]
      BY <2>0 DEF Init
    <3>2. buf \in [1..Size -> Places] /\ stuck \in BOOLEAN
      BY DEF Init, Places
    <3>3. file \in Seq(Places) /\ said \in Seq(Lines)
      BY DEF Init
    <3>4. QED
      BY <3>1, <3>2, <3>3 DEF ReportTypes
  <2>3. Bounds
    <3>1. Midway = {} /\ n["copy"] = 0 /\ n["Collect"] = 0
      BY DEF Init, Midway, Writers
    <3>2. QED
      BY <3>1, FS_EmptySet, MirrorAssumption DEF Bounds
  <2>4. QED
    BY <2>1, <2>2, <2>3, InvInit DEF TypeInv
<1>2. TypeInv /\ [Next]_vars => TypeInv'
  BY NextFlowTypes, NextCrewTypes, NextBounds, StepSimulation DEF TypeInv
<1>3. QED
  BY <1>1, <1>2, PTL DEF Spec

\* The unguarded count passes the size of the buffer by one for each goroutine at
\* most, and the retries stay within --retry-times, however the goroutines are
\* scheduled (mirror.go:58-126).
THEOREM MirrorTypeOK == Spec => []TypeOK
<1>1. TypeInv => TypeOK
  BY DEF TypeInv, FlowTypes, CrewTypes, ReportTypes, Inv, Retries, TypeOK, Places, Steps
<1>2. QED
  BY <1>1, TypeInvariant, PTL

-----------------------------------------------------------------------------
(* The order of the report of an image of one layer *)

\* Only the goroutine of the layer runs, and only while the call waits for it; no
\* count has run past the buffer, so that nothing is stuck and nothing panics.
Alone ==
  /\ \A l \in Running : l = 1
  /\ pc \notin {"layers", "wait"} => Running = {}
  /\ pc # "panic" /\ stuck = FALSE /\ n["copy"] <= Size

\* What is in the file and what is in the buffer, at each step of that goroutine.
Ordered ==
  /\ \A l \in Ls :
       /\ layer[l] = "store" => at[l] = n["copy"]
       /\ layer[l] = "drain" => n["copy"] = Size
       /\ layer[l] = "reset" => at[l] = n["copy"] /\ said = file
       /\ layer[l] = "advance" => at[l] = n["copy"] /\ said = file \o SubSeq(buf, 1, n["copy"] + 1)
  /\ (\A l \in Ls : layer[l] \notin {"reset", "advance"}) => said = file \o Buffered("copy")

\* A successful try has flushed the buffer.
Flushed == pc \in {"destroy", "collect", "end"} /\ err = "none" => file = said

OrderInv == given.layers <= 1 => Alone /\ Ordered /\ Flushed

LEMMA GivenStays == ASSUME [Next]_vars PROVE UNCHANGED given
<1> USE DEF flow
<1>1. CASE \E l \in Ls : Goroutine(l) \/ Fetch(l)
  BY <1>1 DEF Goroutine, Write, WriteStuck, Drain, Reset, Store, Advance, Fetch, FetchCancelled, To
<1>2. CASE Code
  BY <1>2 DEF Code, LoadPolicy, Prepare, OpenDest, Cancel, Allow, Judge, JudgeDenies, Launch,
              LaunchCancelled, Launched, Joined, PrintConfig, PrintManifest, PrintSignatures, Commit,
              OutFlush, Decide, Wake, WakeCancelled, Destroy, CollectFlush
<1>3. CASE Panic \/ DestFails \/ Answer \/ Expire \/ Finished \/ UNCHANGED vars
  BY <1>3 DEF Panic, DestFails, Answer, Respond, Refuse, Expire, Finished, vars
<1>4. QED
  BY <1>1, <1>2, <1>3 DEF Next

\* A line stored behind what is buffered is buffered after it.
LEMMA StoredBehind ==
  ASSUME NEW b \in [1..Size -> Places], NEW k \in 0..(Size - 1), NEW x \in Places,
         NEW f \in Seq(Places)
  PROVE  f \o SubSeq([b EXCEPT ![k + 1] = x], 1, k + 1) = Append(f \o SubSeq(b, 1, k), x)
<1> DEFINE c == [b EXCEPT ![k + 1] = x]
<1>0. Size \in Nat \ {0} /\ k + 1 \in 1..Size /\ k + 1 \in 0..Size /\ k \in 0..Size
  BY MirrorAssumption
<1>1. c \in [1..Size -> Places] /\ c[k + 1] = x /\ \A i \in 1..k : c[i] = b[i]
  BY <1>0
<1> HIDE DEF c
<1>2. /\ SubSeq(b, 1, k) \in Seq(Places) /\ Len(SubSeq(b, 1, k)) = k
      /\ \A i \in 1..k : SubSeq(b, 1, k)[i] = b[i]
  BY <1>0, BufferedIsSeq
<1>3. /\ SubSeq(c, 1, k + 1) \in Seq(Places) /\ Len(SubSeq(c, 1, k + 1)) = k + 1
      /\ \A i \in 1..(k + 1) : SubSeq(c, 1, k + 1)[i] = c[i]
  BY <1>0, <1>1, BufferedIsSeq
<1> DEFINE s == SubSeq(b, 1, k)
           t == SubSeq(c, 1, k + 1)
<1>4. Append(s, x) \in Seq(Places) /\ Len(Append(s, x)) = k + 1
      /\ Append(s, x)[k + 1] = x /\ \A i \in 1..k : Append(s, x)[i] = s[i]
  BY <1>2, AppendProperties
<1>5. t = Append(s, x)
  <2>1. \A i \in 1..(k + 1) : t[i] = Append(s, x)[i]
    BY <1>0, <1>1, <1>2, <1>3, <1>4
  <2>2. QED
    BY <1>3, <1>4, <2>1, SeqEqual
<1>6. f \o Append(s, x) = Append(f \o s, x)
  <2>1. Append(s, x) = s \o <<x>> /\ <<x>> \in Seq(Places)
    BY <1>2, AppendIsConcat
  <2>2. f \o s \in Seq(Places)
    BY <1>2, ConcatProperties
  <2>3. Append(f \o s, x) = (f \o s) \o <<x>>
    BY <2>2, AppendIsConcat
  <2>4. QED
    BY <1>2, <2>1, <2>3, ConcatAssociative
<1>7. QED
  BY <1>5, <1>6 DEF c

\* What the log would hold if the buffer were flushed.
Text == file \o Buffered("copy")

\* Printf by the call, to a writer that is not stuck, adds its line to that.
LEMMA PrintfAppends ==
  ASSUME TypeInv, stuck = FALSE, NEW line \in Lines, Printf(line)
  PROVE  /\ Text' = Append(Text, line) /\ Text \in Seq(Places) /\ line \in Places
         /\ said' = Append(said, line) /\ stuck' = FALSE /\ n'["copy"] <= Size
<1> DEFINE k == IF n["copy"] = Size THEN 0 ELSE n["copy"]
<1>1. /\ n["copy"] \in 0..Size /\ Size \in Nat \ {0} /\ "copy" \in DOMAIN n /\ line \in Places
      /\ buf \in [1..Size -> Places] /\ file \in Seq(Places)
  BY MirrorAssumption DEF Printf, TypeInv, ReportTypes, Writers, Places
<1>2. k \in 0..(Size - 1)
  BY <1>1
<1>3. /\ said' = Append(said, line) /\ n' = [n EXCEPT !["copy"] = k + 1] /\ stuck' = FALSE
      /\ buf' = [buf EXCEPT ![k + 1] = line]
      /\ file' = IF n["copy"] = Size THEN file \o buf ELSE file
  BY <1>1 DEF Printf
<1>4. Text = file' \o SubSeq(buf, 1, k) /\ file' \in Seq(Places) /\ Text \in Seq(Places)
  <2>1. CASE n["copy"] = Size
    <3>1. SubSeq(buf, 1, Size) = buf /\ buf \in Seq(Places)
      BY <1>1, BufferedIsSeq, SubSeqFull
    <3>2. file' = Text /\ Text \in Seq(Places)
      BY <1>1, <1>3, <2>1, <3>1, ConcatProperties DEF Buffered, Text
    <3>3. SubSeq(buf, 1, k) = <<>>
      BY <2>1, SubSeqEmpty
    <3>4. QED
      BY <3>2, <3>3, ConcatEmptySeq
  <2>2. CASE n["copy"] # Size
    <3>1. SubSeq(buf, 1, k) \in Seq(Places)
      BY <1>1, <2>2, BufferedIsSeq
    <3>2. QED
      BY <1>1, <1>3, <2>2, <3>1, ConcatProperties DEF Buffered, Text
  <2>3. QED
    BY <2>1, <2>2
<1> HIDE DEF k
<1>5. n'["copy"] = k + 1 /\ k + 1 <= Size
  BY <1>1, <1>2, <1>3
<1>6. file' \o SubSeq(buf', 1, k + 1) = Append(file' \o SubSeq(buf, 1, k), line)
  BY <1>1, <1>2, <1>3, <1>4, StoredBehind
<1>7. QED
  BY <1>1, <1>3, <1>4, <1>5, <1>6 DEF Text, Buffered

\* The steps that the report does not see: where the call may go, given what runs.
LEMMA ElsewhereOrder ==
  ASSUME TypeInv, Alone, Ordered, Flushed, Elsewhere
  PROVE  Alone' /\ Ordered' /\ Flushed'
<1>1. UNCHANGED <<layer, at, n, buf, stuck, file, said>>
  BY ElsewhereQuiet
<1>2. Ordered'
  BY <1>1 DEF Ordered, Buffered
<1>3. Running' = Running
  BY <1>1 DEF Running
<1>4. (pc' \notin {"layers", "wait"} => Running = {}) /\ pc' # "panic" /\ Flushed'
  <2> USE DEF Go, Fail, flow
  <2>0. (pc \notin {"layers", "wait"} => Running = {}) /\ pc # "panic" /\ ~(n["copy"] > Size)
    BY MirrorAssumption DEF Alone, TypeInv, ReportTypes, Writers
  <2>1. CASE LoadPolicy \/ Prepare
    BY <2>1, <2>0, <1>1 DEF LoadPolicy, Prepare, Flushed
  <2>2. CASE Cancel \/ Allow \/ Judge \/ JudgeDenies \/ DestFails \/ Answer
    BY <2>2, <2>0, <1>1 DEF Cancel, Allow, Judge, JudgeDenies, DestFails, Answer, Respond, Refuse, Flushed
  <2>3. CASE LaunchCancelled \/ Launched \/ Joined
    BY <2>3, <2>0, <1>1 DEF LaunchCancelled, Launched, Joined, Flushed
  <2>4. CASE Commit \/ Wake \/ Expire
    BY <2>4, <2>0, <1>1 DEF Commit, Wake, Expire, Flushed
  <2>5. CASE Decide \/ WakeCancelled
    <3>1. pc \in {"failed", "delay"} /\ err' = err
      BY <2>5 DEF Decide, WakeCancelled
    <3>2. err # "none"
      BY <3>1 DEF TypeInv, Inv, Uncommitted
    <3>3. QED
      BY <2>5, <2>0, <3>1, <3>2 DEF Decide, WakeCancelled, Flushed
  <2>6. CASE Destroy
    <3>1. pc = "destroy" /\ pc' = "collect" /\ (err' = "none" => err = "none")
      BY <2>6 DEF Destroy
    <3>2. QED
      BY <2>0, <1>1, <3>1 DEF Flushed
  <2>7. CASE Finished \/ UNCHANGED vars
    BY <2>7, <2>0, <1>1 DEF Finished, vars, Flushed
  <2>8. CASE Panic
    BY <2>8, <2>0 DEF Panic
  <2>9. QED
    BY <2>1, <2>2, <2>3, <2>4, <2>5, <2>6, <2>7, <2>8 DEF Elsewhere
<1>5. QED
  BY <1>1, <1>2, <1>3, <1>4 DEF Alone

\* The goroutine of the layer is launched when it does not run.
LEMMA LaunchOrder ==
  ASSUME TypeInv, given.layers <= 1, Alone, Ordered, Flushed, OpenDest \/ Launch
  PROVE  Alone' /\ Ordered' /\ Flushed'
<1>0. layer \in [Ls -> Steps] /\ given.layers \in 0..NLayers /\ NLayers \in Nat
  BY MirrorAssumption DEF TypeInv, CrewTypes, FlowTypes
<1>1. UNCHANGED <<at, n, buf, stuck, file, said, err>>
  BY DEF OpenDest, Launch, report
<1>2. CASE OpenDest
  <2>1. pc' = "source" /\ pc = "open" /\ \A l \in Ls : layer'[l] = "none"
    BY <1>2 DEF OpenDest, Go
  <2>2. Running' = {} /\ Running = {}
    BY <2>1 DEF Running, Alone
  <2>3. said = file \o Buffered("copy")
    BY <2>2 DEF Ordered, Running, Over, Errors, Retryable
  <2>4. QED
    BY <1>1, <2>1, <2>2, <2>3 DEF Alone, Ordered, Flushed, Buffered
<1>3. CASE Launch
  <2>1. pc = "layers" /\ pc' = "layers"
    BY <1>3 DEF Launch
  <2>3. PICK l \in Waiting : layer' = [layer EXCEPT ![l] = "report"]
    BY <1>3 DEF Launch
  <2>2. l = 1 /\ l \in Ls /\ Running = {}
    <3>1. l \in 1..given.layers /\ layer[l] = "none"
      BY DEF Waiting
    <3>2. l = 1 /\ l \in Ls
      BY <1>0, <3>1 DEF Ls
    <3>3. QED
      BY <3>1, <3>2 DEF Alone, Running
  <2>4. \A k \in Ls : k # l => layer'[k] = layer[k] /\ layer[k] \in {"none"} \cup Over
    BY <1>0, <2>2, <2>3 DEF Running
  <2>5. \A k \in Ls : k = l => layer'[k] = "report"
    BY <1>0, <2>3
  <2>6. \A k \in Running' : k = 1
    BY <2>2, <2>4 DEF Running
  <2>7. \A k \in Ls : layer'[k] \notin {"store", "drain", "reset", "advance"}
    BY <2>4, <2>5 DEF Over, Errors, Retryable
  <2>8. said = file \o Buffered("copy")
    BY <2>2 DEF Ordered, Running, Over, Errors, Retryable
  <2>9. QED
    BY <1>1, <2>1, <2>6, <2>7, <2>8 DEF Alone, Ordered, Flushed, Buffered
<1>4. QED
  BY <1>2, <1>3

LEMMA PrintOrder ==
  ASSUME TypeInv, Alone, Ordered, Flushed, PrintConfig \/ PrintManifest \/ PrintSignatures
  PROVE  Alone' /\ Ordered' /\ Flushed'
<1>1. /\ UNCHANGED <<layer, at, err>> /\ pc \in {"config", "manifest", "signatures"}
      /\ pc' \in {"blob", "signatures", "commit"}
  BY DEF PrintConfig, PrintManifest, PrintSignatures, Go, crew
<1>2. PICK line \in Lines : Printf(line)
  <2>1. 0 \in 0..NLayers
    BY MirrorAssumption
  <2>2. QED
    BY <2>1, LineIsLine DEF TypeInv, PrintConfig, PrintManifest, PrintSignatures
<1>3. Running = {} /\ Running' = {}
  BY <1>1 DEF Running, Alone
<1>4. \A l \in Ls : layer'[l] \notin {"store", "drain", "reset", "advance"} /\ layer' = layer
  BY <1>1, <1>3 DEF Running, Over, Errors, Retryable
<1>5. said' = file' \o SubSeq(buf', 1, n'["copy"]) /\ stuck' = FALSE /\ n'["copy"] <= Size
  <2>1. said = Text
    BY <1>4 DEF Ordered, Text
  <2>2. QED
    BY <1>2, <2>1, PrintfAppends DEF Alone, Text, Buffered
<1>6. QED
  BY <1>1, <1>3, <1>4, <1>5 DEF Alone, Ordered, Flushed, Buffered

LEMMA FlushOrder ==
  ASSUME TypeInv, Alone, Ordered, Flushed, OutFlush \/ CollectFlush
  PROVE  Alone' /\ Ordered' /\ Flushed'
<1>0. /\ n["copy"] \in 0..Size /\ n["Collect"] = 0 /\ DOMAIN n = Writers /\ stuck = FALSE
      /\ file \in Seq(Places) /\ buf \in [1..Size -> Places] /\ Size \in Nat \ {0}
  BY MirrorAssumption DEF TypeInv, ReportTypes, Bounds, Alone, Writers
<1>1. UNCHANGED <<layer, at, err, buf, stuck, said>> /\ pc \notin {"layers", "wait"}
      /\ pc' \in {"destroy", "end"}
  BY DEF OutFlush, CollectFlush, Go, crew, Flush
<1>2. Running = {} /\ Running' = {}
  BY <1>1 DEF Running, Alone
<1>3. \A l \in Ls : layer[l] \notin {"store", "drain", "reset", "advance"} /\ layer' = layer
  BY <1>1, <1>2 DEF Running, Over, Errors, Retryable
<1>4. said = file \o Buffered("copy")
  BY <1>3 DEF Ordered
<1>5. \A s \in Seq(Places) : s \o SubSeq(buf, 1, 0) = s
  <2>1. SubSeq(buf, 1, 0) = <<>>
    BY SubSeqEmpty
  <2>2. QED
    BY <2>1, ConcatEmptySeq
<1>6. CASE OutFlush
  <2>1. file' = file \o Buffered("copy") /\ n' = [n EXCEPT !["copy"] = 0]
    BY <1>0, <1>6 DEF OutFlush, Flush
  <2>2. file' = said /\ file' \in Seq(Places)
    <3>1. Buffered("copy") \in Seq(Places)
      BY <1>0, BufferedIsSeq DEF Buffered
    <3>2. QED
      BY <1>0, <1>4, <2>1, <3>1, ConcatProperties
  <2>3. n'["copy"] = 0
    BY <1>0, <2>1 DEF Writers
  <2>4. said' = file' \o SubSeq(buf', 1, n'["copy"])
    BY <1>1, <1>5, <2>2, <2>3
  <2>5. QED
    BY <1>0, <1>1, <1>2, <1>3, <2>2, <2>3, <2>4 DEF Alone, Ordered, Flushed, Buffered
<1>7. CASE CollectFlush
  <2>1. file' = file \o SubSeq(buf, 1, 0) /\ n' = [n EXCEPT !["Collect"] = 0] /\ pc = "collect"
    BY <1>0, <1>7 DEF CollectFlush, Flush, Buffered, Go
  <2>2. file' = file /\ n'["copy"] = n["copy"]
    BY <1>0, <1>5, <2>1 DEF Writers
  <2>3. QED
    BY <1>0, <1>1, <1>2, <1>3, <1>4, <2>1, <2>2 DEF Alone, Ordered, Flushed, Buffered
<1>8. QED
  BY <1>6, <1>7

\* The others are not running, and stay where they are.
LEMMA OthersRest ==
  ASSUME CrewTypes, Alone, NEW l \in Ls, NEW step, At(l, step), step \notin {"none"} \cup Over,
         NEW next, layer' = [layer EXCEPT ![l] = next], UNCHANGED pc
  PROVE  /\ layer'[l] = next
         /\ \A k \in Ls : k # l => layer'[k] = layer[k] /\ layer[k] \in {"none"} \cup Over
         /\ \A k \in Running' : k = 1
         /\ pc' \notin {"layers", "wait"} => Running' = {}
         /\ pc' \notin {"panic", "destroy", "collect", "end"}
<1>1. l \in Running /\ pc \in {"layers", "wait"}
  BY DEF At, Running
<1>2. l = 1 /\ \A k \in Ls : k # l => k \notin Running
  BY <1>1 DEF Alone
<1>3. layer'[l] = next /\ \A k \in Ls : k # l => layer'[k] = layer[k]
  BY DEF CrewTypes
<1>4. \A k \in Running' : k = l
  BY <1>2, <1>3 DEF Running
<1>5. QED
  BY <1>1, <1>2, <1>3, <1>4 DEF Running

LEMMA GoroutineOrder ==
  ASSUME TypeInv, Alone, Ordered, Flushed, NEW l \in Ls, Goroutine(l) \/ Fetch(l)
  PROVE  Alone' /\ Ordered' /\ Flushed'
<1> USE DEF To
<1>0. /\ n["copy"] \in 0..Size /\ DOMAIN n = Writers /\ "copy" \in Writers /\ stuck = FALSE
      /\ file \in Seq(Places) /\ buf \in [1..Size -> Places] /\ Size \in Nat \ {0}
      /\ DOMAIN at = Ls /\ Line("blob", l) \in Places
  BY MirrorAssumption, LineIsLine DEF TypeInv, CrewTypes, ReportTypes, Bounds, Alone, Writers, Ls
<1>1. \A s \in {"none"} \cup Over : s \notin {"report", "drain", "reset", "store", "advance", "fetch"}
  BY DEF Over, Errors, Retryable
<1> DEFINE Rest == \A k \in Ls : k # l => layer'[k] = layer[k] /\ layer[k] \in {"none"} \cup Over
           Only == /\ \A k \in Running' : k = 1
                   /\ pc' \notin {"layers", "wait"} => Running' = {}
                   /\ pc' \notin {"panic", "destroy", "collect", "end"}
<1> DEFINE Good ==
             /\ stuck' = FALSE /\ n'["copy"] <= Size
             /\ layer'[l] = "store" => at'[l] = n'["copy"]
             /\ layer'[l] = "drain" => n'["copy"] = Size
             /\ layer'[l] = "reset" => at'[l] = n'["copy"] /\ said' = file'
             /\ layer'[l] = "advance" =>
                  at'[l] = n'["copy"] /\ said' = file' \o SubSeq(buf', 1, n'["copy"] + 1)
             /\ layer'[l] \notin {"reset", "advance"} => said' = file' \o SubSeq(buf', 1, n'["copy"])
<1>2. ASSUME Rest, Only, Good
      PROVE  Alone' /\ Ordered' /\ Flushed'
  <2>1. Alone' /\ Flushed'
    BY <1>2 DEF Alone, Flushed
  <2>2. ASSUME NEW k \in Ls, k # l PROVE layer'[k] \notin {"store", "drain", "reset", "advance"}
    BY <1>1, <1>2, <2>2
  <2>3. Ordered'
    BY <1>2, <2>2 DEF Ordered, Buffered
  <2>4. QED
    BY <2>1, <2>3
<1>3. ASSUME layer[l] \notin {"reset", "advance"}, Rest PROVE said = file \o SubSeq(buf, 1, n["copy"])
  <2>1. \A k \in Ls : layer[k] \notin {"reset", "advance"}
    BY <1>1, <1>3
  <2>2. QED
    BY <2>1 DEF Ordered, Buffered
<1>4. ASSUME NEW step \in {"report", "drain", "reset", "store", "advance", "fetch"}, At(l, step),
             NEW next, layer' = [layer EXCEPT ![l] = next], UNCHANGED pc
      PROVE  layer'[l] = next /\ Rest /\ Only
  BY <1>1, <1>4, OthersRest DEF TypeInv
<1> HIDE DEF Rest, Only
<1>5. CASE Write(l)
  <2> DEFINE next == IF n["copy"] = Size THEN "drain" ELSE "store"
  <2>1. /\ At(l, "report") /\ layer' = [layer EXCEPT ![l] = next] /\ UNCHANGED <<pc, n, buf, stuck, file, said>>
        /\ at' = [at EXCEPT ![l] = n["copy"]]
    BY <1>5 DEF Write, report
  <2>2. layer'[l] = next /\ Rest /\ Only
    BY <1>4, <2>1
  <2>3. layer[l] = "report" /\ at'[l] = n["copy"]
    BY <1>0, <2>1 DEF At
  <2>4. said = file \o SubSeq(buf, 1, n["copy"])
    BY <1>3, <2>2, <2>3
  <2>5. Good
    BY <1>0, <2>1, <2>2, <2>3, <2>4
  <2>6. QED
    BY <1>2, <2>5, <2>2
<1>6. CASE WriteStuck(l)
  BY <1>0, <1>6 DEF WriteStuck
<1>7. CASE Drain(l)
  <2>1. At(l, "drain") /\ n["copy"] = Size
    BY <1>7 DEF Drain, At, Ordered
  <2>2. /\ layer' = [layer EXCEPT ![l] = "reset"] /\ UNCHANGED <<pc, n, buf, stuck, said>>
        /\ at' = [at EXCEPT ![l] = n["copy"]] /\ file' = file \o SubSeq(buf, 1, n["copy"])
    BY <1>0, <1>7, <2>1 DEF Drain, Buffered
  <2>3. layer'[l] = "reset" /\ Rest /\ Only
    BY <1>4, <2>1, <2>2
  <2>4. said' = file' /\ at'[l] = n["copy"]
    BY <1>0, <1>3, <2>1, <2>2, <2>3 DEF At
  <2>5. Good
    BY <1>0, <2>2, <2>3, <2>4
  <2>6. QED
    BY <1>2, <2>5, <2>3
<1>8. CASE Reset(l)
  <2>1. At(l, "reset") /\ at[l] = n["copy"] /\ said = file
    BY <1>8 DEF Reset, At, Ordered
  <2>2. /\ layer' = [layer EXCEPT ![l] = "report"] /\ UNCHANGED <<pc, buf, stuck, said, file>>
        /\ n' = [n EXCEPT !["copy"] = 0]
    BY <1>0, <1>8, <2>1 DEF Reset
  <2>3. layer'[l] = "report" /\ Rest /\ Only
    BY <1>4, <2>1, <2>2
  <2>4. n'["copy"] = 0 /\ SubSeq(buf', 1, 0) = <<>>
    BY <1>0, <2>2, SubSeqEmpty
  <2>5. said' = file' \o SubSeq(buf', 1, n'["copy"])
    BY <1>0, <2>1, <2>2, <2>4, ConcatEmptySeq
  <2>6. Good
    BY <1>0, <2>2, <2>3, <2>4, <2>5
  <2>7. QED
    BY <1>2, <2>6, <2>3
<1>9. CASE Store(l)
  <2>1. At(l, "store") /\ at[l] = n["copy"] /\ n["copy"] \in 0..(Size - 1)
    BY <1>0, <1>9 DEF Store, At, Ordered, TypeInv, Bounds, Midway
  <2>2. /\ layer' = [layer EXCEPT ![l] = "advance"] /\ UNCHANGED <<pc, at, n, stuck, file>>
        /\ buf' = [buf EXCEPT ![n["copy"] + 1] = Line("blob", l)] /\ said' = Append(said, Line("blob", l))
    BY <1>9, <2>1 DEF Store
  <2>3. layer'[l] = "advance" /\ Rest /\ Only
    BY <1>4, <2>1, <2>2
  <2>4. said = file \o SubSeq(buf, 1, n["copy"])
    BY <1>3, <2>1, <2>3 DEF At
  <2>5. said' = file' \o SubSeq(buf', 1, n["copy"] + 1)
    BY <1>0, <2>1, <2>2, <2>4, StoredBehind
  <2>6. n' = n /\ at'[l] = n'["copy"] /\ stuck' = FALSE /\ n'["copy"] <= Size
    BY <1>0, <2>1, <2>2
  <2>7. said' = file' \o SubSeq(buf', 1, n'["copy"] + 1)
    BY <2>5, <2>6
  <2>8. Good
    BY <2>3, <2>6, <2>7
  <2>9. QED
    BY <1>2, <2>3, <2>8
<1>10. CASE Advance(l)
  <2>1. /\ At(l, "advance") /\ at[l] = n["copy"] /\ n["copy"] < Size
        /\ said = file \o SubSeq(buf, 1, n["copy"] + 1)
    BY <1>10 DEF Advance, At, Ordered, TypeInv, Bounds, Midway
  <2>2. /\ layer' = [layer EXCEPT ![l] = "fetch"] /\ UNCHANGED <<pc, at, buf, stuck, file, said>>
        /\ n' = [n EXCEPT !["copy"] = n["copy"] + 1]
    BY <1>10, <2>1 DEF Advance
  <2>3. layer'[l] = "fetch" /\ Rest /\ Only
    BY <1>4, <2>1, <2>2
  <2>4. n'["copy"] = n["copy"] + 1
    BY <1>0, <2>2
  <2>5. Good
    BY <1>0, <2>1, <2>2, <2>3, <2>4
  <2>6. QED
    BY <1>2, <2>5, <2>3
<1>11. CASE Fetch(l) \/ FetchCancelled(l)
  <2>1. /\ At(l, "fetch") /\ UNCHANGED <<pc, at, n, buf, stuck, file, said>>
        /\ \E a \in Over : layer' = [layer EXCEPT ![l] = a]
    BY <1>11 DEF Fetch, FetchCancelled, report, Over, Errors, Retryable
  <2>2. PICK a \in Over : layer' = [layer EXCEPT ![l] = a]
    BY <2>1
  <2>3. layer'[l] = a /\ Rest /\ Only
    BY <1>4, <2>1, <2>2
  <2>4. a \notin {"report", "drain", "reset", "store", "advance", "fetch"}
    BY <1>1
  <2>5. said = file \o SubSeq(buf, 1, n["copy"])
    BY <1>3, <2>1, <2>3 DEF At
  <2>6. Good
    BY <1>0, <2>1, <2>3, <2>4, <2>5
  <2>7. QED
    BY <1>2, <2>6, <2>3
<1>12. QED
  BY <1>5, <1>6, <1>7, <1>8, <1>9, <1>10, <1>11 DEF Goroutine

LEMMA NextOrderInv ==
  ASSUME TypeInv, OrderInv, [Next]_vars
  PROVE  OrderInv'
<1> SUFFICES ASSUME given.layers <= 1, Alone, Ordered, Flushed
             PROVE  Alone' /\ Ordered' /\ Flushed'
  BY GivenStays DEF OrderInv
<1>1. CASE Elsewhere
  BY <1>1, ElsewhereOrder
<1>2. CASE OpenDest \/ Launch
  BY <1>2, LaunchOrder
<1>3. CASE PrintConfig \/ PrintManifest \/ PrintSignatures
  BY <1>3, PrintOrder
<1>4. CASE OutFlush \/ CollectFlush
  BY <1>4, FlushOrder
<1>5. CASE \E l \in Ls : Goroutine(l) \/ Fetch(l)
  BY <1>5, GoroutineOrder
<1>6. QED
  BY <1>1, <1>2, <1>3, <1>4, <1>5 DEF Next, Code, Elsewhere

-----------------------------------------------------------------------------
(* The end of the report, whatever the goroutines do to the buffer *)

\* How far the lines after the blobs have come.
EndingInv == stuck = FALSE =>
  /\ pc \in {"blob", "manifest"} => EndsWith(Text, <<Line("config", 0)>>)
  /\ pc = "signatures" => EndsWith(Text, <<Line("config", 0), Line("manifest", 0)>>)
  /\ pc \in {"commit", "flush"} => EndsWith(Text, Ending)
  /\ pc \in {"destroy", "collect", "end"} /\ err = "none" => EndsWith(file, Ending)

LEMMA AppendedEndsWith ==
  ASSUME NEW S, NEW s \in Seq(S), NEW x \in S
  PROVE  /\ EndsWith(Append(s, x), <<x>>)
         /\ \A y : EndsWith(s, <<y>>) => EndsWith(Append(s, x), <<y, x>>)
         /\ \A y, z : EndsWith(s, <<y, z>>) => EndsWith(Append(s, x), <<y, z, x>>)
<1>1. /\ Len(s) \in Nat /\ Len(Append(s, x)) = Len(s) + 1 /\ Append(s, x)[Len(s) + 1] = x
      /\ \A i \in 1..Len(s) : Append(s, x)[i] = s[i]
  BY AppendProperties, LenProperties
<1> DEFINE a == Append(s, x)
           m == Len(s)
<1> HIDE DEF a
<1>2. /\ m \in Nat /\ Len(a) = m + 1 /\ a[m + 1] = x /\ \A i \in 1..m : a[i] = s[i]
  BY <1>1 DEF a
<1>3. EndsWith(a, <<x>>)
  BY <1>2 DEF EndsWith
<1>4. ASSUME NEW y, EndsWith(s, <<y>>) PROVE EndsWith(a, <<y, x>>)
  <2>1. 1 <= m /\ s[m] = y
    BY <1>2, <1>4 DEF EndsWith
  <2>2. a[m] = y /\ a[m + 1] = x
    BY <1>2, <2>1
  <2>3. \A i \in 1..2 : a[m + 1 - 2 + i] = <<y, x>>[i]
    <3>1. a[m + 1 - 2 + 1] = y /\ a[m + 1 - 2 + 2] = x
      BY <1>2, <2>2
    <3>2. QED
      BY <3>1
  <2>4. Len(<<y, x>>) = 2
    OBVIOUS
  <2>5. QED
    BY <1>2, <2>1, <2>3, <2>4 DEF EndsWith
<1>5. ASSUME NEW y, NEW z, EndsWith(s, <<y, z>>) PROVE EndsWith(a, <<y, z, x>>)
  <2>1. 2 <= m /\ s[m - 1] = y /\ s[m] = z
    <3>1. 2 <= m /\ \A i \in 1..2 : s[m - 2 + i] = <<y, z>>[i]
      BY <1>5 DEF EndsWith
    <3>2. s[m - 2 + 1] = y /\ s[m - 2 + 2] = z
      BY <3>1
    <3>3. QED
      BY <1>2, <3>1, <3>2
  <2>2. a[m - 1] = y /\ a[m] = z /\ a[m + 1] = x
    BY <1>2, <2>1
  <2>3. \A i \in 1..3 : a[m + 1 - 3 + i] = <<y, z, x>>[i]
    <3>1. a[m + 1 - 3 + 1] = y /\ a[m + 1 - 3 + 2] = z /\ a[m + 1 - 3 + 3] = x
      BY <1>2, <2>2
    <3>2. QED
      BY <3>1
  <2>4. Len(<<y, z, x>>) = 3
    OBVIOUS
  <2>5. QED
    BY <1>2, <2>1, <2>3, <2>4 DEF EndsWith
<1>6. QED
  BY <1>3, <1>4, <1>5 DEF a

\* Where the lines after the blobs are written, no goroutine prints.
Written == {"blob", "manifest", "signatures", "commit", "flush", "destroy", "collect", "end"}

LEMMA PrintEnding ==
  ASSUME TypeInv, EndingInv, PrintConfig \/ PrintManifest \/ PrintSignatures
  PROVE  EndingInv'
<1> SUFFICES ASSUME stuck' = FALSE PROVE EndingInv'
  BY DEF EndingInv
<1>1. stuck = FALSE /\ attempt' = attempt
  BY DEF PrintConfig, PrintManifest, PrintSignatures, Printf, flow
<1>2. \A k : Line(k, 0)' = Line(k, 0)
  BY <1>1 DEF Line
<1>3. ASSUME NEW k \in {"config", "manifest", "signatures"}, Printf(Line(k, 0))
      PROVE  Text' = Append(Text, Line(k, 0)) /\ Text \in Seq(Places) /\ Line(k, 0) \in Places
  <2>1. Line(k, 0) \in Lines
    <3>1. 0 \in 0..NLayers
      BY MirrorAssumption
    <3>2. QED
      BY <3>1, LineIsLine DEF TypeInv
  <2>2. QED
    BY <1>1, <1>3, <2>1, PrintfAppends
<1>4. CASE PrintConfig
  <2>1. pc' = "blob" /\ Text' = Append(Text, Line("config", 0)) /\ Text \in Seq(Places)
        /\ Line("config", 0) \in Places
    BY <1>3, <1>4 DEF PrintConfig, Go
  <2>2. EndsWith(Text', <<Line("config", 0)>>)
    BY <2>1, AppendedEndsWith
  <2>3. QED
    BY <1>2, <2>1, <2>2 DEF EndingInv, EndsWith
<1>5. CASE PrintManifest
  <2>1. pc = "manifest" /\ pc' = "signatures" /\ Text' = Append(Text, Line("manifest", 0))
        /\ Text \in Seq(Places) /\ Line("manifest", 0) \in Places
    BY <1>3, <1>5 DEF PrintManifest, Go
  <2>2. EndsWith(Text', <<Line("config", 0), Line("manifest", 0)>>)
    BY <1>1, <2>1, AppendedEndsWith DEF EndingInv
  <2>3. QED
    BY <1>2, <2>1, <2>2 DEF EndingInv, EndsWith
<1>6. CASE PrintSignatures
  <2>1. pc = "signatures" /\ pc' = "commit" /\ Text' = Append(Text, Line("signatures", 0))
        /\ Text \in Seq(Places) /\ Line("signatures", 0) \in Places
    BY <1>3, <1>6 DEF PrintSignatures, Go
  <2>2. EndsWith(Text', Ending)
    BY <1>1, <2>1, AppendedEndsWith DEF EndingInv, Ending
  <2>3. QED
    BY <1>2, <2>1, <2>2 DEF EndingInv, EndsWith, Ending
<1>7. QED
  BY <1>4, <1>5, <1>6

LEMMA FlushEnding ==
  ASSUME TypeInv, EndingInv, OutFlush \/ CollectFlush
  PROVE  EndingInv'
<1> SUFFICES ASSUME stuck' = FALSE PROVE EndingInv'
  BY DEF EndingInv
<1>1. stuck = FALSE /\ attempt' = attempt /\ err' = err
  BY DEF OutFlush, CollectFlush, Flush, flow
<1>2. Ending' = Ending
  BY <1>1 DEF Ending, Line
<1>3. file' = IF OutFlush THEN Text ELSE file
  <2>1. CASE OutFlush
    BY <1>1, <2>1 DEF OutFlush, Flush, Text
  <2>2. CASE CollectFlush /\ ~OutFlush
    <3>1. file' = file \o SubSeq(buf, 1, 0) /\ SubSeq(buf, 1, 0) = <<>> /\ file \in Seq(Places)
      BY <1>1, <2>2, SubSeqEmpty DEF CollectFlush, Flush, Buffered, TypeInv, Bounds, ReportTypes
    <3>2. QED
      BY <2>2, <3>1, ConcatEmptySeq
  <2>3. QED
    BY <2>1, <2>2
<1>4. CASE OutFlush
  <2>1. pc = "flush" /\ pc' = "destroy" /\ EndsWith(file', Ending)
    BY <1>1, <1>3, <1>4 DEF OutFlush, Go, EndingInv
  <2>2. QED
    BY <1>2, <2>1 DEF EndingInv, EndsWith
<1>5. CASE CollectFlush /\ ~OutFlush
  <2>1. pc = "collect" /\ pc' = "end" /\ (err = "none" => EndsWith(file', Ending))
    BY <1>1, <1>3, <1>5 DEF CollectFlush, Go, EndingInv
  <2>2. QED
    BY <1>1, <1>2, <2>1 DEF EndingInv, EndsWith
<1>6. QED
  BY <1>4, <1>5

\* The other steps do not write, or happen before the lines after the blobs.
LEMMA ElsewhereEnding ==
  ASSUME TypeInv, EndingInv, Elsewhere
  PROVE  EndingInv'
<1> SUFFICES ASSUME stuck' = FALSE PROVE EndingInv'
  BY DEF EndingInv
<1>1. UNCHANGED <<n, buf, stuck, file>> /\ stuck = FALSE /\ Text' = Text
  BY ElsewhereQuiet DEF Text, Buffered
<1> USE DEF Go, Fail, flow
<1>2. ASSUME pc' \notin Written PROVE EndingInv'
  BY <1>2 DEF EndingInv, Written
<1>3. ASSUME attempt' = attempt,
             \/ pc' = pc /\ err' = err
             \/ pc = "blob" /\ pc' = "manifest"
             \/ pc = "commit" /\ pc' = "flush"
             \/ pc' \in {"destroy", "collect"} /\ err' # "none"
             \/ pc = "destroy" /\ pc' = "collect" /\ (err' = "none" => err = "none")
      PROVE  EndingInv'
  <2>1. Ending' = Ending /\ \A k : Line(k, 0)' = Line(k, 0)
    BY <1>3 DEF Ending, Line
  <2>2. QED
    BY <1>1, <1>3, <2>1 DEF EndingInv, EndsWith
<1>4. CASE LoadPolicy \/ Prepare
  BY <1>2, <1>3, <1>4 DEF LoadPolicy, Prepare, Written
<1>5. CASE Cancel \/ Allow \/ Judge \/ JudgeDenies \/ DestFails \/ Refuse
  BY <1>2, <1>5 DEF Cancel, Allow, Judge, JudgeDenies, DestFails, Refuse, Written
<1>6. CASE Respond
  <2>1. pc' = "allow" \/ (pc = "blob" /\ pc' = "manifest")
    BY <1>6 DEF Respond
  <2>2. attempt' = attempt
    BY <1>6 DEF Respond
  <2>3. QED
    BY <1>2, <1>3, <2>1, <2>2 DEF Written
<1>7. CASE LaunchCancelled \/ Launched \/ Joined
  BY <1>2, <1>7 DEF LaunchCancelled, Launched, Joined, Written
<1>8. CASE Commit \/ Expire \/ Finished \/ UNCHANGED vars
  BY <1>3, <1>8 DEF Commit, Expire, Finished, vars
<1>9. CASE Wake
  BY <1>2, <1>9 DEF Wake, Written
<1>10. CASE Decide \/ WakeCancelled
  <2>1. err # "none" /\ err' = err /\ attempt' = attempt /\ pc' \in {"delay", "destroy"}
    BY <1>10 DEF Decide, WakeCancelled, TypeInv, Inv, Uncommitted
  <2>2. QED
    BY <1>2, <1>3, <2>1 DEF Written
<1>11. CASE Destroy
  BY <1>3, <1>11 DEF Destroy
<1>12. CASE Panic
  BY <1>2, <1>12 DEF Panic, Written
<1>13. QED
  BY <1>4, <1>5, <1>6, <1>7, <1>8, <1>9, <1>10, <1>11, <1>12 DEF Elsewhere, Answer

LEMMA NextEndingInv ==
  ASSUME TypeInv, EndingInv, [Next]_vars
  PROVE  EndingInv'
<1>1. CASE \E l \in Ls : Goroutine(l) \/ Fetch(l)
  <2>1. pc' \in {"layers", "wait"}
    BY <1>1 DEF Goroutine, Write, WriteStuck, Drain, Reset, Store, Advance, Fetch, FetchCancelled, To, At
  <2>2. QED
    BY <2>1 DEF EndingInv
<1>2. CASE OpenDest \/ Launch
  <2>1. pc' \in {"source", "layers"}
    BY <1>2 DEF OpenDest, Launch, Go
  <2>2. QED
    BY <2>1 DEF EndingInv
<1>3. QED
  BY <1>1, <1>2, PrintEnding, FlushEnding, ElsewhereEnding DEF Next, Code, Elsewhere

\* For any number of layers, any number of them copied at a time, any size of the
\* buffer and any retries: an image of one layer has the whole report in the log, in
\* the order it was printed, although the writer is handed down by value; and
\* whatever the goroutines of more layers do to the buffer, the lines after theirs
\* end the log of a copy that succeeds, unless the writer is left with an error
\* (mirror.go:58-126, executor.go:74-105).
THEOREM ReportInOrderAlways == Spec => []ReportInOrder
<1>1. Init => OrderInv
  <2> SUFFICES ASSUME Init PROVE Alone /\ Ordered /\ Flushed
    BY DEF OrderInv
  <2>1. /\ \A l \in Ls : layer[l] = "none"
        /\ pc = "policy" /\ stuck = FALSE /\ n["copy"] = 0 /\ file = <<>> /\ said = <<>>
    BY DEF Init, Writers
  <2>2. SubSeq(buf, 1, 0) = <<>> /\ <<>> \o <<>> = <<>>
    BY SubSeqEmpty, ConcatEmptySeq
  <2>3. Alone
    BY <2>1, MirrorAssumption DEF Alone, Running
  <2>4. QED
    BY <2>1, <2>2, <2>3 DEF Ordered, Flushed, Buffered
<1>2. TypeInv /\ OrderInv /\ [Next]_vars => OrderInv'
  BY NextOrderInv
<1>3. Init => EndingInv
  BY DEF Init, EndingInv
<1>4. TypeInv /\ EndingInv /\ [Next]_vars => EndingInv'
  BY NextEndingInv
<1>5. TypeInv /\ OrderInv /\ EndingInv => ReportInOrder
  BY DEF OrderInv, Ordered, Flushed, EndingInv, TypeInv, ReportTypes, ReportInOrder
<1>6. QED
  BY <1>1, <1>2, <1>3, <1>4, <1>5, TypeInvariant, PTL DEF Spec
=============================================================================
