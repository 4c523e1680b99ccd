---------------------------- MODULE CopyContract ----------------------------
(***************************************************************************)
(* What Collect takes Mirror.Run to do: it tries the copy, again a bounded *)
(* number of times, and returns nil if and only if a try has committed,    *)
(* which ends the trying.  The process may also die in it.                 *)
(***************************************************************************)
EXTENDS Naturals

CONSTANT MaxTries  \* retries allowed

VARIABLES
  phase,  \* what has become of the copy
  tries   \* retries so far

vars == <<phase, tries>>

Init == phase = "trying" /\ tries = 0

Again ==
  /\ phase = "trying" /\ tries < MaxTries
  /\ tries' = tries + 1
  /\ UNCHANGED phase

\* index.json is written
Commit == phase = "trying" /\ phase' = "committed" /\ UNCHANGED tries

Succeed == phase = "committed" /\ phase' = "nil" /\ UNCHANGED tries

Fail == phase = "trying" /\ phase' = "error" /\ UNCHANGED tries

Die == phase \in {"trying", "committed"} /\ phase' = "dead" /\ UNCHANGED tries

Next == Again \/ Commit \/ Succeed \/ Fail \/ Die

Spec == Init /\ [][Next]_vars
=============================================================================
