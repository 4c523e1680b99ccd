------------------------------ MODULE MCMirror ------------------------------
(* What the calls of Mirror.Run are given in TLC's runs. *)
EXTENDS Mirror

copying(k, timed, parallel) ==
  [layers |-> k, loads |-> TRUE, parses |-> TRUE, timed |-> timed, parallel |-> parallel]

Racing == {copying(2, FALSE, 2)}

\* Several layers at a time, always: three of them two at a time are the least that
\* makes the writer stuck.  With a timeout there are two layers at most, and to have
\* one wait for the semaphore when it expires, a semaphore with a single place.
Any == {copying(k, timed, 2) : k \in 0..2, timed \in BOOLEAN}
       \cup {copying(3, FALSE, 2), copying(2, TRUE, 1)}
       \cup {[copying(1, FALSE, 2) EXCEPT !.loads = FALSE], [copying(1, FALSE, 2) EXCEPT !.parses = FALSE]}
=============================================================================
