---------------------------- MODULE SnapshotCache ----------------------------
(***************************************************************************)
(* What the cached listing promises when nothing cuts an extraction off:   *)
(* each cache directory takes one snapshot, of an image that one of the    *)
(* references stored there has denoted, and keeps it; an answer is the     *)
(* whole listing of the snapshot.  A run may also give no answer.          *)
(***************************************************************************)
EXTENDS Sequences

CONSTANTS
  Clients,  \* who asks
  Refs,     \* references
  Images,   \* images
  Caches,   \* cache directories
  Sources,  \* Sources[c] : the references whose cache directory is c
  Listing,  \* Listing[m] : the complete listing of image m
  Nothing   \* no snapshot, no answer

VARIABLES
  history,   \* history[r] : the images r has denoted, in order
  snapshot,  \* snapshot[c] : the image cached in c, or Nothing
  answer     \* answer[p] : what p was told last, or Nothing

vars == <<history, snapshot, answer>>

Denoted(r) == {history[r][n] : n \in DOMAIN history[r]}

Init ==
  /\ history \in [Refs -> {<<m>> : m \in Images}]
  /\ snapshot = [c \in Caches |-> Nothing]
  /\ answer = [p \in Clients |-> Nothing]

\* A reference moves.
Publish(r, m) ==
  /\ history' = [history EXCEPT ![r] = Append(@, m)]
  /\ UNCHANGED <<snapshot, answer>>

\* The one snapshot of a cache, perhaps of an image that is no longer current.
Take(c, r, m) ==
  /\ snapshot[c] = Nothing
  /\ r \in Sources[c]
  /\ m \in Denoted(r)
  /\ snapshot' = [snapshot EXCEPT ![c] = m]
  /\ UNCHANGED <<history, answer>>

\* A client is told the whole listing of a snapshot.
Answer(p, c) ==
  /\ snapshot[c] # Nothing
  /\ answer' = [answer EXCEPT ![p] = [cache |-> c, shown |-> Listing[snapshot[c]]]]
  /\ UNCHANGED <<history, snapshot>>

\* A client asks again.
Ask(p) ==
  /\ answer' = [answer EXCEPT ![p] = Nothing]
  /\ UNCHANGED <<history, snapshot>>

Next ==
  \/ \E r \in Refs, m \in Images : Publish(r, m)
  \/ \E c \in Caches, r \in Refs, m \in Images : Take(c, r, m)
  \/ \E p \in Clients : Ask(p) \/ \E c \in Caches : Answer(p, c)

Spec == Init /\ [][Next]_vars
=============================================================================
