---------------------------- MODULE StaleRegister ----------------------------
(***************************************************************************)
(* What a cached read promises, whatever the cache does: a server value    *)
(* with a history of versions, and a client whose calls tell its user of   *)
(* one version after another.  The user never sees a version older than    *)
(* one already seen (so a write is visible to every later read of the      *)
(* client), nor one that was replaced Window ago or earlier.              *)
(***************************************************************************)
EXTENDS Integers, Sequences

CONSTANT Window

VARIABLES
  now,    \* the clock
  hist,   \* hist[v] is when version v became the current one
  last    \* the version the user saw last, and when

vars == <<now, hist, last>>

\* Version v is the current one, or was until after time m.
CurrentAfter(v, m) == v = Len(hist) \/ hist[v + 1] > m

Init ==
  /\ now = 0
  /\ hist = <<0>>
  /\ last = [ver |-> 1, at |-> 0]

Write ==
  /\ hist' = Append(hist, now)
  /\ UNCHANGED <<now, last>>

Read ==
  /\ \E v \in last.ver..Len(hist) :
       /\ CurrentAfter(v, now - Window)
       /\ last' = [ver |-> v, at |-> now]
  /\ UNCHANGED <<now, hist>>

Tick ==
  /\ now' = now + 1
  /\ UNCHANGED <<hist, last>>

Next == Write \/ Read \/ Tick

Spec == Init /\ [][Next]_vars
=============================================================================
