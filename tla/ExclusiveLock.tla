---------------------------- MODULE ExclusiveLock ----------------------------
(***************************************************************************)
(* What the lock RPCs promise (IaCStateStore.Lock and Unlock,              *)
(* internal/statebackend/s3.go): at most one client owns the lock of a     *)
(* name, a request of its owner gives it up and no request of anybody      *)
(* else, and a lock that nobody knows to have any more (its owner crashed, *)
(* or the answer of its Lock or Unlock got lost) stays taken.              *)
(***************************************************************************)
CONSTANTS Clients, Names, Free, Abandoned

VARIABLES
  owner,  \* name -> its owner, Free or Abandoned
  mover   \* whose request took or freed a lock last (nobody's: the empty set)

vars == << owner, mover >>

Init ==
  /\ owner = [n \in Names |-> Free]
  /\ mover = {}

\* Lock of client c takes effect: nobody owned the lock.
Acquire(c, n) ==
  /\ owner[n] = Free
  /\ owner' = [owner EXCEPT ![n] = c]
  /\ mover' = {c}

\* Unlock of client c takes effect: c owned the lock.
Release(c, n) ==
  /\ owner[n] = c
  /\ owner' = [owner EXCEPT ![n] = Free]
  /\ mover' = {c}

\* Client c leaves locks behind: those it owned, or one that its Lock took
\* without learning so.  Nothing in the store frees them.
Abandon(c, ns) ==
  /\ \A n \in ns : owner[n] \in {c, Free}
  /\ owner' = [n \in Names |-> IF n \in ns THEN Abandoned ELSE owner[n]]
  /\ mover' = IF \E n \in ns : owner[n] = Free THEN {c} ELSE mover

Next ==
  \E c \in Clients :
    \/ \E n \in Names : Acquire(c, n) \/ Release(c, n)
    \/ \E ns \in SUBSET Names : Abandon(c, ns)

Spec == Init /\ [][Next]_vars
=============================================================================
