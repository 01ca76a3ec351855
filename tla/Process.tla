-------------------------------- MODULE Process --------------------------------
(***************************************************************************)
(* The plugin process beside its provider: what the handlers of its        *)
(* modules, steps, state RPCs and requirement mapper have in common.  A    *)
(* handler serves one call at a time; handlers run concurrently and share  *)
(* the memory of the process.                                              *)
(*                                                                         *)
(* The three parts share no state with each other, so a behaviour spends   *)
(* its calls on the parts as one of Budgets says.                          *)
(***************************************************************************)
EXTENDS Integers, FiniteSets

CONSTANTS
  Threads,      \* handlers that run at the same time
  Budgets,      \* bounds on the calls of every part
  MaxFailures,  \* bound on requests and look-ups of credentials that fail
  None,         \* nil or ""
  Names,        \* names of credentials modules
  Inputs,       \* what a credentials block can say
  Configs,      \* what a storage module or step says of its credentials
  Storages,     \* storage modules
  Steps,        \* steps
  Locations     \* where a state store can be: an endpoint, a bucket and a prefix

Parts == {"modules", "state", "mapper"}

VARIABLES
  registry,  \* credentials by name
  sessions,  \* STS: how many sessions it issued
  storage,   \* the storage modules, each with its client
  mutex,     \* the handler that holds a storage module's mutex
  stopped,   \* (observer) the sessions issued when a storage module was last stopped
  upload,    \* the upload steps
  download,  \* the download steps
  store,     \* the location of the configured state store
  locks,     \* who made the lock object at a location (all is about one resource)
  held,      \* the location at which a handler's host got the lock it has
  moved,     \* (observer) whether Configure moved the store within a session
  pc, call,  \* where each handler is, and its call
  derived,   \* what MapRequirements derived last, or None
  calls,     \* how many are still to come, for every part
  failures

modules == << registry, sessions, storage, mutex, stopped, upload, download >>
backend == << store, locks, held, moved >>
vars    == << modules, backend, pc, call, derived, calls, failures >>

NoCall == [op |-> "none"]

-----------------------------------------------------------------------------
Spend(t, part) ==
  /\ pc[t] = "idle" /\ calls[part] > 0
  /\ calls' = [calls EXCEPT ![part] = @ - 1]
  /\ UNCHANGED failures

\* A call of a part arrives, whose first step is q.
Arrive(t, part, c, q) ==
  /\ Spend(t, part)
  /\ pc' = [pc EXCEPT ![t] = q]
  /\ call' = [call EXCEPT ![t] = c]
  /\ UNCHANGED derived

\* A call that is served in one step, since it looks at shared memory at most once.
Serve(t, part) == Spend(t, part) /\ UNCHANGED << pc, call, derived >>

Goto(t, q) == pc' = [pc EXCEPT ![t] = q] /\ UNCHANGED << derived, calls >>

\* The call ends, with or without an error: only what it leaves behind counts.
Return(t) ==
  /\ pc' = [pc EXCEPT ![t] = "idle"]
  /\ call' = [call EXCEPT ![t] = NoCall]
  /\ UNCHANGED << derived, calls >>

\* A request fails in transit, or what it needs is not there.
Fails == failures > 0 /\ failures' = failures - 1
=============================================================================
