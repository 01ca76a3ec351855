------------------------------ MODULE MCProvider ------------------------------
(***************************************************************************)
(* Small instances of Provider: one handler initializes and closes the     *)
(* provider and sets owners while the other serves everything else, or     *)
(* both initialize and close it.                                           *)
(***************************************************************************)
EXTENDS Provider, TLC

CONSTANTS admin, worker, a, b, u

\* The worker serves resources and jobs, or owners while the admin sets them:
\* neither touches what the other works on.  With two that write the provider one
\* waits while the other asks STS.
AdminAndWorker ==
  {(admin :> {"Initialize", "Close"}) @@
     (worker :> {"Destroy", "Status", "DetectDrift", "Create", "RunJob", "JobStatus", "JobLogs"}),
   (admin :> {"Initialize", "Close", "SetOwner"}) @@
     (worker :> {"GetOwner", "ListOwners", "ListRegions"}),
   (admin :> {"Initialize", "Close"}) @@ (worker :> {"Initialize", "Close", "Status"})}

OneToThree == {<< a >>, << a, u, b >>}
=============================================================================
