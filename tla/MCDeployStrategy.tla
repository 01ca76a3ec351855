--------------------------- MODULE MCDeployStrategy ---------------------------
(***************************************************************************)
(* Small instances of DeployStrategy: two or three images, a few failures. *)
(***************************************************************************)
EXTENDS DeployStrategy

ConfiguredGroup    == {ServiceName}
WithOrWithoutGroup == {ServiceName, None}
AnyMishap == Requests \cup {"restart"}
\* Every request but the two whose failure a finding is about.
Survivable      == Requests \ {"restore listener", "delete blue group"}
GroupRequests   == {"delete blue group"}
ListenerRequest == {"restore listener"}
=============================================================================
