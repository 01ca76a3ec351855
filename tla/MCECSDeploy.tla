----------------------------- MODULE MCECSDeploy -----------------------------
(***************************************************************************)
(* Small instances of ECSDeploy: any caller, any order of operations.      *)
(***************************************************************************)
EXTENDS ECSDeploy

ConfiguredGroup == {ServiceName}
AnyMishap       == Requests \cup {"restart"}
=============================================================================
