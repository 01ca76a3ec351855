--------------------------- MODULE MCResourceDrivers ---------------------------
(***************************************************************************)
(* Small instances of ResourceDrivers: every driver, two items each.       *)
(***************************************************************************)
EXTENDS ResourceDrivers

EveryDriver == AllDrivers
=============================================================================
