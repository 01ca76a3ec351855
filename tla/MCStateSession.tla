--------------------------- MODULE MCStateSession ---------------------------
(***************************************************************************)
(* Small instances of StateSession: two hosts, two resources.              *)
(***************************************************************************)
EXTENDS StateSession

PlainNames == [id \in ResourceIDs \cup {EmptyID} |-> IF id = "b" THEN 2 ELSE 1]
AllRPCs == [c \in Clients |-> {"get", "save", "delete", "lock", "unlock"}]
=============================================================================
