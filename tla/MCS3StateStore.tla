--------------------------- MODULE MCS3StateStore ---------------------------
(***************************************************************************)
(* Small instances of S3StateStore: one caller reads, the other writes.    *)
(***************************************************************************)
EXTENDS S3StateStore, TLC

CONSTANTS lister, writer

PlainNames == [id \in ResourceIDs \cup {EmptyID} |-> IF id = "b" THEN 2 ELSE 1]

\* One caller reads and the other writes.
ReaderAndWriter ==
  (lister :> {"get", "list"}) @@ (writer :> {"save", "delete", "lock", "unlock"})
=============================================================================
