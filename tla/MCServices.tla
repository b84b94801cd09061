------------------------------ MODULE MCServices ------------------------------
(***************************************************************************)
(* Three processes of two programs for TLC, one of whose names is longer   *)
(* than what the kernel keeps of it; a list with a comment, the other      *)
(* service, and the long name.                                             *)
(***************************************************************************)
EXTENDS Services

MCShown == [program \in Programs |-> IF program = "web" THEN "web" ELSE "database-server"]

MCList ==
  <<[kind |-> "comment", procname |-> "web"],
    [kind |-> "service", procname |-> "web"],
    [kind |-> "service", procname |-> "database-server-1"]>>
=============================================================================
