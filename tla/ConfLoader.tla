------------------------------ MODULE ConfLoader ------------------------------
(***************************************************************************)
(* What conf_create (xadmin_conf.c) promises its caller, without passes,   *)
(* events or stacks: all or nothing.  It answers with the pools that the   *)
(* file means, or with NULL; with NULL only if the file means no pools or  *)
(* some resource failed; and only a careless file, one with a directive    *)
(* that does not exist or a pool without a name, may take the program out  *)
(* of what C defines.                                                      *)
(***************************************************************************)
CONSTANTS
  Contents,       \* what the file can hold
  Meaningful(_),  \* whether a content means pools
  Means(_, _),    \* whether it means these
  Careless(_),    \* whether a content has no answer that C defines
  NoPools         \* the pools of a caller that was answered NULL, or nothing yet

VARIABLES
  content,    \* the file
  starved,    \* whether a resource has failed
  answer,     \* "pending", "pools", "NULL" or "undefined"
  pools       \* the pools handed to the caller

Init ==
  /\ content \in Contents
  /\ starved = FALSE
  /\ answer = "pending"
  /\ pools = NoPools

Starve ==
  /\ answer = "pending"
  /\ starved' = TRUE
  /\ UNCHANGED <<content, answer, pools>>

Load ==
  /\ answer = "pending"
  /\ answer' = "pools"
  /\ Meaningful(content)
  /\ Means(content, pools')
  /\ UNCHANGED <<content, starved>>

\* conf_open answers in the very step in which a resource fails.
Refuse ==
  /\ answer = "pending"
  /\ answer' = "NULL"
  /\ starved' \in {starved, TRUE}
  /\ starved' \/ ~Meaningful(content)
  /\ UNCHANGED <<content, pools>>

GoWild ==
  /\ answer = "pending"
  /\ answer' = "undefined"
  /\ Careless(content)
  /\ UNCHANGED <<content, starved, pools>>

Next == Starve \/ Load \/ Refuse \/ GoWild

Spec == Init /\ [][Next]_<<content, starved, answer, pools>>

=============================================================================
