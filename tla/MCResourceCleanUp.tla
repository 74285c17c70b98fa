------------------------- MODULE MCResourceCleanUp -------------------------
(***************************************************************************)
(* ResourceCleanUp for TLC: a server in a security group.  The server's    *)
(* deletion has a waiter, the group's has none.                            *)
(***************************************************************************)
EXTENDS ResourceCleanUp

CONSTANTS group, server

NeedsOf == [r \in Resource |-> IF r = server THEN {group} ELSE {}]
=============================================================================
