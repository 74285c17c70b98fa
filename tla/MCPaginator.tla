---------------------------- MODULE MCPaginator ----------------------------
(***************************************************************************)
(* Paginator for TLC: pages of different lengths, empty ones among them,   *)
(* and limits that end inside, at the end of and beyond the first pages.   *)
(***************************************************************************)
EXTENDS Paginator

Few == {0, 1, 2, 3, NoLimit}
=============================================================================
