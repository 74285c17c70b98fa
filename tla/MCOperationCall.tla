-------------------------- MODULE MCOperationCall --------------------------
(***************************************************************************)
(* OperationCall for TLC: its constants are given in call.cfg.             *)
(***************************************************************************)
EXTENDS OperationCall
=============================================================================
