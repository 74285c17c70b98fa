--------------------------- MODULE MCCredentials ---------------------------
(***************************************************************************)
(* Credentials for TLC.  Credentials are refreshed within two units of     *)
(* time of their expiry, and the service renews them at the latest one     *)
(* unit before: it may hand out credentials that the next read refreshes   *)
(* again, as the code does between fifteen and five minutes.               *)
(***************************************************************************)
EXTENDS Credentials
=============================================================================
