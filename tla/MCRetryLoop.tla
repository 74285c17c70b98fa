---------------------------- MODULE MCRetryLoop ----------------------------
(***************************************************************************)
(* RetryLoop for TLC: an S3 operation with the check of copy responses.    *)
(* A checksum policy is among its policies when the session has made a     *)
(* DynamoDB client before (build_retry_config merges the policies into the *)
(* cached defaults).  There is one response for each way the checkers, the *)
(* parser and ClientError tell responses apart.                            *)
(***************************************************************************)
EXTENDS RetryLoop

S3AfterDynamoDB ==
  {[when |-> "socket"], [when |-> "status", status |-> 500], [when |-> "crc"],
   [when |-> "code", status |-> 400, code |-> "RequestTimeout"]}

Reply(status, code, crc) == [status |-> status, code |-> code, parsed |-> "none", crc |-> crc]

Replies ==
  {Reply(s, c, "absent") :
     s \in {200, 300, 400, 500}, c \in {"none", "empty", "garbled", "RequestTimeout", "Other"}}
  \cup {Reply(s, "none", "differs") : s \in {200, 500}}
=============================================================================
