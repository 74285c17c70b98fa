----------------------------- MODULE MCTransfer -----------------------------
(***************************************************************************)
(* Transfer for TLC: waiters with the matchers of the repository's waiter  *)
(* files over a resource of two parts.                                     *)
(***************************************************************************)
EXTENDS Transfer

Acceptor(state, matcher, expected) == [state |-> state, matcher |-> matcher, expected |-> expected]
Version2(acceptors) == [version |-> 2, maxAttempts |-> 2, acceptors |-> acceptors]

\* As s3's ObjectExists, ec2's InstanceRunning, dynamodb's TableExists and
\* ec2's InstanceTerminated with a failure state.
Exists == Version2(<<Acceptor("success", "status", 200), Acceptor("retry", "status", 404)>>)
Running == Version2(<<Acceptor("success", "pathAll", "running"),
                      Acceptor("failure", "pathAny", "stopped"),
                      Acceptor("retry", "error", "NotFound")>>)
Active == Version2(<<Acceptor("success", "path", "active"), Acceptor("retry", "error", "NotFound")>>)
\* Two acceptors match a broken resource: the first decides.
Stopped == Version2(<<Acceptor("failure", "error", "NotFound"), Acceptor("success", "pathAny", "stopped"),
                      Acceptor("failure", "pathAny", "running")>>)
Old == [Exists EXCEPT !.version = 1]
Unknown == [Exists EXCEPT !.acceptors = <<Acceptor("success", "unknown", 200)>>]
MCConfigs == {Exists, Running, Active, Stopped, Old, Unknown}

MCWorld == {"absent", "empty", "mixed", "running", "broken"}
MCEvolves == {<<"empty", "mixed">>, <<"mixed", "running">>, <<"mixed", "broken">>, <<"running", "absent">>}
Found(scalar, list) == [status |-> 200, error |-> NoValue, scalar |-> scalar, list |-> list]
MCDescribe ==
  [w \in MCWorld |->
     CASE w = "absent" -> [status |-> 404, error |-> "NotFound", scalar |-> NoValue, list |-> NoValue]
       [] w = "empty" -> Found("creating", << >>)
       [] w = "mixed" -> Found("creating", <<"running", "pending">>)
       [] w = "running" -> Found("active", <<"running", "running">>)
       [] w = "broken" -> Found("active", <<"stopped", "running">>)]

MCReplies == {[kind |-> "coded", response |-> [MCDescribe["absent"] EXCEPT !.status = NoValue, !.error = "Vetoed"]]}

MCGoal ==
  [c \in MCConfigs |->
     CASE c = Exists -> MCWorld \ {"absent"}
       [] c = Running -> {"running"}
       [] c = Active -> {"running", "broken"}
       [] c = Stopped -> {"broken"}
       [] OTHER -> {}]
=============================================================================
