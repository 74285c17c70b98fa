------------------------------ MODULE Transfer ------------------------------
(***************************************************************************)
(* Uploads, downloads and a waiter of one program over one pooled          *)
(* connection: each poll of the waiter is a request on it, and in between  *)
(* other threads upload and download.  A poll has an answer or an error in *)
(* the end, which its caller turns into a reply; an upload may never end,  *)
(* and the next request then takes another connection.                     *)
(*                                                                         *)
(* The server keeps a resource, which an upload creates and which then     *)
(* changes by itself.                                                      *)
(***************************************************************************)
EXTENDS Connection, Waiter

CONSTANTS
  World,       \* the states of the resource
  Absent, Created,
  Evolves,     \* pairs of a state and a next one
  Describe,    \* for every state the response to a poll
  Goal,        \* for every waiter the states that it waits for
  MaxRequests  \* bound on the requests that are not polls

\* The response to a poll that has failed at the server.
Failure(s) == [Describe[Absent] EXCEPT !.status = s, !.error = "InternalError"]

\* The acceptors say what their waiter waits for, and no failure looks like success.
ASSUME TransferAssumption ==
  /\ Absent \in World /\ Created \in World /\ MaxRequests \in Nat
  /\ \A c \in {d \in Configs : Supported(d)} :
       /\ \A w \in World : FirstSays(c, Describe[w], "success") => w \in Goal[c]
       /\ ~ FirstSays(c, Failure(500), "success")
       /\ \A reply \in Replies : ~ FirstSays(c, reply.response, "success")

VARIABLES
  world,       \* the state of the resource
  seen,        \* history: its state when the server last answered a poll
  use,         \* what the request in progress is for
  requests     \* of uploads and downloads

userVars == <<use, requests>>
vars == <<connVars, waiterVars, world, seen, userVars>>

TypeOK ==
  /\ ConnectionTypeOK /\ WaiterTypeOK
  /\ world \in World /\ seen \in World \cup {None}
  /\ use \in {"none", "poll", "other"} /\ requests \in 0..MaxRequests
  /\ use = "none" => phase = "idle"
  /\ use = "poll" => wait = "poll" /\ request.kind = "plain" /\ ~ request.streamed

Init ==
  /\ ConnectionInit /\ WaiterInit
  /\ world = Absent /\ seen = None
  /\ use = "none" /\ requests = 0

\* The pool has a connection for the next request.
Available == use = "none" \/ phase = "spins"

\* Other threads.
Other ==
  /\ Available /\ requests < MaxRequests
  /\ \/ SendRequest([kind |-> "expect", streamed |-> FALSE])
     \/ SendRequest([kind |-> "plain", streamed |-> TRUE])
     \/ SendChunked
  /\ use' = "other" /\ requests' = requests + 1
  /\ UNCHANGED <<waiterVars, world, seen>>

OtherDone ==
  /\ use = "other" /\ phase = "idle"
  /\ use' = "none"
  /\ UNCHANGED <<connVars, waiterVars, world, seen, requests>>

\* The waiter.
StartWait ==
  /\ NoWaiter \/ \E c \in Configs : BeginWait(c)
  /\ UNCHANGED <<connVars, world, seen, userVars>>

StartPoll ==
  /\ wait = "poll" /\ Available
  /\ SendRequest([kind |-> "plain", streamed |-> FALSE])
  /\ use' = "poll"
  /\ UNCHANGED <<waiterVars, world, seen, requests>>

\* _make_api_call raises on an error status, the legacy interface does not.
Reply ==
  LET found == IF outcome.kind = "status" /\ outcome.status = Describe[seen].status
               THEN Describe[seen]
               ELSE Failure(outcome.status)
  IN  IF outcome.kind = "error" THEN [kind |-> "exception", response |-> NoValue]
      ELSE [kind |-> IF found.status >= 300 /\ api = ClientMethod THEN "ClientError" ELSE "answer",
            response |-> found]

\* Or a handler of the operation's events has raised (Replies).
EndPoll ==
  /\ use = "poll" /\ phase = "idle"
  /\ \E reply \in Replies \cup {Reply} : PollRaises(reply) \/ Poll(reply)
  /\ use' = "none"
  /\ UNCHANGED <<connVars, world, seen, requests>>

Rest == Sleep /\ UNCHANGED <<connVars, world, seen, userVars>>

Transport ==
  /\ ClientStep
  /\ UNCHANGED <<waiterVars, world, seen, userVars>>
Reading ==
  /\ \E amount \in Lengths \cup {0, None} : ReadBody(amount)
  /\ UNCHANGED <<waiterVars, world, seen, userVars>>

\* The server describes the resource to a poll, or fails; an upload that it has
\* whole and accepts creates the resource.
Serve ==
  /\ \/ \E s \in Final, close \in BOOLEAN :
          /\ ServerAnswers(s, close)
          /\ use = "poll" => s \in {Describe[world].status, 500}
          /\ seen' = IF use = "poll" THEN world ELSE seen
          /\ world' = IF request.kind # "plain" /\ s = 200 /\ world = Absent THEN Created ELSE world
     \/ ServerContinues /\ UNCHANGED <<world, seen>>
     \/ ServerFails /\ UNCHANGED <<world, seen>>
     \/ (\E s \in Early \cup {None} : ServerDrops(s)) /\ UNCHANGED <<world, seen>>
  /\ UNCHANGED <<waiterVars, userVars>>

Evolve ==
  /\ \E next \in World : <<world, next>> \in Evolves /\ world' = next
  /\ UNCHANGED <<connVars, waiterVars, seen, userVars>>

Next ==
  \/ Other \/ OtherDone
  \/ StartWait \/ StartPoll \/ EndPoll \/ Rest
  \/ Transport \/ Reading
  \/ Serve \/ Evolve

Spec == Init /\ [][Next]_vars

\* Every thread is scheduled, and what waits for the server does so until its time-out;
\* a thread that spins takes no step (HandleExpect).
FairSpec == /\ Spec
            /\ WF_vars(Transport) /\ WF_vars(OtherDone)
            /\ WF_vars(StartPoll) /\ WF_vars(EndPoll) /\ WF_vars(Rest)
-----------------------------------------------------------------------------
\* A wait that succeeds has seen the resource in a state that it waits for: the answer
\* of the last poll, not one of another request on the connection, has passed all
\* acceptors in their order (waiter.py 222-289, 324-340; awsrequest.py).
SuccessIsSeen == wait = "success" => seen \in Goal[config]

\* Every wait ends, also when the server keeps the resource as it is, fails, or does not
\* answer, and other threads use the connection: the poll after an upload that never
\* ends has a connection of its own (waiter.py 316-348; awsrequest.py 112-219).
EveryWaitEnds == wait = "poll" ~> wait \in Ended
=============================================================================
