------------------------------- MODULE Waiter -------------------------------
(***************************************************************************)
(* A waiter of src/botocore/waiter.py: it calls an operation until an      *)
(* acceptor of its configuration decides, an error comes that none         *)
(* expects, or the attempts are used up.                                   *)
(*                                                                         *)
(* The operation is external: it yields a reply, [kind, response].  Of a   *)
(* response only what the acceptors look at is modelled: its status, its   *)
(* error code, and what their JMESPath expression finds in it, a scalar    *)
(* (path) or a list (pathAll, pathAny).                                    *)
(***************************************************************************)
EXTENDS Naturals, Sequences

CONSTANTS
  Configs,    \* the waiters of the service: [version, maxAttempts, acceptors]
  Replies,    \* what the operation may yield
  NoValue     \* no error code, no list, no scalar, no configuration

ClientMethod == "client"    \* the operation is a client's method
LegacyMethod == "legacy"    \* it is an Operation object

ASSUME WaiterAssumption ==
  \A c \in Configs :
    /\ c.maxAttempts \in Nat
    /\ Len(c.acceptors) \in Nat /\ DOMAIN c.acceptors = 1..Len(c.acceptors)
    /\ \A i \in DOMAIN c.acceptors : c.acceptors[i].state \in {"success", "failure", "retry"}

VARIABLES
  config,     \* the configuration of the waiter, or NoValue
  api,        \* the interface that it polls
  current,    \* current_state
  attempts,   \* num_attempts
  sleeps,     \* history: how often it slept
  last,       \* history: the last response it looked at
  wait        \* "poll", "sleep", or how wait ended

waiterVars == <<config, api, current, attempts, sleeps, last, wait>>

Ended == {"success", "failure", "unexpected", "exceeded", "raised"}
Refusals == {"ValueError", "WaiterConfigError"}

WaiterTypeOK ==
  /\ config \in Configs \cup {NoValue}
  /\ api \in {ClientMethod, LegacyMethod}
  /\ current \in {"waiting", "success", "failure", "retry"}
  /\ attempts \in Nat /\ sleeps \in Nat
  /\ wait \in {"idle", "poll", "sleep"} \cup Ended \cup Refusals

\* The matchers of AcceptorConfig.  Those of lists want one that is not empty (mutant:
\* an empty list will do).
IsList_Empty(response) == response.list # NoValue
IsList(response) == response.list # NoValue /\ response.list # << >>
Matches(acceptor, response) ==
  CASE acceptor.matcher = "path" -> response.scalar = acceptor.expected
    [] acceptor.matcher = "pathAll" ->
         /\ IsList(response)
         /\ \A i \in DOMAIN response.list : response.list[i] = acceptor.expected
    [] acceptor.matcher = "pathAny" ->
         /\ IsList(response)
         /\ \E i \in DOMAIN response.list : response.list[i] = acceptor.expected
    [] acceptor.matcher = "status" -> response.status = acceptor.expected
    [] acceptor.matcher = "error" -> response.error = acceptor.expected

\* The first acceptor that matches a response gives the state.
FirstSays(c, response, state) ==
  \E i \in DOMAIN c.acceptors :
    /\ Matches(c.acceptors[i], response) /\ c.acceptors[i].state = state
    /\ \A j \in 1..(i - 1) : ~ Matches(c.acceptors[j], response)

\* Mutant of Decider: the last acceptor that matches decides.
Decider_Last(c, response) ==
  CHOOSE i \in 0..Len(c.acceptors) :
    /\ i > 0 => Matches(c.acceptors[i], response)
    /\ \A j \in 1..Len(c.acceptors) : Matches(c.acceptors[j], response) => i > 0 /\ j <= i

\* The first acceptor that matches a response, or 0.
Decider(c, response) ==
  CHOOSE i \in 0..Len(c.acceptors) :
    /\ i > 0 => Matches(c.acceptors[i], response)
    /\ \A j \in 1..Len(c.acceptors) : Matches(c.acceptors[j], response) => i > 0 /\ i <= j
-----------------------------------------------------------------------------
WaiterInit ==
  /\ config = NoValue
  /\ api \in {ClientMethod, LegacyMethod}
  /\ current = "waiting" /\ attempts = 0 /\ sleeps = 0
  /\ last = NoValue
  /\ wait = "idle"

\* get_waiter without a configuration file, or of a name that it lacks.
NoWaiter ==
  /\ wait = "idle"
  /\ wait' = "ValueError"
  /\ UNCHANGED <<config, api, current, attempts, sleeps, last>>

Supported(c) ==
  c.version = 2 /\ \A i \in DOMAIN c.acceptors : c.acceptors[i].matcher # "unknown"

\* get_waiter and wait: every acceptor is built before the first poll.
BeginWait(c) ==
  /\ wait = "idle"
  /\ IF Supported(c)
     THEN wait' = "poll" /\ config' = c
     ELSE wait' = "WaiterConfigError" /\ UNCHANGED config
  /\ UNCHANGED <<api, current, attempts, sleeps, last>>

\* NormalizedOperationMethod turns a ClientError into its response,
\* LegacyOperationMethod any exception with a code and a message; others leave wait.
Escapes(reply) ==
  \/ reply.kind = "exception"
  \/ reply.kind = "ClientError" /\ api = LegacyMethod
  \/ reply.kind = "coded" /\ api = ClientMethod

PollRaises(reply) ==
  /\ wait = "poll" /\ Escapes(reply)
  /\ wait' = "raised"
  /\ UNCHANGED <<config, api, current, attempts, sleeps, last>>

\* The acceptor that matches sets current_state, which stays otherwise (mutant: any
\* match is a success).
NextState_AnyMatch(i) == IF i = 0 THEN current ELSE "success"
NextState(i) == IF i = 0 THEN current ELSE config.acceptors[i].state

\* One iteration of the loop, up to its sleep (mutant: one attempt too many).
Poll_OneMore(reply) ==
  LET i == Decider(config, reply.response)
      state == NextState(i)
  IN  /\ wait = "poll" /\ ~ Escapes(reply)
      /\ attempts' = attempts + 1
      /\ last' = reply.response
      /\ current' = state
      /\ wait' = IF i = 0 /\ reply.response.error # NoValue THEN "unexpected"
                 ELSE IF state \in {"success", "failure"} THEN state
                 ELSE IF attempts >= config.maxAttempts THEN "exceeded"
                 ELSE "sleep"
      /\ UNCHANGED <<config, api, sleeps>>

Poll(reply) ==
  LET i == Decider(config, reply.response)
      state == NextState(i)
  IN  /\ wait = "poll" /\ ~ Escapes(reply)
      /\ attempts' = attempts + 1
      /\ last' = reply.response
      /\ current' = state
      /\ wait' = IF i = 0 /\ reply.response.error # NoValue THEN "unexpected"
                 ELSE IF state \in {"success", "failure"} THEN state
                 ELSE IF attempts' >= config.maxAttempts THEN "exceeded"
                 ELSE "sleep"
      /\ UNCHANGED <<config, api, sleeps>>

\* time.sleep.
Sleep ==
  /\ wait = "sleep"
  /\ wait' = "poll"
  /\ sleeps' = sleeps + 1
  /\ UNCHANGED <<config, api, current, attempts, last>>

WaiterNext ==
  \/ NoWaiter
  \/ \E c \in Configs : BeginWait(c)
  \/ \E reply \in Replies : PollRaises(reply) \/ Poll(reply)
  \/ Sleep

WaiterSpec == WaiterInit /\ [][WaiterNext]_waiterVars
-----------------------------------------------------------------------------
\* How often a waiter polls: never more than maxAttempts times, but at least once,
\* it sleeps between two polls and never after the last (waiter.py 316-348).
BoundedPolling ==
  wait \notin {"idle", "raised"} \cup Refusals =>
    /\ attempts <= config.maxAttempts \/ attempts = 1
    /\ wait = "exceeded" => attempts >= config.maxAttempts
    /\ attempts = sleeps + (IF wait = "poll" THEN 0 ELSE 1)

\* Whatever was seen before, the last response decides alone how a wait ends:
\* with success or failure if and only if the first acceptor that matches it says
\* so, and an error that no acceptor expects always ends it (waiter.py 324-344).
LastAnswerDecides ==
  last # NoValue /\ wait # "raised" =>
    /\ \A state \in {"success", "failure"} : wait = state <=> FirstSays(config, last, state)
    /\ wait = "unexpected" <=>
         last.error # NoValue /\ \A i \in DOMAIN config.acceptors : ~ Matches(config.acceptors[i], last)

\* The two together: a waiter polls as often as its configuration says, and decides as
\* the acceptors in it say.
WaitsAsConfigured == BoundedPolling /\ LastAnswerDecides
=============================================================================
