----------------------------- MODULE RetryLoop -----------------------------
(***************************************************************************)
(* One API call of a client: src/botocore/client.py _make_api_call, the    *)
(* request loop of endpoint.py, the retry handler of retryhandler.py and   *)
(* the stream of the request body (awsrequest.py).                         *)
(*                                                                         *)
(* The server and the network choose the outcome of every request.  A      *)
(* response is a record of its status, of the error code in its content    *)
(* ("none" in a content without an Error element, "empty", "garbled" when  *)
(* it cannot be parsed), of the code in the parsed content, and of what a  *)
(* check of its CRC shows.                                                 *)
(***************************************************************************)
EXTENDS Integers, FiniteSets, Sequences

CONSTANTS
  Policy,         \* the merged policies of the service, see _retry.json
  MaxAttempts,    \* max_attempts of the service
  Response,       \* the responses the server may send
  Failure,        \* the exceptions of http_session.send
  Body,           \* the kinds of request bodies, a subset of Bodies
  ChecksFor200,   \* the operation has the check_for_200_error handler
  MaxRedirects    \* max_redirects of the HTTP session

Bodies == {"bytes", "file", "unseekable", "pipe"}
Failures == {"connection", "dns", "other"}

\* Policies are an unordered dict, and there are at least two: a single checker
\* would be given no exception to retry.
ASSUME RetryAssumption ==
  /\ IsFiniteSet(Policy) /\ Cardinality(Policy) >= 2
  /\ MaxAttempts \in Nat \ {0}
  /\ Failure \subseteq Failures /\ Body \subseteq Bodies
  /\ ChecksFor200 \in BOOLEAN
  /\ MaxRedirects \in Nat
  /\ \A c \in Policy : c.when \in {"socket", "status", "code", "crc"}
  /\ Response \subseteq [status : Nat, code : STRING, parsed : {"none"}, crc : STRING]

VARIABLES
  checkers,   \* the policies in the order of the dict
  body,       \* what the request body is
  phase,      \* what the call does next
  attempts,   \* number of the current attempt
  moved,      \* the body stream is not at its start
  redirects,  \* redirects followed in the attempt
  bodyless,   \* a redirect has dropped the body
  short,      \* a request was sent with a body stream not at its start
  outcome,    \* response or exception of the last request
  result      \* how the call ended

vars == <<checkers, body, phase, attempts, moved, redirects, bodyless, short, outcome, result>>

Pending == [pending |-> TRUE]
Exception(e) == [exception |-> e]
IsException(o) == "exception" \in DOMAIN o
IsResponse(o) == "status" \in DOMAIN o

Results == {"none", "parsed", "ClientError", "KeyError", "ParserError", "XMLError", "SigningError",
            "ConnectionError", "EndpointConnectionError", "OtherError", "ChecksumError",
            "UnseekableStreamError", "TooManyRedirects"}

\* The orders a dict of policies can have.
Orders == {f \in [1..Cardinality(Policy) -> Policy] : \A i, j \in DOMAIN f : f[i] = f[j] => i = j}

TypeOK ==
  /\ checkers \in Orders /\ body \in Body
  /\ phase \in {"create", "send", "parse", "retry?", "rewind", "finish", "done"}
  /\ attempts \in 1..MaxAttempts
  /\ moved \in BOOLEAN /\ bodyless \in BOOLEAN /\ short \in BOOLEAN
  /\ redirects \in 0..MaxRedirects
  /\ result \in Results
  /\ phase = "done" <=> result # "none"
  /\ phase \in {"parse", "retry?", "rewind"} => IsException(outcome) \/ IsResponse(outcome)
-----------------------------------------------------------------------------
\* One checker: TRUE, None or False, or an exception it raises.
Verdict(c, o) ==
  CASE c.when = "socket" -> IF IsException(o) THEN "raise" ELSE "no"
    [] c.when = "status" -> IF IsResponse(o) /\ o.status = c.status THEN "retry" ELSE "no"
    [] c.when = "code"   -> IF IsResponse(o) /\ o.status = c.status /\ o.parsed = c.code
                            THEN "retry" ELSE "no"
    [] c.when = "crc"    -> IF IsResponse(o) /\ o.crc = "differs" THEN "raise" ELSE "no"

Raised(o) == IF IsException(o) THEN o.exception ELSE "ChecksumError"

\* retryable_exceptions, collected from the policies.
RetryableExceptions ==
  (IF \E c \in Policy : c.when = "socket" THEN {"ConnectionError", "EndpointConnectionError"} ELSE {})
  \cup (IF \E c \in Policy : c.when = "crc" THEN {"ChecksumError"} ELSE {})

\* MultiChecker: the first checker in order that raises or wants a retry decides.
MultiVerdict(order, o) ==
  LET deciding == {i \in DOMAIN order : Verdict(order[i], o) # "no"}
  IN  IF deciding = {} THEN "no"
      ELSE Verdict(order[CHOOSE i \in deciding : \A j \in deciding : i <= j], o)

\* Mutant of MaxAttemptsVerdict: retryable exceptions are not caught.
MaxAttemptsVerdict_NoCatch(order, o, n) ==
  LET v == MultiVerdict(order, o)
  IN  IF v = "retry" /\ n >= MaxAttempts THEN "no" ELSE v

\* MaxAttemptsDecorator: below the maximum retryable exceptions are caught, on the
\* last attempt they leave the handler and a wanted retry is refused.
MaxAttemptsVerdict(order, o, n) ==
  LET v == MultiVerdict(order, o)
  IN  CASE v = "raise" -> IF n < MaxAttempts /\ Raised(o) \in RetryableExceptions
                          THEN "retry" ELSE "raise"
        [] v = "retry" -> IF n < MaxAttempts THEN "retry" ELSE "no"
        [] v = "no"    -> "no"

\* The parser takes a body for an error from status 301 on; an empty one then
\* yields the status as code.
Parsed(r) == [r EXCEPT !.parsed = IF r.status >= 301 THEN r.code ELSE "none"]

\* check_for_200_error: an Error element in a response with status 200.
EmbeddedError(o) ==
  ChecksFor200 /\ IsResponse(o) /\ o.status = 200 /\ o.code \notin {"none", "empty"}

\* Mutant of Checked200: the handler is not called before the retry handler.
Checked200_Not(o) == o

Checked200(o) == IF EmbeddedError(o) THEN [o EXCEPT !.status = 500] ELSE o

\* Its XML parser raises on an empty content.
Raises200(o) == ChecksFor200 /\ IsResponse(o) /\ o.status = 200 /\ o.code = "empty"
-----------------------------------------------------------------------------
Init ==
  /\ checkers \in Orders
  /\ body \in Body
  /\ phase = "create"
  /\ attempts = 1
  /\ moved = FALSE /\ bodyless = FALSE /\ short = FALSE
  /\ redirects = 0
  /\ outcome = Pending
  /\ result = "none"

End(r) == result' = r /\ phase' = "done"

\* create_request: the request is built and signed; signing may fail.
CreateRequest ==
  /\ phase = "create"
  /\ redirects' = 0
  /\ bodyless' = FALSE
  /\ outcome' = Pending
  /\ \/ phase' = "send" /\ UNCHANGED result
     \/ End("SigningError")
  /\ UNCHANGED <<checkers, body, attempts, moved, short>>

\* Sending reads the body stream.
ReadBody ==
  /\ short' = (short \/ (moved /\ ~bodyless))
  /\ moved' = (moved \/ (body # "bytes" /\ ~bodyless))

Caught(f) ==
  CASE f = "connection" -> Exception("ConnectionError")
    [] f = "dns"        -> Exception("EndpointConnectionError")
    [] f = "other"      -> Exception("OtherError")

\* http_session.send ends with a response, or with an exception that
\* _get_response catches.
Send ==
  /\ phase = "send"
  /\ ReadBody
  /\ \/ \E r \in Response : outcome' = Parsed(r) /\ phase' = "parse"
     \/ \E f \in Failure : outcome' = Caught(f) /\ phase' = "retry?"
  /\ UNCHANGED <<checkers, body, attempts, redirects, bodyless, result>>

\* Mutant of Redirect: the hook does not rewind the stream.
Redirect_NoHook ==
  /\ phase = "send"
  /\ short' = (short \/ (moved /\ ~bodyless))
  /\ \E keepsBody \in BOOLEAN :
       IF redirects = MaxRedirects
       THEN /\ outcome' = Exception("TooManyRedirects")
            /\ phase' = "retry?"
            /\ UNCHANGED <<moved, redirects, bodyless>>
       ELSE /\ redirects' = redirects + 1
            /\ bodyless' = (bodyless \/ ~keepsBody)
            /\ moved' = (moved \/ body # "bytes")
            /\ UNCHANGED <<phase, outcome>>
  /\ UNCHANGED <<checkers, body, attempts, result>>

\* http_session.send meets a redirect: reset_stream_on_redirect rewinds a body that
\* can seek, and the request is sent again, with its body if the status keeps it.
Redirect ==
  /\ phase = "send"
  /\ short' = (short \/ (moved /\ ~bodyless))
  /\ \/ /\ body = "unseekable"
        /\ outcome' = Exception("UnseekableStreamError")
        /\ phase' = "retry?"
        /\ moved' = TRUE
        /\ UNCHANGED <<redirects, bodyless>>
     \/ /\ body # "unseekable" /\ redirects = MaxRedirects
        /\ outcome' = Exception("TooManyRedirects")
        /\ phase' = "retry?"
        /\ moved' = (body = "pipe")
        /\ UNCHANGED <<redirects, bodyless>>
     \/ /\ body # "unseekable" /\ redirects < MaxRedirects
        /\ redirects' = redirects + 1
        /\ \E keepsBody \in BOOLEAN : bodyless' = (bodyless \/ ~keepsBody)
        /\ moved' = (body = "pipe")
        /\ UNCHANGED <<phase, outcome>>
  /\ UNCHANGED <<checkers, body, attempts, result>>

\* The rest of _get_response, outside its try: a body that cannot be parsed raises.
Parse ==
  /\ phase = "parse"
  /\ IF outcome.code = "garbled"
     THEN End("ParserError")
     ELSE phase' = "retry?" /\ UNCHANGED result
  /\ UNCHANGED <<checkers, body, attempts, moved, redirects, bodyless, short, outcome>>

\* _needs_retry: check_for_200_error first, then the retry handler, whose exception
\* leaves the loop.
NeedsRetry ==
  /\ phase = "retry?"
  /\ outcome' = Checked200(outcome)
  /\ LET verdict == MaxAttemptsVerdict(checkers, Checked200(outcome), attempts)
     IN  \/ Raises200(outcome) /\ End("XMLError")
         \/ /\ ~Raises200(outcome)
            /\ \/ verdict = "retry" /\ phase' = "rewind" /\ UNCHANGED result
               \/ verdict = "no" /\ phase' = "finish" /\ UNCHANGED result
               \/ verdict = "raise" /\ End(Raised(outcome))
  /\ UNCHANGED <<checkers, body, attempts, moved, redirects, bodyless, short>>

\* Mutant of Rewind: the attempt is not counted.
Rewind_Uncounted ==
  /\ phase = "rewind"
  /\ outcome' = Pending
  /\ IF body \in {"bytes", "file"}
     THEN moved' = FALSE /\ phase' = "create" /\ UNCHANGED result
     ELSE End("UnseekableStreamError") /\ UNCHANGED moved
  /\ UNCHANGED <<checkers, body, attempts, redirects, bodyless, short>>

\* The next attempt begins with reset_stream.
Rewind ==
  /\ phase = "rewind"
  /\ attempts' = attempts + 1
  /\ outcome' = Pending
  /\ IF body \in {"bytes", "file"}
     THEN moved' = FALSE /\ phase' = "create" /\ UNCHANGED result
     ELSE End("UnseekableStreamError") /\ UNCHANGED moved
  /\ UNCHANGED <<checkers, body, redirects, bodyless, short>>

\* The end of _send_request and of _make_api_call; ClientError reads the Error of
\* the parsed body.
Finish ==
  /\ phase = "finish"
  /\ CASE IsException(outcome) -> End(outcome.exception)
       [] IsResponse(outcome) ->
            End(IF outcome.status < 300 THEN "parsed"
                ELSE IF outcome.parsed # "none" THEN "ClientError" ELSE "KeyError")
  /\ UNCHANGED <<checkers, body, attempts, moved, redirects, bodyless, short, outcome>>

Done == phase = "done" /\ UNCHANGED vars
Next == CreateRequest \/ Send \/ Redirect \/ Parse \/ NeedsRetry \/ Rewind \/ Finish \/ Done

Spec == Init /\ [][Next]_vars
\* Sockets have a time-out, so every request has an outcome, and nothing else waits.
FairSpec == Spec /\ WF_vars(Next)
-----------------------------------------------------------------------------
\* A request with a body stream starts at the start of the stream, on the first
\* attempt, after a redirect and on a retry (endpoint.py 206-210); only a stream
\* without seek is sent on from where it is when a redirect keeps the body.
WholeBodySent == short => body = "pipe" /\ redirects > 0

\* The caller gets a parsed response only if the last response was a success and
\* held no error (handlers.py 56-60).
SuccessIsReal ==
  result = "parsed" => IsResponse(outcome) /\ outcome.status < 300 /\ ~EmbeddedError(outcome)

\* Every call ends (endpoint.py 203: the loop has no bound of its own).
EveryCallEnds == <>(result # "none")

\* Whether another attempt may help, whatever the order of the checkers.
Transient(o) ==
  \E c \in Policy : \/ Verdict(c, o) = "retry"
                    \/ Verdict(c, o) = "raise" /\ Raised(o) \in RetryableExceptions

\* The loop keeps the contract: a transient outcome is retried while attempts are
\* left, a final one never, and nothing is delivered early (retryhandler.py 233-273).
Contract == INSTANCE RetryContract WITH
  made  <- IF outcome = Pending THEN attempts - 1 ELSE attempts,
  last  <- IF outcome = Pending
           THEN IF attempts = 1 THEN "none" ELSE "transient"
           ELSE IF Transient(Checked200(outcome)) THEN "transient" ELSE "final",
  ended <- IF result = "none" THEN "no"
           ELSE IF result \in {"SigningError", "ParserError", "XMLError", "UnseekableStreamError"}
           THEN "broken off" ELSE "delivered"

KeepsContract == Contract!Spec

\* "even though the server sends a 200 response, conceptually this should be handled
\* exactly like a 500 response (with respect to raising exceptions, retries, etc.)"
\* (handlers.py 56-58): a response with an error code that counts as a 500, as the
\* server sent it or since check_for_200_error says so, raises ClientError.
EmbeddedErrorLikeA500 ==
  /\ phase = "done" /\ IsResponse(outcome) /\ outcome.status = 500
  /\ outcome.code \notin {"none", "empty", "garbled"}
  => result = "ClientError"
=============================================================================
