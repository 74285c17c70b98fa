----------------------------- MODULE Connection -----------------------------
(***************************************************************************)
(* One pooled connection of src/botocore/awsrequest.py, which speaks       *)
(* Expect: 100-continue on top of httplib's, and the checked reading of a  *)
(* streamed answer (src/botocore/response.py).                             *)
(*                                                                         *)
(* A request is plain, or has a file as its body and expects a 100, or has *)
(* a stream without a length, which the requests library sends in chunks   *)
(* past _send_request.  The server is external; httplib, urllib3's pool    *)
(* and the requests library are modelled as far as they use the connection.*)
(***************************************************************************)
EXTENDS Naturals, Sequences

CONSTANTS
  Final,      \* final statuses of the server
  Early,      \* those that it may send before it has the body
  Lengths,    \* lengths of a streamed answer
  None        \* no status, no length, all of a body

ASSUME ConnectionAssumption ==
  Lengths \subseteq Nat /\ Early \subseteq Final /\ None \notin Final \cup Nat

VARIABLES
  conn,       \* the connection object in the pool
  inbox,      \* what the server sent and nobody has read
  request,    \* the kind of the request and whether its answer is streamed
  number,     \* of the request
  phase,      \* where the client is in it
  out,        \* what of it the server may have: "nothing", "headers", "all"
  continued,  \* the server has sent its 100
  replied,    \* the final message that the server has sent
  outcome,    \* what the caller of the last request got
  misread,    \* history: the answer was read with the status of an earlier one
  stream      \* the StreamingBody: [length, arrives, read, zero, end]

connVars == <<conn, inbox, request, number, phase, out, continued, replied, outcome,
              misread, stream>>

\* response_class is functools.partial(AWSHTTPResponse, status) or the original;
\* _response_received; the attribute _expect_header_set exists.
Fresh == [open |-> FALSE, class |-> None, received |-> FALSE, used |-> FALSE]
Continue == [kind |-> "continue"]
\* No answer: what is not HTTP, a status that is no number, a 100 that breaks off; then
\* the server closes, or says no more.
Faults == [kind : {"junk", "malformed", "cut"}, close : BOOLEAN]
Answer(s, close, of) ==
  [kind |-> "final", status |-> s, close |-> close, of |-> of,
   early |-> phase = "waiting" /\ ~ continued]
Answers == [kind : {"final"}, status : Final, close : BOOLEAN, of : Nat, early : BOOLEAN]
Messages == {Continue} \cup Faults \cup Answers
Nothing == [kind |-> "none"]
Error == [kind |-> "error"]
NoStream == [length |-> None, arrives |-> 0, read |-> 0, zero |-> FALSE, end |-> "open"]

Connections == [open : BOOLEAN, class : Final \cup {None}, received : BOOLEAN, used : BOOLEAN]
Requests == [kind : {"plain", "expect", "chunked"}, streamed : BOOLEAN]
Streams ==
  [length : Nat \cup {None}, arrives : Nat, read : Nat, zero : BOOLEAN,
   end : {"open", "whole", "IncompleteRead"}]

ConnectionTypeOK ==
  /\ conn \in Connections
  /\ inbox \in Seq(Messages)
  /\ request \in Requests
  /\ number \in Nat
  /\ phase \in {"idle", "waiting", "silence", "sent", "answered", "body", "spins"}
  /\ out \in {"nothing", "headers", "all"}
  /\ continued \in BOOLEAN /\ misread \in BOOLEAN
  /\ replied \in {Nothing} \cup Faults \cup Answers
  /\ outcome \in {Nothing, Error} \cup [kind : {"status"}, status : Final]
  /\ stream \in Streams
  /\ phase = "answered" => conn.received /\ conn.class # None

ConnectionInit ==
  /\ conn = Fresh
  /\ inbox = << >>
  /\ request = [kind |-> "plain", streamed |-> FALSE] /\ number = 0
  /\ phase = "idle" /\ out = "nothing"
  /\ continued = FALSE /\ replied = Nothing
  /\ outcome = Nothing /\ misread = FALSE
  /\ stream = NoStream
-----------------------------------------------------------------------------
\* What _get_conn of the pool returns: the object stays when its socket is dropped or
\* holds data that nobody asked for (mutant: that is kept).  The pool does not block:
\* it makes another one when the connection is with a request that never ends.
Pooled_KeepUnread == IF phase = "spins" THEN Fresh ELSE conn
Pooled ==
  IF phase = "spins" THEN Fresh
  ELSE IF inbox = << >> THEN conn ELSE [conn EXCEPT !.open = FALSE]

New(r) ==
  /\ phase \in {"idle", "spins"}
  /\ request' = r
  /\ number' = number + 1
  /\ inbox' = IF Pooled.open THEN inbox ELSE << >>
  /\ continued' = FALSE /\ replied' = Nothing
  /\ misread' = FALSE
  /\ stream' = NoStream

\* Mutant of SendRequest: the response class is never put back.
SendRequest_KeepClass(r) ==
  /\ New(r)
  /\ conn' = [Pooled EXCEPT !.open = TRUE, !.received = FALSE, !.used = TRUE]
  /\ out' = IF r.kind = "expect" THEN "headers" ELSE "all"
  /\ phase' = IF r.kind = "expect" THEN "waiting" ELSE "sent"
  /\ outcome' = Nothing

\* _send_request and _send_output, up to the select: a request that expects a 100
\* keeps the response class it finds.
SendRequest(r) ==
  /\ New(r)
  /\ conn' = [Pooled EXCEPT !.open = TRUE, !.received = FALSE, !.used = TRUE,
                            !.class = IF r.kind = "expect" THEN @ ELSE None]
  /\ out' = IF r.kind = "expect" THEN "headers" ELSE "all"
  /\ phase' = IF r.kind = "expect" THEN "waiting" ELSE "sent"
  /\ outcome' = Nothing

\* A request in chunks calls endheaders and send itself.  Before any other request of
\* the object the attribute _expect_header_set is missing; after an early answer send
\* does nothing, and getresponse fails without a socket.
SendChunked ==
  /\ New([kind |-> "chunked", streamed |-> FALSE])
  /\ out' = IF Pooled.received THEN "nothing" ELSE IF Pooled.used THEN "all" ELSE "headers"
  /\ IF ~ Pooled.used \/ (Pooled.received /\ ~ Pooled.open)
     THEN conn' = Fresh /\ outcome' = Error /\ phase' = "idle"
     ELSE conn' = [Pooled EXCEPT !.open = TRUE] /\ outcome' = Nothing /\ phase' = "sent"

Lost == conn' = Fresh /\ outcome' = Error /\ phase' = "idle" /\ UNCHANGED stream

\* _handle_expect_response: a 100 is consumed and the body sent; a final status line
\* is kept and the body is not sent; what is neither is consumed; a status that is no
\* number raises (mutant: any status is taken for a 100).
HandleExpect_AnyStatus ==
  /\ phase = "waiting" /\ inbox # << >>
  /\ inbox' = Tail(inbox)
  /\ phase' = "sent" /\ out' = IF Head(inbox) \in Faults THEN out ELSE "all"
  /\ UNCHANGED <<conn, request, number, continued, replied, outcome, misread, stream>>

\* _consume_headers reads lines up to an empty one, past the end of what a server has
\* sent that closes in between, for ever; a server that is silent has its time-out.
HandleExpect ==
  /\ phase = "waiting" /\ inbox # << >>
  /\ inbox' = Tail(inbox)
  /\ \/ /\ Head(inbox).kind = "continue"
        /\ out' = "all" /\ phase' = "sent" /\ UNCHANGED <<conn, outcome, stream>>
     \/ /\ Head(inbox).kind = "final"
        /\ conn' = [conn EXCEPT !.class = Head(inbox).status, !.received = TRUE]
        /\ phase' = "answered" /\ UNCHANGED <<out, outcome, stream>>
     \/ Head(inbox).kind = "junk" /\ phase' = "sent" /\ UNCHANGED <<conn, out, outcome, stream>>
     \/ Head(inbox).kind = "malformed" /\ Lost /\ UNCHANGED out
     \/ /\ Head(inbox).kind = "cut"
        /\ IF Head(inbox).close THEN phase' = "spins" /\ UNCHANGED <<conn, outcome, stream>> ELSE Lost
        /\ UNCHANGED out
  /\ UNCHANGED <<request, number, continued, replied, misread>>

\* select has waited for a second; then the body is sent, whatever has come since.
ExpectTimeout ==
  /\ phase = "waiting" /\ inbox = << >>
  /\ phase' = "silence"
  /\ UNCHANGED <<conn, inbox, request, number, out, continued, replied, outcome, misread, stream>>

SendBody ==
  /\ phase = "silence"
  /\ out' = "all" /\ phase' = "sent"
  /\ UNCHANGED <<conn, inbox, request, number, continued, replied, outcome, misread, stream>>
-----------------------------------------------------------------------------
\* getresponse and get_response.  A streamed answer leaves with its StreamingBody,
\* others have been read.  The connection survives unless the server closes it.
Deliver(s, close) ==
  /\ outcome' = [kind |-> "status", status |-> s]
  /\ conn' = [conn EXCEPT !.open = ~close]
  /\ IF request.streamed /\ s < 300
     THEN /\ phase' = "body"
          /\ \E length \in Lengths \cup {None}, arrives \in Lengths :
               /\ length # None => arrives <= length
               /\ stream' = [NoStream EXCEPT !.length = length, !.arrives = arrives]
     ELSE phase' = "idle" /\ UNCHANGED stream

\* 100s that come late are skipped; there is one other message at most.
Received == {inbox[i] : i \in {j \in DOMAIN inbox : inbox[j] # Continue}}

\* A status is read; or the one of an early answer is used.
ReadAnswer ==
  /\ \/ phase = "answered" /\ Deliver(conn.class, replied.close) /\ UNCHANGED inbox
     \/ /\ phase = "sent" /\ conn.class = None
        /\ \E message \in Received :
             IF message \in Faults THEN Lost ELSE Deliver(message.status, message.close)
        /\ inbox' = << >>
     \/ /\ phase = "sent" /\ conn.class = None /\ replied \in Faults /\ Received = {}
        /\ Lost
        /\ UNCHANGED inbox
  /\ UNCHANGED <<request, number, out, continued, replied, misread>>

\* The class of an earlier answer supplies its status; the new status line is taken
\* for a header and ends the headers, and what follows is the body, up to the end of
\* the connection, unless the server keeps it until a time-out.
Misread ==
  /\ phase = "sent" /\ conn.class # None /\ replied # Nothing
  /\ misread' = TRUE
  /\ Deliver(conn.class, TRUE) \/ (~ replied.close /\ Lost)
  /\ inbox' = << >>
  /\ UNCHANGED <<request, number, out, continued, replied>>

\* The time-out of the endpoint's requests (mutant: streamed ones only).
ReadTimeout_Streamed ==
  /\ phase = "sent" /\ replied = Nothing /\ request.streamed
  /\ Lost
  /\ UNCHANGED <<inbox, request, number, out, continued, replied, misread>>

ReadTimeout ==
  /\ phase = "sent" /\ replied = Nothing
  /\ Lost
  /\ UNCHANGED <<inbox, request, number, out, continued, replied, misread>>

\* StreamingBody.read, of some bytes or all: the length is verified when nothing is
\* left, or all was asked for (mutant: only then).
Verified(read) == IF stream.length \in {None, read} THEN "whole" ELSE "IncompleteRead"

ReadBody_NoEmpty(amount) ==
  LET left == stream.arrives - stream.read
      chunk == IF amount = None \/ amount > left THEN left ELSE amount
  IN  /\ phase = "body" /\ stream.end = "open"
      /\ stream' = [stream EXCEPT !.read = @ + chunk, !.zero = IF amount = 0 THEN TRUE ELSE @,
                      !.end = IF amount = None THEN Verified(stream.read + chunk)
                              ELSE IF chunk = 0 THEN "whole" ELSE @]
      /\ UNCHANGED <<conn, inbox, request, number, phase, out, continued, replied, outcome, misread>>

ReadBody(amount) ==
  LET left == stream.arrives - stream.read
      chunk == IF amount = None \/ amount > left THEN left ELSE amount
  IN  /\ phase = "body" /\ stream.end = "open"
      /\ stream' = [stream EXCEPT !.read = @ + chunk, !.zero = IF amount = 0 THEN TRUE ELSE @,
                      !.end = IF chunk = 0 \/ amount = None THEN Verified(stream.read + chunk) ELSE @]
      /\ UNCHANGED <<conn, inbox, request, number, phase, out, continued, replied, outcome, misread>>

\* A body that was read to its end releases the connection, others lose it.
LeaveBody ==
  /\ phase = "body"
  /\ phase' = "idle"
  /\ conn' = IF stream.read < stream.arrives THEN Fresh
             ELSE [conn EXCEPT !.open = @ /\ stream.length = stream.arrives]
  /\ UNCHANGED <<inbox, request, number, out, continued, replied, outcome, misread, stream>>

ClientStep ==
  \/ HandleExpect \/ ExpectTimeout \/ SendBody
  \/ ReadAnswer \/ Misread \/ ReadTimeout
  \/ LeaveBody
-----------------------------------------------------------------------------
\* The server.
Send(message) ==
  /\ inbox' = Append(inbox, message)
  /\ UNCHANGED <<conn, request, number, phase, out, outcome, misread, stream>>

Busy == phase \in {"waiting", "silence", "sent"} /\ replied = Nothing

ServerContinues ==
  /\ Busy /\ request.kind # "plain" /\ out # "nothing" /\ ~ continued
  /\ Send(Continue)
  /\ continued' = TRUE
  /\ UNCHANGED replied

ServerAnswers(s, close) ==
  /\ Busy /\ (out = "all" \/ (out = "headers" /\ s \in Early))
  /\ Send(Answer(s, close, number))
  /\ replied' = Answer(s, close, number)
  /\ UNCHANGED continued

\* It drops the connection, maybe inside a 100, or sends what is no answer.
ServerFails ==
  /\ Busy
  /\ \E fault \in Faults : Send(fault) /\ replied' = fault
  /\ UNCHANGED continued

\* It drops a connection that is idle, maybe with a status that nobody asked for.
ServerDrops(s) ==
  /\ phase = "idle" /\ conn.open /\ inbox = << >>
  /\ IF s = None
     THEN conn' = [conn EXCEPT !.open = FALSE] /\ UNCHANGED inbox
     ELSE inbox' = <<Answer(s, TRUE, 0)>> /\ UNCHANGED conn
  /\ UNCHANGED <<request, number, phase, out, continued, replied, outcome, misread, stream>>

Server ==
  \/ ServerContinues
  \/ \E s \in Final, close \in BOOLEAN : ServerAnswers(s, close)
  \/ ServerFails
  \/ \E s \in Early \cup {None} : ServerDrops(s)

ConnectionNext ==
  \/ \E r \in Requests : r.kind # "chunked" /\ SendRequest(r)
  \/ SendChunked
  \/ ClientStep
  \/ \E amount \in Lengths \cup {0, None} : ReadBody(amount)
  \/ Server

ConnectionSpec == ConnectionInit /\ [][ConnectionNext]_connVars
-----------------------------------------------------------------------------
\* The caller of a request gets the status that the server gave to that request, not
\* one of an earlier request on the connection, nor a 100 that came late, except where
\* a request that expects a 100, or a chunked one, finds the response class of an early
\* answer (awsrequest.py 112-122 resets it for plain requests only).
OwnAnswer ==
  outcome.kind = "status" /\ ~ misread =>
    replied.kind = "final" /\ replied.of = number /\ outcome.status = replied.status

\* That exception needs an earlier refusal: no plain request is ever misread, and none
\* is after one (awsrequest.py 117-118).
PlainIsNeverMisread ==
  /\ misread => request.kind # "plain"
  /\ request.kind = "plain" => conn.class = None

\* The two together: every caller gets the answer to its own request, but for uploads
\* that follow a refused one on the connection object.
AnswersReachTheirCallers == OwnAnswer /\ PlainIsNeverMisread

\* A server that refuses a request while the client waits never gets the body
\* (awsrequest.py 152-156, 201-219).
RefusedBodyStays ==
  replied.kind = "final" /\ replied.early => out # "all"

\* A streamed answer that was read to its end without an error is whole, and an error
\* means that it was cut, unless the caller has read nothing on purpose: read(0) looks
\* like the end (response.py 68-87).
StreamIsWhole ==
  /\ stream.end = "whole" /\ stream.length # None => stream.read = stream.length
  /\ stream.end = "IncompleteRead" => stream.arrives < stream.length \/ stream.zero
=============================================================================
