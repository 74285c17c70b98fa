--------------------------- MODULE TransferProofs ---------------------------
(***************************************************************************)
(* The connection keeps its promises also when a waiter and other threads  *)
(* use it in turns; the waiter decides by its last answer and polls as     *)
(* often as it may; and when it succeeds, that answer is the server's.     *)
(*                                                                         *)
(* BoundedPolling does not say how many attempts are left, which Polled    *)
(* does.  SuccessIsSeen needs Served: what the server has said of the      *)
(* resource between the poll and its reply.                                *)
(***************************************************************************)
EXTENDS Transfer, WellFoundedInduction, TLAPS

\* A non-empty set of indices has a least element: < is well founded on the naturals.
LEMMA LeastIndex ==
  ASSUME NEW n \in Nat, NEW T \in SUBSET (1..n), T # {}
  PROVE  \E m \in T : \A k \in T : m <= k
<1> DEFINE Less == {p \in Nat \X Nat : p[1] < p[2]}
<1>1. IsWellFoundedOn(Less, Nat)
  BY NatLessThanWellFounded DEF OpToRel
<1>2. T \subseteq Nat
  OBVIOUS
<1>3. PICK m \in T : \A k \in T : ~ (<<k, m>> \in Less)
  <2> HIDE DEF Less
  <2> QED BY <1>1, <1>2, WFMin, Zenon
<1>4. \A k \in T : ~ (k < m)
  BY <1>2, <1>3
<1> QED
  BY <1>2, <1>4

\* The connection.

InProgress == {"waiting", "silence", "sent", "answered"}

\* What is unread belongs to the request in progress.
Unread ==
  phase \in InProgress =>
    \A i \in DOMAIN inbox :
      /\ inbox[i] # Continue => inbox[i] = replied
      /\ inbox[i] = Continue => continued

\* What is known of the final message.
Replied ==
  /\ replied.kind = "final" => replied.of = number
  /\ phase = "answered" => replied.kind = "final" /\ conn.class = replied.status
  /\ phase = "waiting" =>
       /\ request.kind = "expect" /\ out = "headers"
       /\ replied # Nothing => inbox # << >>

\* A refusal is never followed by the body.
Refused ==
  replied.kind = "final" /\ replied.early =>
    /\ ~ continued /\ phase \notin {"silence", "sent"}
    /\ out # "all"

\* How far a streamed answer was read.
Streamed ==
  /\ stream.read <= stream.arrives
  /\ stream.length # None => stream.arrives <= stream.length
  /\ StreamIsWhole

ConnectionInv ==
  ConnectionTypeOK /\ Unread /\ Replied /\ Refused /\ OwnAnswer /\ PlainIsNeverMisread /\ Streamed
-----------------------------------------------------------------------------
\* What Deliver, Lost and New leave behind.
Finished(s, close) ==
  /\ conn' = [conn EXCEPT !.open = ~ close] /\ conn' \in Connections
  /\ outcome' = [kind |-> "status", status |-> s]
  /\ phase' \in {"idle", "body"}
  /\ stream' \in Streams /\ Streamed'

LEMMA Delivered ==
  ASSUME ConnectionTypeOK, Streamed, NEW s \in Final, NEW close \in BOOLEAN, Deliver(s, close)
  PROVE  Finished(s, close)
<1>1. /\ conn' = [conn EXCEPT !.open = ~ close] /\ conn' \in Connections
      /\ outcome' = [kind |-> "status", status |-> s]
  <2>1. conn' = [conn EXCEPT !.open = ~ close] /\ outcome' = [kind |-> "status", status |-> s]
    BY DEF Deliver
  <2>2. conn' \in Connections
    <3>1. conn \in Connections /\ (~ close) \in BOOLEAN
      BY DEF ConnectionTypeOK
    <3>2. QED BY <2>1, <3>1 DEF Connections
  <2>3. QED BY <2>1, <2>2
<1>2. CASE request.streamed /\ s < 300
  <2>1. PICK length \in Lengths \cup {None}, arrives \in Lengths :
          /\ length # None => arrives <= length
          /\ stream' = [NoStream EXCEPT !.length = length, !.arrives = arrives]
    BY <1>2 DEF Deliver
  <2>2. stream' = [length |-> length, arrives |-> arrives, read |-> 0, zero |-> FALSE, end |-> "open"]
    BY <2>1 DEF NoStream
  <2>3. arrives \in Nat /\ length \in Nat \cup {None}
    BY ConnectionAssumption
  <2>4. stream' \in Streams
    BY <2>2, <2>3 DEF Streams
  <2>5. Streamed'
    <3>1. stream'.read = 0 /\ stream'.arrives = arrives /\ stream'.length = length /\ stream'.end = "open"
      BY <2>2
    <3>2. QED BY <3>1, <2>1, <2>3 DEF Streamed, StreamIsWhole
  <2>6. phase' = "body"
    BY <1>2 DEF Deliver
  <2>7. QED BY <1>1, <2>4, <2>5, <2>6 DEF Finished
<1>3. CASE ~ (request.streamed /\ s < 300)
  <2>1. phase' = "idle" /\ stream' = stream
    BY <1>3 DEF Deliver
  <2>2. QED BY <1>1, <2>1 DEF Finished, Streamed, StreamIsWhole, ConnectionTypeOK
<1>4. QED BY <1>2, <1>3

Started(r) ==
  /\ request' = r /\ number' \in Nat /\ inbox' = << >>
  /\ continued' = FALSE /\ replied' = Nothing /\ misread' = FALSE
  /\ stream' \in Streams /\ Streamed'
  /\ Pooled \in Connections

LEMMA Begun ==
  ASSUME ConnectionTypeOK, NEW r \in Requests, New(r)
  PROVE  Started(r)
<1>1. Pooled \in Connections /\ (Pooled.open => inbox = << >>)
  BY DEF Pooled, Fresh, ConnectionTypeOK, Connections
<1>2. stream' \in Streams /\ Streamed'
  BY DEF New, NoStream, Streams, Streamed, StreamIsWhole
<1>3. QED BY <1>1, <1>2 DEF New, Started, ConnectionTypeOK

\* A request that is new satisfies the invariant whatever became of the connection.
LEMMA NewIsSound ==
  ASSUME NEW r \in Requests, Started(r), conn' \in Connections,
         phase' \in {"idle", "waiting", "sent"}, out' \in {"nothing", "headers", "all"},
         outcome' \in {Nothing, Error},
         r.kind = "plain" => conn'.class = None,
         phase' = "waiting" => r.kind = "expect" /\ out' = "headers"
  PROVE  ConnectionInv'
<1>1. ConnectionTypeOK'
  <2>1. request' \in Requests /\ number' \in Nat /\ stream' \in Streams
    BY DEF Started
  <2>2. inbox' \in Seq(Messages)
    BY DEF Started
  <2>3. continued' \in BOOLEAN /\ misread' \in BOOLEAN /\ replied' = Nothing
    BY DEF Started
  <2>4. QED BY <2>1, <2>2, <2>3 DEF ConnectionTypeOK
<1>2. Unread'
  BY DEF Started, Unread
<1>3. Replied' /\ Refused'
  BY DEF Started, Replied, Refused, Nothing
<1>4. OwnAnswer' /\ PlainIsNeverMisread'
  BY DEF Started, OwnAnswer, PlainIsNeverMisread, Nothing, Error
<1>5. QED BY <1>1, <1>2, <1>3, <1>4 DEF ConnectionInv, Started

LEMMA Sent ==
  ASSUME ConnectionInv, NEW r \in Requests, r.kind # "chunked", SendRequest(r)
  PROVE  ConnectionInv'
<1>1. ConnectionTypeOK /\ New(r)
  BY DEF ConnectionInv, SendRequest
<1>2. Started(r)
  BY <1>1, Begun
<1>3. conn' \in Connections /\ (r.kind = "plain" => conn'.class = None)
  BY <1>2 DEF SendRequest, Started, Connections
<1>4. /\ phase' = IF r.kind = "expect" THEN "waiting" ELSE "sent"
      /\ out' = IF r.kind = "expect" THEN "headers" ELSE "all"
      /\ outcome' = Nothing
  BY DEF SendRequest
<1>5. QED BY <1>2, <1>3, <1>4, NewIsSound

LEMMA SentInChunks ==
  ASSUME ConnectionInv, SendChunked
  PROVE  ConnectionInv'
<1> DEFINE r == [kind |-> "chunked", streamed |-> FALSE]
<1>1. ConnectionTypeOK /\ New(r) /\ r \in Requests /\ r.kind = "chunked"
  BY DEF ConnectionInv, SendChunked, Requests
<1> HIDE DEF r
<1>2. Started(r)
  BY <1>1, Begun
<1>3. conn' \in Connections /\ phase' \in {"idle", "sent"} /\ outcome' \in {Nothing, Error}
  <2>1. CASE ~ Pooled.used \/ (Pooled.received /\ ~ Pooled.open)
    <3>1. conn' = Fresh /\ outcome' = Error /\ phase' = "idle"
      BY <2>1 DEF SendChunked
    <3>2. QED BY <3>1, <1>2 DEF Fresh, Started, Connections
  <2>2. CASE ~ (~ Pooled.used \/ (Pooled.received /\ ~ Pooled.open))
    BY <2>2, <1>2 DEF SendChunked, Started, Connections
  <2>3. QED BY <2>1, <2>2
<1>4. out' \in {"nothing", "headers", "all"}
  BY DEF SendChunked
<1>5. QED BY <1>1, <1>2, <1>3, <1>4, NewIsSound
-----------------------------------------------------------------------------
LEMMA Waited ==
  ASSUME ConnectionInv, ExpectTimeout \/ SendBody
  PROVE  ConnectionInv'
<1>1. /\ UNCHANGED <<conn, inbox, request, number, continued, replied, outcome, misread, stream>>
      /\ phase' \in {"silence", "sent"} /\ out' \in {"nothing", "headers", "all"}
      /\ phase \in {"waiting", "silence"}
      /\ phase = "waiting" => inbox = << >>
  BY DEF ExpectTimeout, SendBody, ConnectionInv, ConnectionTypeOK
<1>2. ConnectionTypeOK'
  BY <1>1 DEF ConnectionInv, ConnectionTypeOK
<1>3. Unread' /\ Replied'
  BY <1>1 DEF ConnectionInv, Unread, Replied, InProgress
<1>4. Refused'
  <2>1. phase = "waiting" => replied.kind = "none"
    BY <1>1 DEF ConnectionInv, Replied, Nothing
  <2>2. QED BY <1>1, <2>1 DEF ConnectionInv, Refused
<1>5. OwnAnswer' /\ PlainIsNeverMisread' /\ Streamed'
  BY <1>1 DEF ConnectionInv, OwnAnswer, PlainIsNeverMisread, Streamed, StreamIsWhole
<1>6. QED BY <1>2, <1>3, <1>4, <1>5 DEF ConnectionInv
-----------------------------------------------------------------------------
\* An answer that was delivered, and an error, end a request.
LEMMA EndIsSound ==
  ASSUME ConnectionInv, conn' \in Connections, phase' \in {"idle", "body"},
         conn.class = None => conn'.class = None,
         inbox' \in Seq(Messages),
         misread' \in BOOLEAN, stream' \in Streams, Streamed',
         UNCHANGED <<request, number, out, continued, replied>>,
         outcome' \in {Error} \cup [kind : {"status"}, status : Final],
         misread' => request.kind # "plain",
         outcome'.kind = "status" /\ ~ misread' =>
           replied.kind = "final" /\ outcome'.status = replied.status
  PROVE  ConnectionInv'
<1>1. ConnectionTypeOK'
  BY DEF ConnectionInv, ConnectionTypeOK
<1>2. Unread' /\ Replied' /\ Refused'
  BY DEF ConnectionInv, Unread, InProgress, Replied, Refused
<1>3. OwnAnswer' /\ PlainIsNeverMisread'
  BY DEF ConnectionInv, OwnAnswer, PlainIsNeverMisread, Replied
<1>4. QED BY <1>1, <1>2, <1>3 DEF ConnectionInv

LEMMA LostIsSound ==
  ASSUME ConnectionInv, Lost, inbox' \in Seq(Messages),
         misread' \in BOOLEAN, misread' => request.kind # "plain",
         UNCHANGED <<request, number, out, continued, replied>>
  PROVE  ConnectionInv'
<1>1. /\ conn' \in Connections /\ conn'.class = None
      /\ outcome' = Error /\ outcome'.kind = "error" /\ phase' = "idle"
  BY DEF Lost, Fresh, Connections, Error
<1>2. stream' \in Streams /\ Streamed'
  BY DEF Lost, ConnectionInv, ConnectionTypeOK, Streamed, StreamIsWhole
<1>3. QED BY <1>1, <1>2, EndIsSound

\* The head of the inbox while the client waits.
LEMMA Expected ==
  ASSUME ConnectionInv, HandleExpect
  PROVE  ConnectionInv'
<1>1. /\ inbox \in Seq(Messages) /\ inbox # << >> /\ phase = "waiting"
      /\ inbox' = Tail(inbox)
      /\ UNCHANGED <<request, number, continued, replied, misread>>
  BY DEF ConnectionInv, ConnectionTypeOK, HandleExpect
<1>2. /\ inbox' \in Seq(Messages)
      /\ Head(inbox) \in Messages /\ Head(inbox) = inbox[1] /\ 1 \in DOMAIN inbox
      /\ \A i \in DOMAIN inbox' : i + 1 \in DOMAIN inbox /\ inbox'[i] = inbox[i + 1]
  <2> QED BY <1>1
<1>3. /\ Head(inbox) # Continue => Head(inbox) = replied
      /\ Head(inbox) = Continue => continued
      /\ Unread'
  BY <1>1, <1>2 DEF ConnectionInv, Unread, InProgress
<1>4. /\ Head(inbox).kind = "continue" => Head(inbox) = Continue
      /\ Head(inbox).kind = "final" => Head(inbox) \in Answers
      /\ Head(inbox).kind \in {"junk", "malformed", "cut"} => Head(inbox) \in Faults
      /\ Head(inbox).kind \in {"continue", "final", "junk", "malformed", "cut"}
  BY <1>2 DEF Messages, Continue, Faults, Answers
<1> USE DEF ConnectionInv
<1>5. CASE Head(inbox).kind = "continue"
  <2>1. out' = "all" /\ phase' = "sent" /\ UNCHANGED <<conn, outcome, stream>>
    BY <1>5, <1>1 DEF HandleExpect
  <2>2. ConnectionTypeOK'
    BY <2>1, <1>1, <1>2 DEF ConnectionTypeOK
  <2>3. Replied' /\ Refused' /\ OwnAnswer' /\ PlainIsNeverMisread' /\ Streamed'
    BY <2>1, <1>1, <1>3, <1>4, <1>5 DEF Replied, Refused, OwnAnswer, PlainIsNeverMisread, Streamed, StreamIsWhole
  <2>4. QED BY <2>2, <2>3, <1>3
<1>6. CASE Head(inbox).kind = "final"
  <2>1. /\ conn' = [conn EXCEPT !.class = Head(inbox).status, !.received = TRUE]
        /\ phase' = "answered" /\ UNCHANGED <<out, outcome, stream>>
    BY <1>6, <1>1 DEF HandleExpect
  <2>2. Head(inbox) = replied /\ replied \in Answers /\ replied.status \in Final /\ replied.status # None
    BY <1>6, <1>3, <1>4, ConnectionAssumption DEF Continue, Answers
  <2>3. ConnectionTypeOK'
    <3>1. conn' \in Connections /\ conn'.received /\ conn'.class # None
      BY <2>1, <2>2 DEF ConnectionTypeOK, Connections
    <3>2. QED BY <2>1, <3>1, <1>1, <1>2 DEF ConnectionTypeOK
  <2>4. conn'.class = replied'.status
    BY <2>1, <2>2, <1>1 DEF ConnectionTypeOK, Connections
  <2>5. Replied' /\ Refused' /\ OwnAnswer' /\ PlainIsNeverMisread' /\ Streamed'
    BY <2>1, <2>2, <2>4, <1>1, <1>6 DEF Replied, Refused, OwnAnswer, PlainIsNeverMisread, Streamed, StreamIsWhole
  <2>6. QED BY <2>3, <2>5, <1>3
<1>7. CASE /\ Head(inbox).kind \in {"junk", "cut"}
           /\ phase' \in {"sent", "spins"} /\ UNCHANGED <<conn, outcome, stream, out>>
  <2>1. phase' \in {"sent", "spins"} /\ conn' = conn /\ out' = out /\ UNCHANGED <<outcome, stream>>
    BY <1>7
  <2>2. ConnectionTypeOK'
    BY <2>1, <1>1, <1>2 DEF ConnectionTypeOK
  <2>3. replied.kind # "final"
    BY <1>3, <1>4, <1>7 DEF Faults, Continue
  <2>4. Replied' /\ Refused' /\ OwnAnswer' /\ PlainIsNeverMisread' /\ Streamed'
    BY <2>1, <2>3, <1>1 DEF Replied, Refused, OwnAnswer, PlainIsNeverMisread, Streamed, StreamIsWhole
  <2>5. QED BY <2>2, <2>4, <1>3
<1>8. CASE Lost /\ out' = out
  BY <1>1, <1>2, <1>8, LostIsSound DEF ConnectionTypeOK, PlainIsNeverMisread
<1>9. QED BY <1>1, <1>4, <1>5, <1>6, <1>7, <1>8 DEF HandleExpect

LEMMA DeliveredIsSound ==
  ASSUME ConnectionInv, NEW s \in Final, NEW close \in BOOLEAN, Deliver(s, close),
         inbox' \in Seq(Messages),
         misread' \in BOOLEAN, misread' => request.kind # "plain",
         UNCHANGED <<request, number, out, continued, replied>>,
         ~ misread' => replied.kind = "final" /\ s = replied.status
  PROVE  ConnectionInv'
<1>1. Finished(s, close)
  BY Delivered DEF ConnectionInv
<1>2. conn' \in Connections /\ conn'.class = conn.class /\ phase' \in {"idle", "body"}
      /\ stream' \in Streams /\ Streamed'
  BY <1>1 DEF Finished, ConnectionInv, ConnectionTypeOK, Connections
<1>3. outcome' \in [kind : {"status"}, status : Final] /\ outcome'.status = s
  BY <1>1 DEF Finished
<1>4. QED BY <1>2, <1>3, EndIsSound

LEMMA AnswerRead ==
  ASSUME ConnectionInv, ReadAnswer
  PROVE  ConnectionInv'
<1> USE DEF ConnectionInv
<1>1. UNCHANGED <<request, number, out, continued, replied, misread>>
  BY DEF ReadAnswer
<1>2. misread' \in BOOLEAN /\ (misread' => request.kind # "plain")
  BY <1>1 DEF ConnectionTypeOK, PlainIsNeverMisread
<1>3. CASE phase = "answered" /\ Deliver(conn.class, replied.close) /\ UNCHANGED inbox
  <2>1. replied.kind = "final" /\ conn.class = replied.status /\ replied \in Answers
    BY <1>3 DEF Replied, ConnectionTypeOK, Nothing, Faults
  <2>2. replied.status \in Final /\ replied.close \in BOOLEAN
    BY <2>1 DEF Answers
  <2>3. inbox' \in Seq(Messages)
    BY <1>3 DEF ConnectionTypeOK
  <2>4. Deliver(replied.status, replied.close)
    BY <1>3, <2>1
  <2>5. QED BY <1>1, <1>2, <2>1, <2>2, <2>3, <2>4, DeliveredIsSound
<1>4. ASSUME phase = "sent", inbox' = << >>, NEW message \in Received,
             IF message \in Faults THEN Lost ELSE Deliver(message.status, message.close)
      PROVE  ConnectionInv'
  <2>1. message = replied
    BY <1>4 DEF Received, Unread, InProgress
  <2>2. inbox' \in Seq(Messages)
    BY <1>4
  <2>3. CASE message \in Faults
    BY <2>3, <2>2, <1>1, <1>2, <1>4, LostIsSound
  <2>4. CASE message \notin Faults
    <3>1. message \in Messages /\ message # Continue
      BY DEF Received, ConnectionTypeOK
    <3>2. message.status \in Final /\ message.close \in BOOLEAN /\ message.kind = "final"
      BY <3>1, <2>4 DEF Messages, Answers
    <3>3. Deliver(message.status, message.close)
      BY <2>4, <1>4
    <3>4. QED BY <3>2, <3>3, <2>1, <2>2, <1>1, <1>2, DeliveredIsSound
  <2>5. QED BY <2>3, <2>4
<1>5. CASE Lost /\ UNCHANGED inbox
  <2>1. inbox' \in Seq(Messages)
    BY <1>5 DEF ConnectionTypeOK
  <2>2. QED BY <1>5, <2>1, <1>1, <1>2, LostIsSound
<1>6. QED BY <1>3, <1>4, <1>5 DEF ReadAnswer

LEMMA MisreadIsSound ==
  ASSUME ConnectionInv, Misread
  PROVE  ConnectionInv'
<1>1. /\ misread' = TRUE /\ inbox' = << >> /\ conn.class # None
      /\ UNCHANGED <<request, number, out, continued, replied>>
      /\ Deliver(conn.class, TRUE) \/ Lost
  BY DEF Misread
<1>2. request.kind # "plain" /\ conn.class \in Final
  BY <1>1 DEF ConnectionInv, PlainIsNeverMisread, ConnectionTypeOK, Connections
<1>3. inbox' \in Seq(Messages) /\ misread' \in BOOLEAN /\ TRUE \in BOOLEAN
  BY <1>1
<1>4. CASE Lost
  BY <1>1, <1>2, <1>3, <1>4, LostIsSound
<1>5. CASE Deliver(conn.class, TRUE)
  BY <1>1, <1>2, <1>3, <1>5, DeliveredIsSound
<1>6. QED BY <1>1, <1>4, <1>5

LEMMA TimedOut ==
  ASSUME ConnectionInv, ReadTimeout
  PROVE  ConnectionInv'
<1>1. /\ inbox' \in Seq(Messages)
      /\ misread' \in BOOLEAN /\ (misread' => request.kind # "plain")
      /\ UNCHANGED <<request, number, out, continued, replied>> /\ Lost
  BY DEF ReadTimeout, ConnectionInv, ConnectionTypeOK, PlainIsNeverMisread
<1>2. QED BY <1>1, LostIsSound

LEMMA BodyRead ==
  ASSUME ConnectionInv, NEW amount \in Lengths \cup {0, None}, ReadBody(amount)
  PROVE  ConnectionInv'
<1> DEFINE left == stream.arrives - stream.read
           chunk == IF amount = None \/ amount > left THEN left ELSE amount
           atEnd == chunk = 0 \/ amount = None
           end == IF atEnd THEN Verified(stream.read + chunk) ELSE stream.end
<1>1. /\ stream \in Streams /\ stream.read <= stream.arrives /\ stream.end = "open"
      /\ stream.read \in Nat /\ stream.arrives \in Nat
      /\ stream.length # None => stream.length \in Nat /\ stream.arrives <= stream.length
  BY DEF ConnectionInv, ConnectionTypeOK, Streamed, Streams, ReadBody
<1>2. chunk \in Nat /\ stream.read + chunk <= stream.arrives
  BY <1>1, ConnectionAssumption
<1>3. stream' = [stream EXCEPT !.read = @ + chunk, !.zero = IF amount = 0 THEN TRUE ELSE @, !.end = end]
  BY DEF ReadBody
<1>4. atEnd => stream.read + chunk = stream.arrives \/ amount = 0
  BY <1>1
<1>5. /\ end \in {"open", "whole", "IncompleteRead"}
      /\ end = "whole" /\ stream.length # None => stream.read + chunk = stream.length
      /\ end = "IncompleteRead" => atEnd /\ stream.length # None /\ stream.length # stream.read + chunk
  BY <1>1 DEF Verified
<1> HIDE DEF chunk, atEnd, end
<1>6. /\ stream' \in Streams /\ stream'.read = stream.read + chunk /\ stream'.end = end
      /\ stream'.length = stream.length /\ stream'.arrives = stream.arrives
      /\ amount = 0 => stream'.zero
  <2>1. stream.read + chunk \in Nat /\ stream.zero \in BOOLEAN
    BY <1>1, <1>2 DEF Streams
  <2>2. PICK zero \in BOOLEAN :
          /\ stream' = [stream EXCEPT !.read = stream.read + chunk, !.zero = zero, !.end = end]
          /\ amount = 0 => zero = TRUE
    BY <1>3, <2>1, Zenon
  <2>3. QED BY <1>1, <1>5, <2>1, <2>2 DEF Streams
<1>7. Streamed'
  <2>1. end = "IncompleteRead" /\ amount # 0 => stream.arrives < stream.length
    BY <1>1, <1>2, <1>4, <1>5
  <2>2. QED BY <1>1, <1>2, <1>5, <1>6, <2>1 DEF Streamed, StreamIsWhole
<1>8. UNCHANGED <<conn, inbox, request, number, phase, out, continued, replied, outcome, misread>>
  BY DEF ReadBody
<1>9. ConnectionTypeOK'
  BY <1>6, <1>8 DEF ConnectionInv, ConnectionTypeOK
<1>10. Unread' /\ Replied' /\ Refused' /\ OwnAnswer' /\ PlainIsNeverMisread'
  BY <1>8 DEF ConnectionInv, Unread, Replied, Refused, OwnAnswer, PlainIsNeverMisread
<1>11. QED BY <1>7, <1>9, <1>10 DEF ConnectionInv

LEMMA BodyLeft ==
  ASSUME ConnectionInv, LeaveBody
  PROVE  ConnectionInv'
<1>1. UNCHANGED <<inbox, request, number, out, continued, replied, outcome, misread, stream>>
      /\ phase' = "idle"
  BY DEF LeaveBody
<1>2. conn' \in Connections /\ (conn.class = None => conn'.class = None)
  BY DEF LeaveBody, ConnectionInv, ConnectionTypeOK, Connections, Fresh
<1>3. ConnectionTypeOK'
  BY <1>1, <1>2 DEF ConnectionInv, ConnectionTypeOK
<1>4. Unread' /\ Replied' /\ Refused'
  BY <1>1 DEF ConnectionInv, Unread, Replied, Refused, InProgress
<1>5. OwnAnswer' /\ PlainIsNeverMisread' /\ Streamed'
  BY <1>1, <1>2 DEF ConnectionInv, OwnAnswer, PlainIsNeverMisread, Streamed, StreamIsWhole
<1>6. QED BY <1>3, <1>4, <1>5 DEF ConnectionInv
-----------------------------------------------------------------------------
LEMMA MessageSent ==
  ASSUME ConnectionInv, phase \in {"waiting", "silence", "sent"}, replied = Nothing,
         NEW message \in Messages, Send(message),
         replied' \in {Nothing} \cup Faults \cup Answers, continued' \in BOOLEAN,
         message = Continue => continued' = TRUE /\ replied' = replied,
         message # Continue => replied' = message /\ continued' = continued,
         replied'.kind = "final" => replied'.of = number,
         replied'.kind = "final" /\ replied'.early => phase = "waiting" /\ ~ continued
  PROVE  ConnectionInv'
<1>1. /\ inbox \in Seq(Messages) /\ inbox' = Append(inbox, message)
      /\ UNCHANGED <<conn, request, number, phase, out, outcome, misread, stream>>
  BY DEF ConnectionInv, ConnectionTypeOK, Send
<1>2. /\ inbox' \in Seq(Messages) /\ inbox' # << >>
      /\ \A i \in DOMAIN inbox' : inbox'[i] = message \/ (i \in DOMAIN inbox /\ inbox'[i] = inbox[i])
  <2>1. message \in Messages
    OBVIOUS
  <2>2. /\ inbox' \in Seq(Messages) /\ Len(inbox') = Len(inbox) + 1
        /\ inbox'[Len(inbox) + 1] = message
        /\ \A i \in 1..Len(inbox) : inbox'[i] = inbox[i]
    BY <1>1, <2>1
  <2>3. Len(inbox) \in Nat /\ DOMAIN inbox = 1..Len(inbox) /\ DOMAIN inbox' = 1..Len(inbox')
    BY <1>1, <2>2
  <2>4. QED BY <2>2, <2>3
<1>3. ConnectionTypeOK'
  BY <1>1, <1>2 DEF ConnectionInv, ConnectionTypeOK
<1>4. \A i \in DOMAIN inbox : inbox[i] = Continue /\ continued
  <2>1. \A i \in DOMAIN inbox : inbox[i] \in Messages /\ Nothing \notin Messages
    BY <1>1 DEF Messages, Nothing, Continue, Faults, Answers
  <2>2. QED BY <2>1 DEF ConnectionInv, Unread, InProgress
<1>5. Unread'
  BY <1>1, <1>2, <1>4 DEF Unread
<1>6. Replied'
  BY <1>1, <1>2 DEF ConnectionInv, Replied
<1>7. Refused'
  <2>1. replied'.kind = "final" => message # Continue /\ continued' = continued
    BY DEF Nothing
  <2>2. phase = "waiting" => out = "headers"
    BY DEF ConnectionInv, Replied
  <2>3. QED BY <1>1, <2>1, <2>2 DEF Refused
<1>8. outcome.kind = "status" => misread
  BY DEF ConnectionInv, OwnAnswer, Nothing
<1>9. OwnAnswer' /\ PlainIsNeverMisread' /\ Streamed'
  BY <1>1, <1>8 DEF ConnectionInv, OwnAnswer, PlainIsNeverMisread, Streamed, StreamIsWhole
<1>10. QED BY <1>3, <1>5, <1>6, <1>7, <1>9 DEF ConnectionInv

LEMMA Served ==
  ASSUME ConnectionInv, Server
  PROVE  ConnectionInv'
<1>1. CASE ServerContinues
  <2>1. /\ phase \in {"waiting", "silence", "sent"} /\ replied = Nothing /\ Send(Continue)
        /\ continued' = TRUE /\ replied' = replied
    BY <1>1 DEF ServerContinues, Busy
  <2>2. replied'.kind # "final" /\ Continue \in Messages
    BY <2>1 DEF Nothing, Messages
  <2>3. QED BY <2>1, <2>2, MessageSent
<1>2. ASSUME NEW s \in Final, NEW close \in BOOLEAN, ServerAnswers(s, close)
      PROVE  ConnectionInv'
  <2>1. /\ phase \in {"waiting", "silence", "sent"} /\ replied = Nothing
        /\ number \in Nat /\ continued \in BOOLEAN /\ continued' = continued
    BY <1>2 DEF ServerAnswers, Busy, ConnectionInv, ConnectionTypeOK
  <2>2. PICK message \in Answers :
          /\ Send(message) /\ replied' = message /\ message.of = number
          /\ message.early => phase = "waiting" /\ ~ continued
    <3>1. Answer(s, close, number) \in Answers
      BY <2>1 DEF Answer, Answers
    <3>2. /\ Answer(s, close, number).of = number
          /\ Answer(s, close, number).early => phase = "waiting" /\ ~ continued
      BY DEF Answer
    <3>3. Send(Answer(s, close, number)) /\ replied' = Answer(s, close, number)
      BY <1>2 DEF ServerAnswers
    <3>4. QED BY <3>1, <3>2, <3>3, Zenon
  <2>3. message # Continue /\ message \in Messages
    BY DEF Answers, Continue, Messages
  <2>4. QED BY <2>1, <2>2, <2>3, MessageSent
<1>3. CASE ServerFails
  <2>1. PICK fault \in Faults :
          /\ phase \in {"waiting", "silence", "sent"} /\ replied = Nothing /\ Send(fault)
          /\ replied' = fault /\ continued' = continued
    BY <1>3 DEF ServerFails, Busy
  <2>2. /\ fault # Continue /\ fault.kind # "final" /\ continued \in BOOLEAN
        /\ fault \in Messages
    BY DEF Faults, Continue, Messages, ConnectionInv, ConnectionTypeOK
  <2>3. QED BY <2>1, <2>2, MessageSent
<1>4. ASSUME NEW s \in Early \cup {None}, ServerDrops(s)
      PROVE  ConnectionInv'
  <2>1. /\ UNCHANGED <<request, number, phase, out, continued, replied, outcome, misread, stream>>
        /\ phase = "idle"
    BY <1>4 DEF ServerDrops
  <2>2. conn' \in Connections /\ conn'.class = conn.class
    BY <1>4 DEF ServerDrops, ConnectionInv, ConnectionTypeOK, Connections
  <2>3. inbox' \in Seq(Messages)
    <3>1. CASE s = None
      BY <1>4, <3>1 DEF ServerDrops, ConnectionInv, ConnectionTypeOK
    <3>2. CASE s # None
      <4>1. s \in Final /\ inbox' = <<Answer(s, TRUE, 0)>>
        BY <1>4, <3>2, ConnectionAssumption DEF ServerDrops
      <4>2. PICK message \in Messages : inbox' = <<message>>
        <5>1. Answer(s, TRUE, 0) \in Messages
          BY <4>1, <2>1 DEF Answer, Answers, Messages
        <5>2. QED BY <4>1, <5>1, Zenon
      <4>3. inbox' \in Seq(Messages)
        <5> QED BY <4>2
      <4>4. QED BY <4>3
    <3>3. QED BY <3>1, <3>2
  <2>4. ConnectionTypeOK'
    BY <2>1, <2>2, <2>3 DEF ConnectionInv, ConnectionTypeOK
  <2>5. Unread' /\ Replied' /\ Refused'
    BY <2>1 DEF ConnectionInv, Unread, Replied, Refused, InProgress
  <2>6. OwnAnswer' /\ PlainIsNeverMisread' /\ Streamed'
    BY <2>1, <2>2 DEF ConnectionInv, OwnAnswer, PlainIsNeverMisread, Streamed, StreamIsWhole
  <2>7. QED BY <2>4, <2>5, <2>6 DEF ConnectionInv
<1>5. QED BY <1>1, <1>2, <1>3, <1>4 DEF Server
-----------------------------------------------------------------------------
LEMMA ConnectionStarts == ConnectionInit => ConnectionInv
<1> SUFFICES ASSUME ConnectionInit PROVE ConnectionInv
  OBVIOUS
<1>1. conn \in Connections /\ stream \in Streams /\ request \in Requests
  BY DEF ConnectionInit, Fresh, NoStream, Connections, Streams, Requests
<1>2. inbox \in Seq(Messages)
  BY DEF ConnectionInit
<1>3. ConnectionTypeOK
  BY <1>1, <1>2 DEF ConnectionInit, ConnectionTypeOK
<1>4. Unread /\ Replied /\ Refused
  BY DEF ConnectionInit, Unread, Replied, Refused, InProgress, Nothing
<1>5. OwnAnswer /\ PlainIsNeverMisread
  BY DEF ConnectionInit, OwnAnswer, PlainIsNeverMisread, Nothing, Fresh
<1>6. Streamed
  BY DEF ConnectionInit, Streamed, StreamIsWhole, NoStream
<1>7. QED BY <1>3, <1>4, <1>5, <1>6 DEF ConnectionInv

LEMMA ConnectionSteps == ConnectionInv /\ [ConnectionNext]_connVars => ConnectionInv'
<1> SUFFICES ASSUME ConnectionInv, [ConnectionNext]_connVars PROVE ConnectionInv'
  OBVIOUS
<1>1. CASE ClientStep
  BY <1>1, Expected, Waited, AnswerRead, MisreadIsSound, TimedOut, BodyLeft DEF ClientStep
<1>2. CASE UNCHANGED connVars
  <2>1. ConnectionTypeOK' /\ Unread' /\ Replied' /\ Refused'
    BY <1>2 DEF connVars, ConnectionInv, ConnectionTypeOK, Unread, Replied, Refused
  <2>2. OwnAnswer' /\ PlainIsNeverMisread' /\ Streamed'
    BY <1>2 DEF connVars, ConnectionInv, OwnAnswer, PlainIsNeverMisread, Streamed, StreamIsWhole
  <2>3. QED BY <2>1, <2>2 DEF ConnectionInv
<1>3. QED BY <1>1, <1>2, Sent, SentInChunks, BodyRead, Served DEF ConnectionNext
-----------------------------------------------------------------------------
\* The waiter.

\* Where the loop of the waiter is.
Polled ==
  /\ wait \notin {"idle"} \cup Refusals => config \in Configs /\ Supported(config)
  /\ wait \in {"idle"} \cup Refusals => last = NoValue /\ attempts = 0 /\ sleeps = 0 /\ current = "waiting"
  /\ wait = "poll" => attempts = sleeps /\ (attempts = 0 \/ attempts < config.maxAttempts)
  /\ wait = "sleep" => attempts = sleeps + 1 /\ attempts < config.maxAttempts
  /\ wait \in {"poll", "sleep"} => current \notin {"success", "failure"}

WaiterInv == WaiterTypeOK /\ Polled /\ BoundedPolling /\ LastAnswerDecides
-----------------------------------------------------------------------------
\* The first acceptor that matches, if one does.
LEMMA DeciderIsFirst ==
  ASSUME NEW c \in Configs, NEW response
  PROVE  /\ Decider(c, response) \in 0..Len(c.acceptors)
         /\ Decider(c, response) = 0 =>
              \A j \in 1..Len(c.acceptors) : ~ Matches(c.acceptors[j], response)
         /\ Decider(c, response) > 0 =>
              /\ Matches(c.acceptors[Decider(c, response)], response)
              /\ \A j \in 1..Len(c.acceptors) :
                   Matches(c.acceptors[j], response) => Decider(c, response) <= j
<1> DEFINE n == Len(c.acceptors)
           Hit(j) == Matches(c.acceptors[j], response)
           T == {j \in 1..n : Hit(j)}
           Good(i) == /\ i > 0 => Hit(i)
                      /\ \A j \in 1..n : Hit(j) => i > 0 /\ i <= j
<1>1. n \in Nat
  BY WaiterAssumption
<1>2. Decider(c, response) = CHOOSE i \in 0..n : Good(i)
  BY DEF Decider
<1> HIDE DEF n, Hit
<1>3. \E i \in 0..n : Good(i)
  <2>1. CASE T = {}
    <3>1. 0 \in 0..n /\ Good(0)
      BY <1>1, <2>1
    <3>2. QED BY <3>1
  <2>2. CASE T # {}
    <3>1. PICK i \in T : \A j \in T : i <= j
      <4>1. T \in SUBSET (1..n)
        OBVIOUS
      <4> HIDE DEF T
      <4>2. QED BY <4>1, <1>1, <2>2, LeastIndex
    <3>2. i \in 0..n /\ Good(i)
      BY <3>1, <1>1
    <3>3. QED BY <3>2
  <2>3. QED BY <2>1, <2>2
<1>4. Decider(c, response) \in 0..n /\ Good(Decider(c, response))
  <2> HIDE DEF Good
  <2> QED BY <1>2, <1>3
<1>5. QED BY <1>1, <1>4 DEF n, Hit

LEMMA DeciderSays ==
  ASSUME NEW c \in Configs, NEW response, NEW state
  PROVE  /\ FirstSays(c, response, state) <=>
              Decider(c, response) > 0 /\ c.acceptors[Decider(c, response)].state = state
         /\ Decider(c, response) = 0 <=>
              \A i \in DOMAIN c.acceptors : ~ Matches(c.acceptors[i], response)
<1> DEFINE n == Len(c.acceptors)
           d == Decider(c, response)
           Hit(j) == Matches(c.acceptors[j], response)
<1>1. n \in Nat /\ DOMAIN c.acceptors = 1..n
  BY WaiterAssumption
<1>2. /\ d \in 0..n
      /\ d = 0 => \A j \in 1..n : ~ Hit(j)
      /\ d > 0 => Hit(d) /\ \A j \in 1..n : Hit(j) => d <= j
  BY DeciderIsFirst
<1>3. FirstSays(c, response, state) <=>
        \E i \in 1..n : Hit(i) /\ c.acceptors[i].state = state /\ \A j \in 1..(i - 1) : ~ Hit(j)
  BY <1>1 DEF FirstSays
<1> HIDE DEF n, d, Hit
<1>4. ASSUME NEW i \in 1..n, Hit(i), \A j \in 1..(i - 1) : ~ Hit(j)
      PROVE  i = d
  <2>1. d > 0 /\ d <= i /\ Hit(d)
    BY <1>1, <1>2, <1>4
  <2>2. d < i => d \in 1..(i - 1)
    BY <1>1, <1>2, <2>1
  <2>3. QED BY <2>1, <2>2, <1>1, <1>2, <1>4
<1>5. ASSUME d > 0 PROVE d \in 1..n /\ Hit(d) /\ \A j \in 1..(d - 1) : ~ Hit(j)
  BY <1>1, <1>2, <1>5
<1>6. FirstSays(c, response, state) <=> d > 0 /\ c.acceptors[d].state = state
  BY <1>1, <1>3, <1>4, <1>5
<1>7. d = 0 <=> \A i \in 1..n : ~ Hit(i)
  BY <1>1, <1>2
<1>8. QED BY <1>1, <1>6, <1>7 DEF d, Hit
-----------------------------------------------------------------------------
LEMMA WaiterStarts == WaiterInit => WaiterInv
<1> SUFFICES ASSUME WaiterInit PROVE WaiterInv
  OBVIOUS
<1>1. WaiterTypeOK /\ Polled
  BY DEF WaiterInit, WaiterTypeOK, Polled, Refusals
<1>2. BoundedPolling /\ LastAnswerDecides
  BY DEF WaiterInit, BoundedPolling, LastAnswerDecides, Refusals
<1>3. QED BY <1>1, <1>2 DEF WaiterInv

LEMMA WaitStarted ==
  ASSUME WaiterInv, NoWaiter \/ \E c \in Configs : BeginWait(c)
  PROVE  WaiterInv'
<1>1. /\ wait = "idle" /\ UNCHANGED <<api, current, attempts, sleeps, last>>
      /\ wait' \in {"poll", "ValueError", "WaiterConfigError"}
      /\ wait' = "poll" => config' \in Configs /\ Supported(config')
      /\ wait' # "poll" => config' = config
  BY DEF NoWaiter, BeginWait, Supported
<1>2. last = NoValue /\ attempts = 0 /\ sleeps = 0
  BY <1>1 DEF WaiterInv, Polled
<1>3. current = "waiting"
  BY <1>1 DEF WaiterInv, Polled
<1>4. WaiterTypeOK'
  BY <1>1 DEF WaiterInv, WaiterTypeOK, Refusals
<1>5. Polled'
  BY <1>1, <1>2, <1>3 DEF Polled, Refusals
<1>6. BoundedPolling'
  BY <1>1, <1>2, WaiterAssumption DEF BoundedPolling, Refusals
<1>7. LastAnswerDecides'
  BY <1>1, <1>2 DEF LastAnswerDecides
<1>8. QED BY <1>4, <1>5, <1>6, <1>7 DEF WaiterInv

LEMMA WaitRaised ==
  ASSUME WaiterInv, NEW reply, PollRaises(reply)
  PROVE  WaiterInv'
<1>1. wait = "poll" /\ wait' = "raised"
      /\ UNCHANGED <<config, api, current, attempts, sleeps, last>>
  BY DEF PollRaises
<1>2. WaiterTypeOK' /\ Polled' /\ BoundedPolling' /\ LastAnswerDecides'
  BY <1>1 DEF WaiterInv, WaiterTypeOK, Polled, BoundedPolling, LastAnswerDecides, Ended, Refusals
<1>3. QED BY <1>2 DEF WaiterInv

\* What a poll that returns decides.
LEMMA PollDecides ==
  ASSUME WaiterInv, NEW reply, Poll(reply)
  PROVE  /\ config \in Configs /\ Supported(config) /\ wait = "poll"
         /\ wait' \in {"success", "failure", "unexpected", "exceeded", "sleep"}
         /\ \A state \in {"success", "failure"} :
              wait' = state <=> FirstSays(config, reply.response, state)
         /\ wait' = "unexpected" <=>
              /\ reply.response.error # NoValue
              /\ \A i \in DOMAIN config.acceptors : ~ Matches(config.acceptors[i], reply.response)
         /\ current' \in {"waiting", "success", "failure", "retry"}
         /\ wait' = "sleep" => current' \notin {"success", "failure"} /\ attempts + 1 < config.maxAttempts
         /\ wait' = "exceeded" => attempts + 1 >= config.maxAttempts
<1> DEFINE i == Decider(config, reply.response)
           state == IF i = 0 THEN current ELSE config.acceptors[i].state
<1>1. /\ config \in Configs /\ Supported(config) /\ wait = "poll" /\ attempts \in Nat
      /\ current \in {"waiting", "success", "failure", "retry"} \ {"success", "failure"}
  BY DEF WaiterInv, Polled, WaiterTypeOK, Poll, Refusals
<1>2. config.maxAttempts \in Nat /\ DOMAIN config.acceptors = 1..Len(config.acceptors)
      /\ Len(config.acceptors) \in Nat
      /\ \A j \in DOMAIN config.acceptors : config.acceptors[j].state \in {"success", "failure", "retry"}
  BY <1>1, WaiterAssumption
<1>3. i \in 0..Len(config.acceptors)
  BY <1>1, DeciderIsFirst
<1>4. i # 0 => config.acceptors[i].state \in {"success", "failure", "retry"}
  BY <1>2, <1>3
<1>5. /\ attempts' = attempts + 1 /\ current' = state
      /\ wait' = IF i = 0 /\ reply.response.error # NoValue THEN "unexpected"
                 ELSE IF state \in {"success", "failure"} THEN state
                 ELSE IF attempts' >= config.maxAttempts THEN "exceeded"
                 ELSE "sleep"
  BY DEF Poll, NextState
<1>6. /\ \A s \in {"success", "failure"} :
           FirstSays(config, reply.response, s) <=> i > 0 /\ config.acceptors[i].state = s
      /\ i = 0 <=> \A j \in DOMAIN config.acceptors : ~ Matches(config.acceptors[j], reply.response)
  BY <1>1, DeciderSays
<1> HIDE DEF i
<1>7. CASE i = 0
  <2>1. state = current
    BY <1>7
  <2> HIDE DEF state
  <2>2. wait' \in {"unexpected", "exceeded", "sleep"}
    BY <1>1, <1>5, <1>7, <2>1
  <2>3. QED BY <1>1, <1>2, <1>5, <1>6, <1>7, <2>1, <2>2
<1>8. CASE i # 0
  <2>1. state = config.acceptors[i].state /\ i > 0
    BY <1>2, <1>3, <1>8
  <2> HIDE DEF state
  <2>2. state \in {"success", "failure", "retry"}
    BY <1>4, <1>8, <2>1
  <2>3. QED BY <1>1, <1>2, <1>5, <1>6, <1>8, <2>1, <2>2
<1>9. QED BY <1>7, <1>8

LEMMA PollIsSound ==
  ASSUME WaiterInv, NEW reply, Poll(reply)
  PROVE  WaiterInv'
<1>1. /\ attempts' = attempts + 1 /\ last' = reply.response
      /\ UNCHANGED <<config, api, sleeps>>
  BY DEF Poll
<1>2. /\ config \in Configs /\ Supported(config) /\ wait = "poll"
      /\ wait' \in {"success", "failure", "unexpected", "exceeded", "sleep"}
      /\ current' \in {"waiting", "success", "failure", "retry"}
      /\ wait' = "sleep" => current' \notin {"success", "failure"} /\ attempts + 1 < config.maxAttempts
      /\ wait' = "exceeded" => attempts + 1 >= config.maxAttempts
  BY PollDecides
<1>3. /\ attempts \in Nat /\ sleeps \in Nat /\ attempts = sleeps
      /\ attempts = 0 \/ attempts < config.maxAttempts
      /\ config.maxAttempts \in Nat
  BY <1>2, WaiterAssumption DEF WaiterInv, WaiterTypeOK, Polled
<1>4. WaiterTypeOK'
  BY <1>1, <1>2, <1>3 DEF WaiterInv, WaiterTypeOK, Ended
<1>5. Polled'
  BY <1>1, <1>2, <1>3 DEF Polled, Refusals
<1>6. BoundedPolling'
  BY <1>1, <1>2, <1>3 DEF BoundedPolling
<1>7. LastAnswerDecides'
  <2>1. /\ \A state \in {"success", "failure"} :
             wait' = state <=> FirstSays(config', last', state)
        /\ wait' = "unexpected" <=>
             /\ last'.error # NoValue
             /\ \A i \in DOMAIN config'.acceptors : ~ Matches(config'.acceptors[i], last')
    BY <1>1, PollDecides
  <2>2. QED BY <2>1 DEF LastAnswerDecides
<1>8. QED BY <1>4, <1>5, <1>6, <1>7 DEF WaiterInv

LEMMA Slept ==
  ASSUME WaiterInv, Sleep
  PROVE  WaiterInv'
<1>1. /\ wait = "sleep" /\ wait' = "poll" /\ sleeps' = sleeps + 1
      /\ UNCHANGED <<config, api, current, attempts, last>>
  BY DEF Sleep
<1>2. attempts \in Nat /\ sleeps \in Nat /\ attempts = sleeps + 1 /\ attempts < config.maxAttempts
  BY <1>1 DEF WaiterInv, WaiterTypeOK, Polled
<1>3. WaiterTypeOK' /\ Polled' /\ BoundedPolling'
  BY <1>1, <1>2 DEF WaiterInv, WaiterTypeOK, Polled, BoundedPolling, Refusals
<1>4. LastAnswerDecides'
  BY <1>1 DEF WaiterInv, LastAnswerDecides
<1>5. QED BY <1>3, <1>4 DEF WaiterInv

LEMMA WaiterSteps ==
  ASSUME WaiterInv,
         \/ NoWaiter \/ \E c \in Configs : BeginWait(c)
         \/ \E reply : PollRaises(reply) \/ Poll(reply)
         \/ Sleep \/ UNCHANGED waiterVars
  PROVE  WaiterInv'
<1>1. CASE UNCHANGED waiterVars
  BY <1>1 DEF waiterVars, WaiterInv, WaiterTypeOK, Polled, BoundedPolling, LastAnswerDecides
<1>2. QED BY <1>1, WaitStarted, WaitRaised, PollIsSound, Slept
-----------------------------------------------------------------------------
\* The connection only takes steps of its own, and so does the waiter.
LEMMA StepsOfParts ==
  ASSUME Next
  PROVE  /\ [ConnectionNext]_connVars
         /\ \/ NoWaiter \/ \E c \in Configs : BeginWait(c)
            \/ \E reply : PollRaises(reply) \/ Poll(reply)
            \/ Sleep \/ UNCHANGED waiterVars
<1> DEFINE WaiterStep == \/ NoWaiter \/ \E c \in Configs : BeginWait(c)
                         \/ \E reply : PollRaises(reply) \/ Poll(reply)
                         \/ Sleep \/ UNCHANGED waiterVars
<1>1. CASE Other \/ StartPoll
  <2>1. UNCHANGED waiterVars
    BY <1>1 DEF Other, StartPoll
  <2>2. SendChunked \/ \E r \in Requests : r.kind # "chunked" /\ SendRequest(r)
    BY <1>1 DEF Other, StartPoll, Requests
  <2>3. QED BY <2>1, <2>2 DEF ConnectionNext
<1>2. CASE OtherDone \/ Evolve
  BY <1>2 DEF OtherDone, Evolve
<1>3. CASE StartWait \/ EndPoll \/ Rest
  <2>1. UNCHANGED connVars
    BY <1>3 DEF StartWait, EndPoll, Rest
  <2>2. WaiterStep
    BY <1>3 DEF StartWait, EndPoll, Rest
  <2>3. QED BY <2>1, <2>2
<1>4. CASE Transport \/ Reading \/ Serve
  <2>1. UNCHANGED waiterVars
    BY <1>4 DEF Transport, Reading, Serve
  <2>2. ConnectionNext
    BY <1>4 DEF Transport, Reading, Serve, ConnectionNext, Server
  <2>3. QED BY <2>1, <2>2
<1>5. QED BY <1>1, <1>2, <1>3, <1>4 DEF Next

PartsInv == ConnectionInv /\ WaiterInv

LEMMA PartsStep == PartsInv /\ [Next]_vars => PartsInv'
<1> SUFFICES ASSUME PartsInv, [Next]_vars PROVE PartsInv'
  OBVIOUS
<1>1. CASE Next
  BY <1>1, StepsOfParts, ConnectionSteps, WaiterSteps DEF PartsInv
<1>2. CASE UNCHANGED vars
  <2>1. UNCHANGED connVars /\ UNCHANGED waiterVars
    BY <1>2 DEF vars
  <2>2. QED BY <2>1, ConnectionSteps, WaiterSteps DEF PartsInv
<1>3. QED BY <1>1, <1>2

LEMMA PartsHold == Spec => []PartsInv
<1>1. Init => PartsInv
  BY ConnectionStarts, WaiterStarts DEF Init, PartsInv
<1>2. QED BY <1>1, PartsStep, PTL DEF Spec

\* The caller of a request gets the status that the server gave to it, unless the
\* request is one that may find the response class of an early answer (awsrequest.py
\* 112-122, 199-219; with any number of requests, of waits and of connections lost).
THEOREM AnswersAreOwn == Spec => []AnswersReachTheirCallers
<1>1. PartsInv => AnswersReachTheirCallers
  BY DEF PartsInv, ConnectionInv, AnswersReachTheirCallers
<1>2. QED BY <1>1, PartsHold, PTL

\* A refused body is never sent (awsrequest.py 148-156, 194-219).
THEOREM RefusedBodiesStay == Spec => []RefusedBodyStays
<1>1. PartsInv => RefusedBodyStays
  BY DEF PartsInv, ConnectionInv, Refused, RefusedBodyStays
<1>2. QED BY <1>1, PartsHold, PTL

\* What a stream says of its end is right, for any lengths and any reads (response.py
\* 69-84).
THEOREM StreamsAreWhole == Spec => []StreamIsWhole
<1>1. PartsInv => StreamIsWhole
  BY DEF PartsInv, ConnectionInv, Streamed
<1>2. QED BY <1>1, PartsHold, PTL

\* A waiter polls as often as it may, for any bound, and the last response decides, for
\* any acceptors and any replies (waiter.py 316-348).
THEOREM WaitersObey == Spec => []WaitsAsConfigured
<1>1. PartsInv => WaitsAsConfigured
  BY DEF PartsInv, WaiterInv, WaitsAsConfigured
<1>2. QED BY <1>1, PartsHold, PTL
-----------------------------------------------------------------------------
\* What the server has said of the resource between a poll and its reply.
Sought ==
  /\ use = "poll" /\ phase \in {"idle", "body"} => outcome.kind \in {"status", "error"}
  /\ use = "poll" /\ replied.kind = "final" =>
       seen \in World /\ replied.status \in {Describe[seen].status, 500}

IInv == PartsInv /\ TypeOK /\ Sought /\ SuccessIsSeen

\* The steps of the transport and of the server do not change the request, and leave
\* the caller with a status or an error.
LEMMA TransportEnds ==
  ASSUME ConnectionInv, ClientStep \/ \E amount \in Lengths \cup {0, None} : ReadBody(amount)
  PROVE  /\ request' = request /\ replied' = replied
         /\ phase # "idle"
         /\ phase' \in {"idle", "body"} =>
              outcome'.kind \in {"status", "error"} \/ (phase = "body" /\ outcome' = outcome)
<1>1. ASSUME NEW s, NEW close, Deliver(s, close) PROVE outcome'.kind = "status"
  BY <1>1 DEF Deliver
<1>2. ASSUME Lost PROVE outcome'.kind = "error"
  BY <1>2 DEF Lost, Error
<1>3. CASE HandleExpect
  <2>1. phase = "waiting" /\ request' = request /\ replied' = replied
    BY <1>3 DEF HandleExpect
  <2>2. phase' \in {"sent", "answered", "spins"} \/ Lost
    BY <1>3 DEF HandleExpect
  <2>3. QED BY <2>1, <2>2, <1>2
<1>4. CASE ExpectTimeout \/ SendBody
  BY <1>4 DEF ExpectTimeout, SendBody
<1>5. CASE ReadAnswer
  <2>1. phase \in {"answered", "sent"} /\ request' = request /\ replied' = replied
    BY <1>5 DEF ReadAnswer
  <2>2. Lost \/ \E s, close : Deliver(s, close)
    BY <1>5 DEF ReadAnswer
  <2>3. QED BY <2>1, <2>2, <1>1, <1>2
<1>6. CASE Misread \/ ReadTimeout
  <2>1. phase = "sent" /\ request' = request /\ replied' = replied
    BY <1>6 DEF Misread, ReadTimeout
  <2>2. Lost \/ \E s, close : Deliver(s, close)
    BY <1>6 DEF Misread, ReadTimeout
  <2>3. QED BY <2>1, <2>2, <1>1, <1>2
<1>7. CASE LeaveBody \/ \E amount \in Lengths \cup {0, None} : ReadBody(amount)
  BY <1>7 DEF LeaveBody, ReadBody
<1>8. QED BY <1>3, <1>4, <1>5, <1>6, <1>7 DEF ClientStep

\* A reply that lets the waiter succeed is the server's.
LEMMA SuccessHasASource ==
  ASSUME IInv, EndPoll, wait' = "success"
  PROVE  seen \in Goal[config]
<1>1. /\ use = "poll" /\ phase = "idle" /\ request.kind = "plain"
      /\ outcome.kind \in {"status", "error"}
  BY DEF EndPoll, IInv, TypeOK, Sought
<1>2. PICK reply \in Replies \cup {Reply} : Poll(reply)
  BY DEF EndPoll, PollRaises
<1>3. /\ config \in Configs /\ Supported(config)
      /\ FirstSays(config, reply.response, "success")
  BY <1>2, PollDecides DEF IInv, PartsInv
<1>4. reply \notin Replies
  BY <1>3, TransferAssumption
<1>5. reply = Reply /\ ~ Escapes(reply)
  BY <1>2, <1>4 DEF Poll
<1>6. outcome.kind = "status"
  <2>1. outcome.kind = "error" => Escapes(Reply)
    BY DEF Reply, Escapes
  <2>2. QED BY <1>1, <1>5, <2>1
<1>7. /\ replied.kind = "final" /\ outcome.status = replied.status
      /\ seen \in World /\ replied.status \in {Describe[seen].status, 500}
  BY <1>1, <1>6 DEF IInv, PartsInv, ConnectionInv, OwnAnswer, PlainIsNeverMisread, Sought
<1>8. outcome.status = Describe[seen].status => Reply.response = Describe[seen]
  BY <1>6 DEF Reply
<1>9. outcome.status # Describe[seen].status => Reply.response = Failure(500)
  BY <1>6, <1>7 DEF Reply
<1>10. QED BY <1>3, <1>5, <1>7, <1>8, <1>9, TransferAssumption

LEMMA IInvStarts == Init => IInv
<1> SUFFICES ASSUME Init PROVE IInv
  OBVIOUS
<1>1. PartsInv
  BY ConnectionStarts, WaiterStarts DEF Init, PartsInv
<1>2. TypeOK
  BY <1>1, TransferAssumption DEF Init, TypeOK, PartsInv, ConnectionInv, WaiterInv, ConnectionInit
<1>3. Sought /\ SuccessIsSeen
  BY DEF Init, WaiterInit, Sought, SuccessIsSeen
<1>4. QED BY <1>1, <1>2, <1>3 DEF IInv

LEMMA IInvSteps == IInv /\ [Next]_vars => IInv'
<1> SUFFICES ASSUME IInv, [Next]_vars PROVE IInv'
  OBVIOUS
<1>1. PartsInv' /\ ConnectionTypeOK' /\ WaiterTypeOK'
  BY PartsStep DEF IInv, PartsInv, ConnectionInv, WaiterInv
<1>2. CASE UNCHANGED vars
  <2>1. /\ UNCHANGED <<connVars, waiterVars, world, seen, use, requests>>
    BY <1>2 DEF vars, userVars
  <2>2. TypeOK' /\ Sought' /\ SuccessIsSeen'
    BY <1>1, <2>1 DEF connVars, waiterVars, IInv, TypeOK, Sought, SuccessIsSeen
  <2>3. QED BY <1>1, <2>2 DEF IInv
<1>3. CASE Other
  <2>1. /\ use' = "other" /\ requests' = requests + 1 /\ requests < MaxRequests
        /\ UNCHANGED <<wait, config, world, seen>>
    BY <1>3 DEF Other, waiterVars
  <2>2. requests' \in 0..MaxRequests
    BY <2>1, TransferAssumption DEF IInv, TypeOK
  <2>3. TypeOK' /\ Sought' /\ SuccessIsSeen'
    BY <1>1, <2>1, <2>2 DEF IInv, TypeOK, Sought, SuccessIsSeen
  <2>4. QED BY <1>1, <2>3 DEF IInv
<1>4. CASE OtherDone
  <2>1. /\ use' = "none" /\ phase = "idle"
        /\ UNCHANGED <<phase, wait, config, world, seen, requests>>
    BY <1>4 DEF OtherDone, connVars, waiterVars
  <2>2. TypeOK' /\ Sought' /\ SuccessIsSeen'
    BY <1>1, <2>1 DEF IInv, TypeOK, Sought, SuccessIsSeen
  <2>3. QED BY <1>1, <2>2 DEF IInv
<1>5. CASE StartWait
  <2>1. /\ UNCHANGED <<connVars, world, seen, use, requests>>
        /\ wait = "idle" /\ wait' # "success"
    BY <1>5 DEF StartWait, userVars, NoWaiter, BeginWait
  <2>2. use # "poll"
    BY <2>1 DEF IInv, TypeOK
  <2>3. TypeOK' /\ Sought' /\ SuccessIsSeen'
    BY <1>1, <2>1, <2>2 DEF IInv, TypeOK, Sought, SuccessIsSeen, connVars
  <2>4. QED BY <1>1, <2>3 DEF IInv
<1>6. CASE StartPoll
  <2> DEFINE r == [kind |-> "plain", streamed |-> FALSE]
  <2>1. /\ use' = "poll" /\ wait' = "poll" /\ SendRequest(r)
        /\ UNCHANGED <<world, seen, requests>>
    BY <1>6 DEF StartPoll, waiterVars
  <2>2. /\ request' = r /\ phase' = "sent" /\ replied' = Nothing
    BY <2>1 DEF SendRequest, New
  <2>3. replied'.kind # "final" /\ request'.kind = "plain" /\ ~ request'.streamed
    BY <2>2 DEF Nothing
  <2> HIDE DEF r
  <2>4. TypeOK' /\ Sought' /\ SuccessIsSeen'
    BY <1>1, <2>1, <2>2, <2>3 DEF IInv, TypeOK, Sought, SuccessIsSeen
  <2>5. QED BY <1>1, <2>4 DEF IInv
<1>7. CASE EndPoll
  <2>1. /\ use' = "none" /\ phase = "idle" /\ UNCHANGED <<phase, world, seen, requests>>
        /\ config' = config
    BY <1>7 DEF EndPoll, connVars, PollRaises, Poll
  <2>2. TypeOK' /\ Sought'
    BY <1>1, <2>1 DEF IInv, TypeOK, Sought
  <2>3. SuccessIsSeen'
    BY <1>7, <2>1, SuccessHasASource DEF SuccessIsSeen
  <2>4. QED BY <1>1, <2>2, <2>3 DEF IInv
<1>8. CASE Rest
  <2>1. /\ UNCHANGED <<connVars, world, seen, use, requests>>
        /\ wait = "sleep" /\ wait' = "poll"
    BY <1>8 DEF Rest, userVars, Sleep
  <2>2. TypeOK' /\ Sought' /\ SuccessIsSeen'
    BY <1>1, <2>1 DEF IInv, TypeOK, Sought, SuccessIsSeen, connVars
  <2>3. QED BY <1>1, <2>2 DEF IInv
<1>9. CASE Transport \/ Reading
  <2>1. /\ UNCHANGED <<wait, config, world, seen, use, requests>>
        /\ ClientStep \/ \E amount \in Lengths \cup {0, None} : ReadBody(amount)
    BY <1>9 DEF Transport, Reading, waiterVars, userVars
  <2>2. /\ request' = request /\ replied' = replied /\ phase # "idle"
        /\ phase' \in {"idle", "body"} =>
             outcome'.kind \in {"status", "error"} \/ (phase = "body" /\ outcome' = outcome)
    BY <2>1, TransportEnds DEF IInv, PartsInv
  <2>3. TypeOK'
    BY <1>1, <2>1, <2>2 DEF IInv, TypeOK
  <2>4. Sought' /\ SuccessIsSeen'
    BY <2>1, <2>2 DEF IInv, Sought, SuccessIsSeen
  <2>5. QED BY <1>1, <2>3, <2>4 DEF IInv
<1>10. CASE Serve
  <2>1. /\ UNCHANGED <<wait, config, use, requests, request, phase, outcome>>
    BY <1>10 DEF Serve, ServerContinues, ServerAnswers, ServerFails, ServerDrops, Send,
                 waiterVars, userVars
  <2>2. ASSUME NEW s \in Final, NEW close \in BOOLEAN, ServerAnswers(s, close),
               use = "poll" => s \in {Describe[world].status, 500},
               seen' = IF use = "poll" THEN world ELSE seen,
               world' = IF request.kind # "plain" /\ s = 200 /\ world = Absent THEN Created ELSE world
        PROVE  TypeOK' /\ Sought' /\ SuccessIsSeen'
    <3>1. world \in World /\ world' \in World /\ seen' \in World \cup {None}
      BY <2>2, TransferAssumption DEF IInv, TypeOK
    <3>2. replied'.status = s
      BY <2>2 DEF ServerAnswers, Answer
    <3>3. phase \in {"waiting", "silence", "sent"}
      BY <2>2 DEF ServerAnswers, Busy
    <3>4. TypeOK'
      BY <1>1, <2>1, <3>1 DEF IInv, TypeOK
    <3>5. Sought'
      <4>1. use = "poll" => seen' = world /\ s \in {Describe[world].status, 500}
        BY <2>2
      <4>2. use = "poll" => seen' \in World /\ replied'.status \in {Describe[seen'].status, 500}
        BY <4>1, <3>2 DEF IInv, TypeOK
      <4>3. QED BY <2>1, <3>3, <4>2 DEF Sought
    <3>6. SuccessIsSeen'
      <4>1. wait = "success" => seen' = seen
        BY <2>2 DEF IInv, TypeOK
      <4>2. QED BY <2>1, <4>1 DEF IInv, SuccessIsSeen
    <3>7. QED BY <3>4, <3>5, <3>6
  <2>3. ASSUME ServerContinues \/ ServerFails \/ \E s \in Early \cup {None} : ServerDrops(s),
               UNCHANGED <<world, seen>>
        PROVE  TypeOK' /\ Sought' /\ SuccessIsSeen'
    <3>1. replied' = replied \/ replied'.kind # "final"
      <4>1. ServerContinues => replied' = replied
        BY DEF ServerContinues
      <4>2. ServerFails => replied'.kind # "final"
        BY DEF ServerFails, Faults
      <4>3. ASSUME NEW s \in Early \cup {None}, ServerDrops(s) PROVE replied' = replied
        BY <4>3 DEF ServerDrops
      <4>4. QED BY <2>3, <4>1, <4>2, <4>3
    <3>2. TypeOK'
      BY <1>1, <2>1, <2>3 DEF IInv, TypeOK
    <3>3. Sought' /\ SuccessIsSeen'
      BY <2>1, <2>3, <3>1 DEF IInv, Sought, SuccessIsSeen
    <3>4. QED BY <3>2, <3>3
  <2>4. TypeOK' /\ Sought' /\ SuccessIsSeen'
    BY <1>10, <2>2, <2>3 DEF Serve
  <2>5. QED BY <1>1, <2>4 DEF IInv
<1>11. CASE Evolve
  <2>1. /\ UNCHANGED <<connVars, waiterVars, seen, use, requests>>
        /\ world' \in World
    BY <1>11 DEF Evolve, userVars
  <2>2. TypeOK' /\ Sought' /\ SuccessIsSeen'
    BY <1>1, <2>1 DEF IInv, TypeOK, Sought, SuccessIsSeen, connVars, waiterVars
  <2>3. QED BY <1>1, <2>2 DEF IInv
<1>12. QED BY <1>2, <1>3, <1>4, <1>5, <1>6, <1>7, <1>8, <1>9, <1>10, <1>11 DEF Next

LEMMA IInvHolds == Spec => []IInv
<1>1. QED BY IInvStarts, IInvSteps, PTL DEF Spec

\* The types of the connection, of the waiter and of their users, and what a poll
\* needs of the request that is in progress.
THEOREM TypesHold == Spec => []TypeOK
<1>1. IInv => TypeOK
  BY DEF IInv
<1>2. QED BY <1>1, IInvHolds, PTL

\* A wait that succeeds has seen the resource in a state that it waits for, for any
\* acceptors that tell those states from the others, whoever else uses the connection
\* and whatever the server does to it (waiter.py 321-348, client.py 245-248,
\* awsrequest.py 112-240).
THEOREM SuccessesAreSeen == Spec => []SuccessIsSeen
<1>1. IInv => SuccessIsSeen
  BY DEF IInv
<1>2. QED BY <1>1, IInvHolds, PTL
=============================================================================
