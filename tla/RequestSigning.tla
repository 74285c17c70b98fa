-------------------------- MODULE RequestSigning --------------------------
(***************************************************************************)
(* The attempts of one call of a client: the handlers that prepare the     *)
(* request dict (src/botocore/handlers.py), the request made of it for     *)
(* every attempt (endpoint.py, awsrequest.py), and the signers (signers.py,*)
(* auth.py) that write into it.                                            *)
(*                                                                         *)
(* A request dict outlives its attempts: headers are copied into each      *)
(* request, but the body, when it is a dict, is the same object, and the   *)
(* signature version 2 is written there.  A signature is a pair of the     *)
(* generation of the key and what it was computed over, so that the server *)
(* can compute it again from the message it gets.                          *)
(***************************************************************************)
EXTENDS Naturals, Sequences, SequencesExt

CONSTANTS
  Calls,        \* the calls a client may make
  None,         \* no value
  MaxAttempts,  \* bound on the attempts of a call
  MaxTime       \* bound on the clock; credentials are rotated at most as often

\* What a signature adds to a body (SigV2Auth) and to a url (SigV4QueryAuth).
BodyStamps == {"JCSAccessKeyId", "Timestamp", "SecurityToken", "Signature"}
UrlStamps == {"X-Amz-Credential", "X-Amz-Date", "X-Amz-Security-Token", "X-Amz-Signature"}

\* A call is [version, host, path, dns, headers, data, copy, location]: the
\* signature version, the labels of the host and the segments of the path of the
\* endpoint, whether the bucket is a DNS name, the headers and the parameters
\* given, whether the operation is CopySnapshot, or GetBucketLocation.  The
\* user gives no token, no parameter that a signature adds, and no second date to
\* the signers that know of one.
Versions == {"v2", "v3", "v4", "s3", "s3v4", "unsigned"}
CallShape(c) ==
  /\ c.version \in Versions
  /\ c.path \in Seq(STRING) \ {<< >>}
  /\ c.host # <<Head(c.path), "s3">>
  /\ None \notin {c.path, Append(c.path, "")}
  /\ "X-Amz-Security-Token" \notin DOMAIN c.headers
  /\ c.version \in {"v3", "s3"} => "X-Amz-Date" \notin DOMAIN c.headers
  /\ (BodyStamps \cup UrlStamps) \cap DOMAIN c.data = {}

ASSUME SigningAssumption ==
  /\ MaxAttempts \in Nat \ {0} /\ MaxTime \in Nat
  /\ \A c \in Calls : CallShape(c)

VARIABLES
  call,      \* the call
  dict,      \* its request dict
  creds,     \* the client's credentials
  clock,
  wire,      \* the last message sent
  signedAt,  \* clock and credentials of its last signature (history)
  attempts

signingVars == <<call, dict, creds, clock, wire, signedAt, attempts>>

Drop(f, n) == [k \in DOMAIN f \ {n} |-> f[k]]
With(f, n, v) == [k \in DOMAIN f \cup {n} |-> IF k = n THEN v ELSE f[k]]
Mac(gen, over) == [gen |-> gen, over |-> over]
-----------------------------------------------------------------------------
\* HTTPHeaders: assignment appends, and deletion takes out every value.
Del(r, h) == [r EXCEPT !.headers = Drop(@, h)]
Add(r, h, v) ==
  [r EXCEPT !.headers = With(@, h, IF h \in DOMAIN @ THEN Append(@[h], v) ELSE <<v>>)]
Put(r, h, v) == Add(Del(r, h), h, v)
-----------------------------------------------------------------------------
\* The signers: a request r signed with credentials c at time t.

\* SigV2Auth, into the body, leaving out the signature that is there (mutant:
\* it is signed as well).
V2Over(r) == [host |-> r.host, path |-> r.path, params |-> Drop(r.data, "Signature")]
SignV2_OverAll(r, c, t) ==
  LET stamped == [r EXCEPT !.data = With(With(@, "JCSAccessKeyId", c.gen), "Timestamp", t)]
  IN  [stamped EXCEPT !.data = With(@, "Signature", Mac(c.gen, [host |-> r.host, path |-> r.path,
                                                                params |-> stamped.data]))]
SignV2(r, c, t) ==
  LET dated == With(With(r.data, "JCSAccessKeyId", c.gen), "Timestamp", t)
      stamped == [r EXCEPT !.data = IF c.token THEN With(dated, "SecurityToken", c.gen) ELSE dated]
  IN  [stamped EXCEPT !.data = With(@, "Signature", Mac(c.gen, V2Over(stamped)))]

\* SigV3Auth: only the date is signed.
SignV3(r, c, t) ==
  LET dated == Put(r, "Date", t)
      full == IF c.token THEN Put(dated, "X-Amz-Security-Token", c.gen) ELSE dated
  IN  Put(full, "X-Amzn-Authorization", Mac(c.gen, full.headers["Date"]))

\* _set_necessary_date_headers: the given Date is replaced, or X-Amz-Date set
\* (mutant: X-Amz-Date is set over the one that is there).
DateHeaders_Keep(r, t) ==
  IF "Date" \in DOMAIN r.headers THEN Del(Put(r, "Date", t), "X-Amz-Date")
  ELSE Add(r, "X-Amz-Date", t)

DateHeaders(r, t) ==
  IF "Date" \in DOMAIN r.headers THEN Del(Put(r, "Date", t), "X-Amz-Date")
  ELSE Put(r, "X-Amz-Date", t)

\* canonical_request and credential_scope: all headers, whatever the body is.
CanonicalRequest(r, t, region) ==
  [host |-> r.host, path |-> r.path, query |-> r.query, headers |-> r.headers,
   body |-> r.data, time |-> t, region |-> region]

\* _modify_request_before_signing.
BeforeV4(r, c, t) ==
  LET dated == DateHeaders(Del(r, "Authorization"), t)
  IN  IF c.token THEN Put(dated, "X-Amz-Security-Token", c.gen) ELSE dated

\* add_auth of SigV4Auth, and of S3SigV4Auth with the checksum of the payload.
SignV4(r, c, t) ==
  LET b == BeforeV4(r, c, t) IN Put(b, "Authorization", Mac(c.gen, CanonicalRequest(b, t, "here")))

SignS3V4(r, c, t) ==
  LET b == Put(BeforeV4(r, c, t), "X-Amz-Content-SHA256", r.data)
  IN  Put(b, "Authorization", Mac(c.gen, CanonicalRequest(b, t, "here")))

\* SigV4QueryAuth: no headers; the parameters and the signature go into the url.
SignQuery(r, c, t, region) ==
  LET all == [n \in DOMAIN r.query \cup DOMAIN r.data |->
                IF n \in DOMAIN r.data THEN r.data[n] ELSE r.query[n]]
      dated == With(With(all, "X-Amz-Credential", c.gen), "X-Amz-Date", t)
      bare == [r EXCEPT !.headers = << >>, !.data = << >>,
                        !.query = IF c.token THEN With(dated, "X-Amz-Security-Token", c.gen)
                                  ELSE dated]
  IN  [bare EXCEPT !.query = With(@, "X-Amz-Signature",
                                  Mac(c.gen, CanonicalRequest(bare, t, region)))]

\* HmacV1Auth: the date, the x-amz headers and the resource, which is
\* auth_path when there is one.
Resource(r) == IF r.auth = None THEN r.path ELSE r.auth
XAmz(headers) == [h \in DOMAIN headers \cap {"X-Amz-Security-Token", "X-Amz-Custom"} |-> headers[h]]
SignHmacV1(r, c, t) ==
  LET token == IF c.token THEN Put(r, "X-Amz-Security-Token", c.gen) ELSE r
      b == Put(token, "Date", t)
  IN  Put(b, "Authorization",
          Mac(c.gen, [date |-> b.headers["Date"], amz |-> XAmz(b.headers), resource |-> Resource(b)]))
-----------------------------------------------------------------------------
\* Handlers.

\* fix_s3_host: the bucket moves from the path into the host (mutants: an
\* operation on a bucket gets no final slash; the path is signed as it ends up).
FixS3Host_NoSlash(r, c) ==
  IF r.auth # None \/ c.location THEN r
  ELSE IF c.version # "s3" \/ ~ c.dns THEN [r EXCEPT !.auth = r.path]
  ELSE [r EXCEPT !.auth = r.path, !.host = <<Head(r.path), "s3">>,
                 !.path = IF Len(r.path) = 1 THEN <<"">> ELSE Tail(r.path)]

FixS3Host(r, c) ==
  IF r.auth # None \/ c.location THEN r
  ELSE IF c.version # "s3" \/ ~ c.dns THEN [r EXCEPT !.auth = r.path]
  ELSE [r EXCEPT !.auth = IF Len(r.path) = 1 THEN Append(r.path, "") ELSE r.path,
                 !.host = <<Head(r.path), "s3">>,
                 !.path = IF Len(r.path) = 1 THEN <<"">> ELSE Tail(r.path)]

\* RequestSigner.sign: choose-signer (disable_signing), before-sign, add_auth.
Sign(r, c, k, t) ==
  LET f == IF c.version \in {"s3", "s3v4"} THEN FixS3Host(r, c) ELSE r
  IN  CASE c.version = "v2" -> SignV2(f, k, t)
        [] c.version = "v3" -> SignV3(f, k, t)
        [] c.version = "v4" -> SignV4(f, k, t)
        [] c.version = "s3" -> SignHmacV1(f, k, t)
        [] c.version = "s3v4" -> SignS3V4(f, k, t)
        [] c.version = "unsigned" -> f

\* create_request_object: headers copied, the body dict itself.
RequestObject(c, d) ==
  [host |-> c.host, path |-> c.path, query |-> << >>, auth |-> None, data |-> d.data,
   headers |-> [h \in DOMAIN d.headers |-> <<d.headers[h]>>]]

\* The handlers of before-parameter-build: base64_encode_user_data, sse_md5
\* and inject_account_id.  A text is the number of times it was encoded.
BuildParameters(p) ==
  LET user == IF "UserData" \in DOMAIN p THEN [p EXCEPT !["UserData"] = @ + 1] ELSE p
      sse == IF "SSECustomerKey" \in DOMAIN p /\ "SSECustomerKeyMD5" \notin DOMAIN p
             THEN With([user EXCEPT !["SSECustomerKey"] = @ + 1],
                       "SSECustomerKeyMD5", p["SSECustomerKey"])
             ELSE user
  IN  IF "accountId" \in DOMAIN p /\ p["accountId"] = None THEN [sse EXCEPT !["accountId"] = "-"]
      ELSE sse

\* copy_snapshot_encrypted: create_request gets no operation model, so nobody
\* is told of the request and nothing signs it; moved to the source region, it is
\* signed as a url, which takes the parameters without touching the body dict
\* (mutant: they are taken before the region of the copy is among them).
CopySnapshot_AskLater(c, d, k, t) ==
  LET asked == [d EXCEPT !.data = With(@, "DestinationRegion", "here")]
      url == SignQuery([RequestObject(c, d) EXCEPT !.host = <<"source">>], k, t, "there")
  IN  IF "PresignedUrl" \in DOMAIN d.data THEN d
      ELSE [asked EXCEPT !.data = With(@, "PresignedUrl", url)]

CopySnapshot(c, d, k, t) ==
  LET asked == [d EXCEPT !.data = With(@, "DestinationRegion", "here")]
      url == SignQuery([RequestObject(c, asked) EXCEPT !.host = <<"source">>], k, t, "there")
  IN  IF "PresignedUrl" \in DOMAIN d.data THEN d
      ELSE [asked EXCEPT !.data = With(@, "PresignedUrl", url)]

\* prepare: of the values of a header the last is sent.
Prepare(r) ==
  [host |-> r.host, path |-> r.path, query |-> r.query, data |-> r.data,
   headers |-> [h \in DOMAIN r.headers |-> Last(r.headers[h])]]
-----------------------------------------------------------------------------
NoMessage == [host |-> None]

SigningInit ==
  /\ call = None
  /\ dict = [data |-> << >>, headers |-> << >>]
  /\ creds \in [gen : {0}, token : BOOLEAN]
  /\ clock = 0
  /\ wire = NoMessage
  /\ signedAt = [time |-> 0, gen |-> 0]
  /\ attempts = 0

\* _convert_to_request_dict.
StartCall(c) ==
  LET d == [data |-> BuildParameters(c.data), headers |-> c.headers]
  IN  /\ call = None
      /\ call' = c
      /\ dict' = IF c.copy THEN CopySnapshot(c, d, creds, clock) ELSE d
      /\ UNCHANGED <<creds, clock, wire, signedAt, attempts>>

\* Mutant of Attempt: a retry sends the request it has, without a new signature.
Attempt_SameRequest(again) ==
  LET signed == Sign(RequestObject(call, dict), call, creds, clock)
  IN  /\ call # None
      /\ attempts < MaxAttempts
      /\ attempts' = attempts + 1
      /\ wire' = IF attempts = 0 THEN Prepare(signed) ELSE wire
      /\ signedAt' = [time |-> clock, gen |-> creds.gen]
      /\ dict' = IF call.version = "v2" THEN [dict EXCEPT !.data = signed.data] ELSE dict
      /\ UNCHANGED <<call, creds, clock>>

\* Mutant: the handlers of the parameters run for every attempt.
Attempt_BuildAgain(again) ==
  LET built == [dict EXCEPT !.data = BuildParameters(@)]
      signed == Sign(RequestObject(call, built), call, creds, clock)
  IN  /\ call # None
      /\ attempts < MaxAttempts
      /\ attempts' = attempts + 1
      /\ wire' = Prepare(signed)
      /\ signedAt' = [time |-> clock, gen |-> creds.gen]
      /\ dict' = [dict EXCEPT !.data = IF call.version = "v2" THEN signed.data ELSE built.data]
      /\ UNCHANGED <<call, creds, clock>>

\* create_request and the send of one attempt.  The request is signed again
\* when a second closure listens to request-created (Operation.call does).
Attempt(again) ==
  LET once == Sign(RequestObject(call, dict), call, [creds EXCEPT !.gen = signedAt.gen], clock)
      signed == Sign(IF again THEN once ELSE RequestObject(call, dict), call, creds, clock)
  IN  /\ call # None
      /\ attempts < MaxAttempts
      /\ attempts' = attempts + 1
      /\ wire' = Prepare(signed)
      /\ signedAt' = [time |-> clock, gen |-> creds.gen]
      /\ dict' = IF call.version = "v2" THEN [dict EXCEPT !.data = signed.data] ELSE dict
      /\ UNCHANGED <<call, creds, clock>>

\* Time passes, with or without new credentials.
TimePasses ==
  /\ clock < MaxTime
  /\ clock' = clock + 1
  /\ creds' \in {creds, [creds EXCEPT !.gen = clock + 1]}
  /\ UNCHANGED <<call, dict, wire, signedAt, attempts>>

SigningNext ==
  \/ \E c \in Calls : StartCall(c)
  \/ \E again \in BOOLEAN : Attempt(again)
  \/ TimePasses

SigningSpec == SigningInit /\ [][SigningNext]_signingVars
-----------------------------------------------------------------------------
\* What the server computes from a message.
ServerOver(m) ==
  LET single == [h \in DOMAIN m.headers \ {"Authorization"} |-> <<m.headers[h]>>]
  IN  CASE call.version = "v2" -> V2Over(m)
        [] call.version = "v3" -> single["Date"]
        [] call.version \in {"v4", "s3v4"} ->
             CanonicalRequest([m EXCEPT !.headers = single],
                              IF "Date" \in DOMAIN single THEN m.headers["Date"]
                              ELSE m.headers["X-Amz-Date"], "here")
        [] call.version = "s3" ->
             [date |-> single["Date"], amz |-> XAmz(single),
              resource |-> IF m.host = call.host THEN m.path ELSE <<Head(m.host)>> \o m.path]

Signature(m) ==
  CASE call.version = "v2" -> m.data["Signature"]
    [] call.version = "v3" -> m.headers["X-Amzn-Authorization"]
    [] OTHER -> m.headers["Authorization"]

Sent == wire # NoMessage

\* The server accepts every attempt of every call: what was signed is what is
\* sent, after the bucket has moved into the host, headers given twice have
\* lost a value, an earlier attempt was signed in the same body, or two
\* signers have signed (add_auth, fix_s3_host, prepare).
EveryAttemptVerifies ==
  Sent /\ call.version # "unsigned" => Signature(wire) = Mac(Signature(wire).gen, ServerOver(wire))

\* Every attempt carries the time of its own signing and the key and token of
\* the credentials of that time, and no trace of an earlier one
\* (endpoint.py:211: "Create a new request when retried (including a new
\* signature)").
EveryAttemptIsFresh ==
  Sent /\ call.version # "unsigned" =>
    LET v2 == call.version = "v2"
        stamps == IF v2 THEN wire.data ELSE wire.headers
        dates == (IF v2 THEN {"Timestamp"} ELSE {"Date", "X-Amz-Date"}) \cap DOMAIN stamps
        token == IF v2 THEN "SecurityToken" ELSE "X-Amz-Security-Token"
    IN  /\ Signature(wire).gen = signedAt.gen
        /\ {stamps[n] : n \in dates} = {signedAt.time}
        /\ creds.token <=> token \in DOMAIN stamps
        /\ creds.token => stamps[token] = signedAt.gen

\* The body of a call arrives encoded once, and an SSE key with the checksum
\* of what the user gave unless the user gave one, however often it is sent (the
\* handlers of before-parameter-build are not idempotent).
EncodedOnce ==
  Sent =>
    /\ "UserData" \in DOMAIN call.data => wire.data["UserData"] = call.data["UserData"] + 1
    /\ "SSECustomerKey" \in DOMAIN call.data =>
         IF "SSECustomerKeyMD5" \in DOMAIN call.data
         THEN \A n \in {"SSECustomerKey", "SSECustomerKeyMD5"} : wire.data[n] = call.data[n]
         ELSE /\ wire.data["SSECustomerKey"] = call.data["SSECustomerKey"] + 1
              /\ wire.data["SSECustomerKeyMD5"] = call.data["SSECustomerKey"]

\* The two together: an attempt shows nothing of those before it, although the
\* request dict and the body in it outlive them.
AttemptsLeaveNoTrace == EveryAttemptIsFresh /\ EncodedOnce

\* The url that a snapshot copy carries, unless the user gave one, is accepted
\* by the source region and asks it for just what the call asks the destination
\* for: it has every parameter of the body, which has meanwhile been signed for
\* several attempts with other keys, and none of their stamps
\* (copy_snapshot_encrypted makes it of the body dict that the attempts share).
PresignedUrlVerifies ==
  "PresignedUrl" \in DOMAIN dict.data /\ "PresignedUrl" \notin DOMAIN call.data =>
    LET url == dict.data["PresignedUrl"]
        bare == [url EXCEPT !.query = Drop(@, "X-Amz-Signature")]
        asked == DOMAIN dict.data \ (BodyStamps \cup {"PresignedUrl"})
    IN  /\ url.host = <<"source">>
        /\ asked = DOMAIN url.query \ UrlStamps
        /\ \A n \in asked : url.query[n] = dict.data[n]
        /\ url.query["X-Amz-Signature"] =
             Mac(url.query["X-Amz-Credential"],
                 CanonicalRequest(bare, url.query["X-Amz-Date"], "there"))
=============================================================================
