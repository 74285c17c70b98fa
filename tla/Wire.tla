------------------------------- MODULE Wire -------------------------------
(***************************************************************************)
(* What a call puts on the wire and what an answer is read as: the shapes  *)
(* of a service model (src/botocore/model.py), the validation of           *)
(* parameters (validate.py), the serializers of the five protocols         *)
(* (serialize.py) and the parsers of their answers (parsers.py).           *)
(*                                                                         *)
(* A value is a pair of a kind and its content: <<"dict", function>>,      *)
(* <<"list", sequence>>, <<"text", string>>, <<"time", <<second, part>>>>. *)
(* A shape is a function of the keys of its definition; its members are    *)
(* references, resolved where they are used.  An XML node is a record.     *)
(***************************************************************************)
EXTENDS Integers, Sequences, FiniteSetsExt, SequencesExt, TLC

CONSTANTS
  Shapes,      \* the shapes of the model, by name
  Operations,  \* [protocol, input, output, uri] of each operation
  Params(_),   \* the parameters tried for an operation
  Answers(_),  \* the outputs its server may give
  Errors,      \* the [code, form, header] of the errors that servers report
  MaxCalls,    \* bound on the calls; the first may be answered, which ends the run
  Capital,     \* a name with its first letter capitalized (ec2)
  Absent       \* None

VARIABLES
  op,         \* an operation
  params,     \* the parameters of the last call
  report,     \* what validation said of them
  request,    \* what was sent
  earlier,    \* parameters and request of the call before, unanswered (history)
  answer,     \* what the server meant: a value or an error
  parsed,     \* what the caller got
  calls

vars == <<op, params, report, request, earlier, answer, parsed, calls>>

Kind(v) == v[1]
Content(v) == v[2]
Has(f, k) == k \in DOMAIN f
Listed(S) == FoldSet(LAMBDA x, s : Append(s, x), << >>, S)
Get(f, k, default) == IF k \in DOMAIN f THEN f[k] ELSE default
-----------------------------------------------------------------------------
\* Shapes.

\* ShapeResolver.resolve_shape_ref: the traits of the reference are merged
\* over the definition (mutant: under it).
Shape_DefinitionWins(ref) == Shapes[ref["shape"]] @@ [k \in DOMAIN ref \ {"shape"} |-> ref[k]]
Shape(ref) == [k \in DOMAIN ref \ {"shape"} |-> ref[k]] @@ Shapes[ref["shape"]]

Member(shape, m) == Shape(shape["members"][m])
Name(shape, default) == Get(shape, "locationName", default)
Flat(shape) == Get(shape, "flattened", FALSE)
Input(o) == Shape(o.input)
Output(o) == Shape(o.output)
-----------------------------------------------------------------------------
\* Validation.

Accepted(type) ==
  CASE type \in {"structure", "map"} -> {"dict"}
    [] type = "list" -> {"list"}
    [] type = "string" -> {"text"}
    [] type = "integer" -> {"int", "bool"}
    [] type = "boolean" -> {"bool"}
    [] type = "blob" -> {"text", "bytes", "file"}
    [] type = "timestamp" -> {"time"}

\* range_check: a bool is an integer, and a bound is only checked if it is stated.
Size(v) ==
  CASE Kind(v) = "int" -> Content(v)
    [] Kind(v) = "bool" -> IF Content(v) THEN 1 ELSE 0
    [] OTHER -> Len(Content(v))
InRange(v, shape) ==
  /\ Has(shape, "min") => Size(v) >= shape["min"]
  /\ Has(shape, "max") => Size(v) <= shape["max"]

\* _validate: every error of a value, as a path and a reason.
RECURSIVE Report(_, _, _)
Report(v, shape, path) ==
  LET type == shape["type"] c == Content(v) IN
  IF Kind(v) \notin Accepted(type) THEN {<<path, "invalid type">>}
  ELSE CASE type = "structure" ->
              LET known == DOMAIN c \cap DOMAIN shape["members"] IN
              {<<Append(path, m), "missing">> : m \in Get(shape, "required", {}) \ DOMAIN c}
              \cup {<<Append(path, m), "unknown">> : m \in DOMAIN c \ known}
              \cup UNION {Report(c[m], Member(shape, m), Append(path, m)) : m \in known}
         [] type = "list" ->
              (IF InRange(v, shape) THEN {} ELSE {<<path, "length">>})
              \cup UNION {Report(c[i], Shape(shape["member"]), Append(path, "i")) : i \in DOMAIN c}
         [] type = "map" ->
              UNION {Report(<<"text", k>>, Shape(shape["key"]), Append(path, k))
                     \cup Report(c[k], Shape(shape["value"]), Append(path, k)) : k \in DOMAIN c}
         [] type \in {"string", "integer"} ->
              IF InRange(v, shape) THEN {} ELSE {<<path, "range">>}
         [] OTHER -> {}

\* validate (mutant: it stops at an error).
Validate_FirstOnly(v, shape) ==
  LET all == Report(v, shape, << >>) IN IF all = {} THEN {} ELSE {CHOOSE e \in all : TRUE}
Validate(v, shape) == Report(v, shape, << >>)
-----------------------------------------------------------------------------
\* Serializers.

\* Scalars: a blob in base64, which a file raises, a time in the format of the
\* protocol, which may be whole seconds, and booleans as words unless the body
\* is JSON (mutant: every format has whole seconds).
Seconds(v) == <<Content(v)[1], 0>>
Scalar_Seconds(v, shape, format) ==
  CASE shape["type"] = "blob" -> <<"base64", Content(v)>>
    [] shape["type"] = "timestamp" -> <<format, Seconds(v)>>
    [] shape["type"] = "boolean" /\ format = "iso8601" ->
         <<"text", IF Content(v) THEN "true" ELSE "false">>
    [] OTHER -> v

Scalar(v, shape, format) ==
  CASE shape["type"] = "blob" ->
         IF Kind(v) = "file" THEN <<"raises", "TypeError">> ELSE <<"base64", Content(v)>>
    [] shape["type"] = "timestamp" ->
         <<format, IF format = "iso8601" THEN Content(v) ELSE Seconds(v)>>
    [] shape["type"] = "boolean" /\ format = "iso8601" ->
         <<"text", IF Content(v) THEN "true" ELSE "false">>
    [] OTHER -> v

\* _get_serialized_name of the query and the ec2 protocol.
QueryName(shape, default, protocol) ==
  IF protocol # "ec2" THEN Name(shape, default)
  ELSE IF Has(shape, "queryName") THEN shape["queryName"]
  ELSE IF Has(shape, "locationName") THEN Capital[shape["locationName"]]
  ELSE default

\* The name before the numbers of a list's items: a flattened list may take
\* the name of its member (mutant: it always does).
ListBase_Member(shape, prefix, protocol) ==
  IF protocol = "ec2" THEN prefix
  ELSE IF ~ Flat(shape) THEN Append(prefix, "member")
  ELSE Append(Front(prefix), Name(Shape(shape["member"]), "member"))

ListBase(shape, prefix, protocol) ==
  LET member == Shape(shape["member"]) IN
  IF protocol = "ec2" THEN prefix
  ELSE IF ~ Flat(shape) THEN Append(prefix, "member")
  ELSE IF Has(member, "locationName") THEN Append(Front(prefix), member["locationName"])
  ELSE prefix

\* QuerySerializer, EC2Serializer: what is written into the dict of a body, as
\* pairs of a dotted name, here a sequence, and a value.
RECURSIVE Query(_, _, _, _)
Query(v, shape, prefix, protocol) ==
  LET type == shape["type"] c == Content(v) IN
  CASE type = "structure" ->
         UNION {Query(c[m], Member(shape, m),
                      Append(prefix, QueryName(Member(shape, m), m, protocol)), protocol)
                : m \in DOMAIN c}
    [] type = "list" ->
         IF c = << >> /\ protocol # "ec2" THEN {<<prefix, <<"text", "">>>>}
         ELSE UNION {Query(c[i], Shape(shape["member"]),
                           Append(ListBase(shape, prefix, protocol), i), protocol)
                     : i \in DOMAIN c}
    [] type = "map" ->
         LET key == Shape(shape["key"]) value == Shape(shape["value"])
             base == IF Flat(shape) THEN prefix ELSE Append(prefix, "entry")
             keys == Listed(DOMAIN c)
         IN  UNION {Query(<<"text", keys[i]>>, key,
                          base \o <<i, QueryName(key, "key", protocol)>>, protocol)
                    \cup Query(c[keys[i]], value,
                               base \o <<i, QueryName(value, "value", protocol)>>, protocol)
                    : i \in DOMAIN keys}
    [] OTHER -> {<<prefix, Scalar(v, shape, "iso8601")>>}

\* The dict: of the values written under one name one is left, which one being
\* up to the order of the dict of the parameters.
BodyDict(written) ==
  [n \in {e[1] : e \in written} |-> (CHOOSE e \in written : e[1] = n)[2]]

\* JSONSerializer: members under their own names.  Servers write their location,
\* and times as numbers with their fraction.
RECURSIVE Json(_, _, _)
Json(v, shape, by) ==
  LET type == shape["type"] c == Content(v)
      Key(m) == IF by = "server" THEN Name(Member(shape, m), m) ELSE m IN
  CASE type = "structure" ->
         <<"dict", [k \in {Key(m) : m \in DOMAIN c} |->
                     LET m == CHOOSE m \in DOMAIN c : Key(m) = k
                     IN  Json(c[m], Member(shape, m), by)]>>
    [] type = "map" -> <<"dict", [k \in DOMAIN c |-> Json(c[k], Shape(shape["value"]), by)]>>
    [] type = "list" -> <<"list", [i \in DOMAIN c |-> Json(c[i], Shape(shape["member"]), by)]>>
    [] type = "timestamp" /\ by = "server" -> <<"number", c>>
    [] OTHER -> Scalar(v, shape, "unixtimestamp")

Node(tag, attrib, text, kids) == [tag |-> tag, attrib |-> attrib, text |-> text, kids |-> kids]

\* RestXMLSerializer: the nodes of a value, several of a flattened list.
\* Members that are attributes go into the node of their structure; maps are
\* not flattened.  Servers name the items of a flattened list for its member,
\* and do flatten maps.
RECURSIVE Xml(_, _, _, _)
Xml(v, shape, name, by) ==
  LET type == shape["type"] c == Content(v) IN
  CASE type = "structure" ->
         LET attributes == {m \in DOMAIN c : Has(Member(shape, m), "xmlAttribute")}
             AttributeOf(n) == CHOOSE m \in attributes : Member(shape, m)["locationName"] = n
             children == Listed(DOMAIN c \ attributes)
             Child(m) == Xml(c[m], Member(shape, m), Name(Member(shape, m), m), by)
         IN  <<Node(name, [n \in {Member(shape, m)["locationName"] : m \in attributes} |->
                             c[AttributeOf(n)]],
                    Absent, FlattenSeq([i \in DOMAIN children |-> Child(children[i])]))>>
    [] type = "list" ->
         LET member == Shape(shape["member"])
             Items(n) == FlattenSeq([i \in DOMAIN c |-> Xml(c[i], member, n, by)])
         IN  IF Flat(shape) THEN Items(IF by = "server" THEN Name(member, name) ELSE name)
             ELSE <<Node(name, << >>, Absent, Items(Name(member, "member")))>>
    [] type = "map" ->
         LET key == Shape(shape["key"]) value == Shape(shape["value"]) keys == Listed(DOMAIN c)
             Entry(k, tag) == Node(tag, << >>, Absent,
                                   Xml(<<"text", k>>, key, Name(key, "key"), by)
                                     \o Xml(c[k], value, Name(value, "value"), by))
         IN  IF Flat(shape) /\ by = "server" THEN [i \in DOMAIN keys |-> Entry(keys[i], name)]
             ELSE <<Node(name, << >>, Absent, [i \in DOMAIN keys |-> Entry(keys[i], "entry")])>>
    [] OTHER -> <<Node(name, << >>, Scalar(v, shape, "iso8601"), << >>)>>

\* The body of a rest protocol: of a payload, or of the members without place.
Body(v, shape, protocol, by) ==
  IF protocol = "rest-json" THEN Json(v, shape, by)
  ELSE Xml(v, shape, Name(shape, "Result"), by)[1]

Empty == <<"text", "">>
Place(shape, m) == Get(Member(shape, m), "location", "body")
At(shape, c, place) == {m \in DOMAIN c : Place(shape, m) = place}
Placed(shape, c, place) ==
  [n \in {Name(Member(shape, m), m) : m \in At(shape, c, place)} |->
     c[CHOOSE m \in At(shape, c, place) : Name(Member(shape, m), m) = n]]

\* _serialize_payload.
Payload(shape, c, protocol, by) ==
  LET pay == Get(shape, "payload", Absent)
      rest == [m \in At(shape, c, "body") |-> c[m]]
  IN  IF pay # Absent
      THEN IF pay \notin DOMAIN c THEN Absent
           ELSE IF Member(shape, pay)["type"] \in {"blob", "string"} THEN c[pay]
           ELSE Body(c[pay], Member(shape, pay), protocol, by)
      ELSE IF rest = << >> THEN Absent ELSE Body(<<"dict", rest>>, shape, protocol, by)

\* _partition_parameters, _do_serialize_header_map: a map of headers is spread
\* under its prefix.  A header's time has whole seconds.
Headers(shape, c) ==
  LET single == Placed(shape, c, "header")
      Spread(m) == [h \in {<<Name(Member(shape, m), m), k>> : k \in DOMAIN Content(c[m])} |->
                      Content(c[m])[h[2]]]
      maps == At(shape, c, "headers")
  IN  (IF maps = {} THEN << >> ELSE Spread(CHOOSE m \in maps : TRUE))
        @@ [h \in {<<n, "">> : n \in DOMAIN single} |->
              IF Kind(single[h[1]]) = "time" THEN <<"rfc822", Seconds(single[h[1]])>>
              ELSE single[h[1]]]

\* serialize_to_request of each serializer.
Serialize(o, p) ==
  LET c == Content(p) IN
  IF o.protocol \in {"query", "ec2"}
  THEN [body |-> BodyDict(Query(p, Input(o), << >>, o.protocol))]
  ELSE IF o.protocol = "json" THEN [body |-> Json(p, Input(o), "client")]
  ELSE [uri |-> [n \in o.uri |-> Placed(Input(o), c, "uri")[n]],
        query |-> Placed(Input(o), c, "querystring"),
        headers |-> Headers(Input(o), c),
        body |-> Payload(Input(o), c, o.protocol, "client")]
-----------------------------------------------------------------------------
\* Parsers.

\* _build_name_to_xml_node: a name is looked up as its nodes, one or a list.
Tagged(nodes, tag) == SelectSeq(nodes, LAMBDA n : n.tag = tag)
Inner(nodes) == IF Len(nodes) = 1 THEN nodes[1].kids ELSE nodes

\* _handle_list: a single node of a flattened list is a list of one (mutant:
\* it is taken for the list itself).
ItemNodes_Scalar(nodes, shape) == Inner(nodes)
ItemNodes(nodes, shape) == IF Flat(shape) THEN nodes ELSE Inner(nodes)

\* _member_key_name.
KeyName(shape, m) ==
  IF shape["type"] = "list" /\ Flat(shape) /\ Has(Shape(shape["member"]), "locationName")
  THEN Shape(shape["member"])["locationName"]
  ELSE Name(shape, m)

\* The scalar handlers on a text.  Only query leaves an empty text null.
ParseScalar(t, shape, protocol) ==
  CASE shape["type"] = "boolean" /\ Kind(t) # "bool" -> <<"bool", t = <<"text", "true">>>>
    [] shape["type"] = "blob" -> <<"bytes", Content(t)>>
    [] shape["type"] = "timestamp" -> <<"time", Content(t)>>
    [] t = Empty /\ protocol \in {"query", "ec2"} -> Absent
    [] OTHER -> t

\* _handle_map: key and value of an entry, the last ones seen if one is lacking.
RECURSIVE ParseXml(_, _, _)
Pairs(entries, shape, protocol) ==
  LET key == Shape(shape["key"]) value == Shape(shape["value"])
      Take(acc, n) ==
        IF n.tag = Name(key, "key") THEN [acc EXCEPT !.key = ParseXml(<<n>>, key, protocol)]
        ELSE IF n.tag = Name(value, "value")
             THEN [acc EXCEPT !.value = ParseXml(<<n>>, value, protocol)]
        ELSE Assert(FALSE, "ResponseParserError")
      Entry(acc, e) ==
        LET after == FoldLeft(Take, acc, e.kids)
        IN  [after EXCEPT !.parsed = (Content(after.key) :> after.value) @@ @]
  IN  FoldLeft(Entry, [key |-> Absent, value |-> Absent, parsed |-> << >>], entries).parsed

ParseXml(nodes, shape, protocol) ==
  LET type == shape["type"] IN
  CASE type = "structure" ->
         LET Of(m) == Tagged(Inner(nodes), KeyName(Member(shape, m), m))
         IN  <<"dict", [m \in {m \in DOMAIN shape["members"] :
                                ~ Has(Member(shape, m), "location") /\ Of(m) # << >>} |->
                         ParseXml(Of(m), Member(shape, m), protocol)]>>
    [] type = "list" ->
         LET items == ItemNodes(nodes, shape)
         IN  <<"list", [i \in DOMAIN items |-> ParseXml(<<items[i]>>, Shape(shape["member"]), protocol)]>>
    [] type = "map" -> <<"dict", Pairs(ItemNodes(nodes, shape), shape, protocol)>>
    [] OTHER -> ParseScalar(nodes[1].text, shape, protocol)

\* BaseJSONParser: members by their location name, nulls left out.
RECURSIVE ParseJson(_, _)
ParseJson(v, shape) ==
  LET type == shape["type"] c == Content(v) IN
  CASE type = "structure" ->
         LET Of(m) == Get(c, Name(Member(shape, m), m), Absent)
         IN  <<"dict", [m \in {m \in DOMAIN shape["members"] : Of(m) # Absent} |->
                         ParseJson(Of(m), Member(shape, m))]>>
    [] type = "map" -> <<"dict", [k \in DOMAIN c |-> ParseJson(c[k], Shape(shape["value"]))]>>
    [] type = "list" -> <<"list", [i \in DOMAIN c |-> ParseJson(c[i], Shape(shape["member"]))]>>
    [] OTHER -> ParseScalar(v, shape, "json")

\* _parse_non_payload_attrs: members that the status or the headers hold.
FromHeaders(response, shape, protocol) ==
  LET Value(m) ==
        LET member == Member(shape, m) n == Name(member, m)
            spread == {h \in DOMAIN response.headers : h[1] = n /\ h[2] # ""}
        IN  CASE Place(shape, m) = "statusCode" -> <<"int", response.status>>
              [] Place(shape, m) = "headers" ->
                   <<"dict", [k \in {h[2] : h \in spread} |-> response.headers[<<n, k>>]]>>
              [] Place(shape, m) = "header" ->
                   IF protocol = "rest-json" /\ member["type"] = "integer"
                   THEN <<"text", Content(response.headers[<<n, "">>])>>
                   ELSE ParseScalar(response.headers[<<n, "">>], member, protocol)
      Found(m) == \/ Place(shape, m) \in {"statusCode", "headers"}
                  \/ Place(shape, m) = "header" /\ Has(response.headers, <<Name(Member(shape, m), m), "">>)
  IN  [m \in {m \in DOMAIN shape["members"] : Found(m)} |-> Value(m)]

\* _parse_payload.
FromBody(body, shape, protocol) ==
  LET pay == Get(shape, "payload", Absent)
      Parse(of) == IF protocol = "rest-json"
                   THEN ParseJson(IF body = Absent THEN <<"dict", << >>>> ELSE body, of)
                   ELSE ParseXml(<<IF body = Absent THEN Node("", << >>, Absent, << >>) ELSE body>>,
                                 of, protocol)
  IN  IF pay = Absent THEN Content(Parse(shape))
      ELSE IF Member(shape, pay)["type"] \in {"blob", "string"} THEN (pay :> body)
      ELSE (pay :> Parse(Member(shape, pay)))

\* RequestId in the headers: under the only name that json knows, or the first
\* of the two of the rest protocols.
Amzn == <<"x-amzn-requestid", "">>
Amz == <<"x-amz-request-id", "">>
HeaderId(response, protocol) ==
  LET names == IF protocol = "json" THEN <<Amzn>> ELSE <<Amzn, Amz>>
      found == SelectSeq(names, LAMBDA h : Has(response.headers, h))
  IN  IF found = << >> THEN {} ELSE {response.headers[found[1]]}

\* RequestId of the answer: in the headers, or in the body of query and ec2.
RequestIdOf(response, protocol) ==
  LET kids == response.body.kids
      Texts(nodes) == {nodes[i].text : i \in DOMAIN nodes}
  IN  IF protocol = "query" THEN Texts(Tagged(Inner(Tagged(kids, "ResponseMetadata")), "RequestId"))
      ELSE IF protocol = "ec2" THEN Texts(Tagged(kids, "requestId"))
      ELSE HeaderId(response, protocol)

\* _do_parse of each parser.
ParseAnswer(o, response) ==
  LET shape == Output(o) root == response.body
      start == IF Has(shape, "resultWrapper") THEN Tagged(root.kids, shape["resultWrapper"])
               ELSE <<root>>
      content == IF o.protocol \in {"query", "ec2"} THEN Content(ParseXml(start, shape, o.protocol))
                 ELSE IF o.protocol = "json" THEN Content(ParseJson(root, shape))
                 ELSE FromBody(root, shape, o.protocol) @@ FromHeaders(response, shape, o.protocol)
  IN  [value |-> content, error |-> Absent, id |-> RequestIdOf(response, o.protocol)]

\* _replace_nodes and the lookup of a nested tag, of nodes that occur once.
TextAt(nodes, tag) == IF Tagged(nodes, tag) = << >> THEN Absent ELSE Tagged(nodes, tag)[1].text

\* The nodes of the error: the root of an s3 error, else <Error>, of query and
\* ec2 maybe in <Errors> (mutant: it is never the root).
ErrorNodes_Nested(root, protocol) ==
  LET outer == IF protocol = "rest-xml" THEN << >> ELSE Tagged(root.kids, "Errors")
  IN  Inner(Tagged(IF outer = << >> THEN root.kids ELSE Inner(outer), "Error"))

ErrorNodes(root, protocol) ==
  LET outer == IF protocol = "rest-xml" THEN << >> ELSE Tagged(root.kids, "Errors")
  IN  IF protocol = "rest-xml" /\ root.tag = "Error" THEN root.kids
      ELSE Inner(Tagged(IF outer = << >> THEN root.kids ELSE Inner(outer), "Error"))

\* _do_error_parse of each parser: the code and the request id, which rest-json
\* does not look for, and rest-xml under one name only if there is no body.
ParseError(o, response) ==
  LET root == response.body
      Error(code, ids) == [value |-> << >>, error |-> code, id |-> ids \ {Absent}]
      headerId == HeaderId(response, o.protocol)
  IN  CASE o.protocol = "json" -> Error(Last(Get(Content(root), "__type", <<Absent>>)), headerId)
        [] o.protocol = "rest-json" ->
             LET type == Get(response.headers, <<"x-amzn-errortype", "">>, Absent)
                 c == IF root = Absent THEN << >> ELSE Content(root)
             IN  Error(IF type # Absent THEN type[1] ELSE Get(c, "code", Get(c, "Code", Absent)), {})
        [] o.protocol = "rest-xml" /\ root = Absent ->
             Error(response.status, {Get(response.headers, Amz, "")})
        [] o.protocol \in {"query", "ec2", "rest-xml"} /\ root # Absent ->
             Error(TextAt(ErrorNodes(root, o.protocol), "Code"),
                   IF o.protocol = "rest-xml" /\ root.tag = "Error" THEN headerId
                   ELSE {TextAt(root.kids, IF o.protocol = "ec2" THEN "RequestID" ELSE "RequestId")})

\* ResponseParser.parse.
Parse(o, response) ==
  IF response.status >= 301 THEN ParseError(o, response) ELSE ParseAnswer(o, response)
-----------------------------------------------------------------------------
\* The server (not in this repository): the conventions of each protocol.  The
\* id of a request goes into a header, but for query and ec2.
IdHeaders(protocol) == {Amzn} \cup (IF protocol \in {"rest-json", "rest-xml"} THEN {Amz} ELSE {})
Leaf(tag, text) == Node(tag, << >>, text, << >>)
Root(tag, kids) == Node(tag, << >>, Absent, kids)

Respond(o, v, header) ==
  LET shape == Output(o) c == Content(v)
      kids == Xml(v, shape, "Result", "server")[1].kids
      Answer(headers, body) == [status |-> 200, headers |-> headers, body |-> body]
      Wrapped == IF Has(shape, "resultWrapper") THEN <<Root(shape["resultWrapper"], kids)>> ELSE kids
  IN  CASE o.protocol = "query" ->
             Answer(<< >>, Root("Response", Append(Wrapped, Root("ResponseMetadata", <<Leaf("RequestId", "id")>>))))
        [] o.protocol = "ec2" -> Answer(<< >>, Root("Response", <<Leaf("requestId", "id")>> \o kids))
        [] o.protocol = "json" ->
             Answer(header :> "id", Json(v, shape, "server"))
        [] OTHER -> Answer((header :> "id") @@ Headers(shape, c),
                           Payload(shape, c, o.protocol, "server"))

\* Errors, in each form that a server of the protocol may choose.
Fits(protocol, e) ==
  /\ e.header \in IdHeaders(protocol)
  /\ e.form \in (CASE protocol \in {"query", "ec2"} -> {"xml"}
                   [] protocol = "json" -> {"plain", "qualified"}
                   [] protocol = "rest-json" -> {"header", "code", "Code"}
                   [] protocol = "rest-xml" -> {"xml", "s3", "empty"})

RespondError(o, e) ==
  LET error == <<Leaf("Type", "Sender"), Leaf("Code", e.code)>>
      amz == e.header :> "id"
      Answer(headers, body) == [status |-> 400, headers |-> headers, body |-> body]
  IN  CASE o.protocol = "ec2" ->
             Answer(<< >>, Root("Response", <<Root("Errors", <<Root("Error", error)>>), Leaf("RequestID", "id")>>))
        [] e.form = "xml" /\ o.protocol # "ec2" ->
             Answer(<< >>, Root("ErrorResponse", <<Root("Error", error), Leaf("RequestId", "id")>>))
        [] e.form = "s3" -> Answer(amz, Root("Error", error))
        [] e.form = "empty" -> Answer(amz, Absent)
        [] e.form = "plain" -> Answer(amz, <<"dict", "__type" :> <<e.code>>>>)
        [] e.form = "qualified" -> Answer(amz, <<"dict", "__type" :> <<"com.x", e.code>>>>)
        [] e.form = "header" -> Answer((<<"x-amzn-errortype", "">> :> <<e.code, "">>) @@ amz, Absent)
        [] e.form \in {"code", "Code"} -> Answer(amz, <<"dict", e.form :> e.code>>)
-----------------------------------------------------------------------------
NoCall == [params |-> Absent, request |-> Absent]

Init ==
  /\ op \in Operations
  /\ params = Absent /\ report = {} /\ request = Absent
  /\ earlier = NoCall
  /\ answer = Absent /\ parsed = Absent
  /\ calls = 0

\* ParamValidationDecorator.serialize_to_request.
Call(p) ==
  /\ answer = Absent /\ calls < MaxCalls
  /\ calls' = calls + 1
  /\ params' = p
  /\ report' = Validate(p, Input(op))
  /\ request' = IF report' = {} THEN Serialize(op, p) ELSE Absent
  /\ earlier' = [params |-> params, request |-> request]
  /\ UNCHANGED <<op, answer, parsed>>

\* get_response, of an answer or an error of the server.
Answered(v, header) ==
  /\ request # Absent /\ answer = Absent /\ calls = 1
  /\ answer' = v
  /\ parsed' = Parse(op, Respond(op, v, header))
  /\ earlier' = NoCall
  /\ UNCHANGED <<op, params, report, request, calls>>

Refused(e) ==
  /\ request # Absent /\ answer = Absent /\ calls = 1 /\ Fits(op.protocol, e)
  /\ answer' = <<"error", e>>
  /\ parsed' = Parse(op, RespondError(op, e))
  /\ earlier' = NoCall
  /\ UNCHANGED <<op, params, report, request, calls>>

Next ==
  \/ \E p \in Params(op) : Call(p)
  \/ \E v \in Answers(op), header \in IdHeaders(op.protocol) : Answered(v, header)
  \/ \E e \in Errors : Refused(e)

Spec == Init /\ [][Next]_vars
-----------------------------------------------------------------------------
\* What a value says: empty containers and texts say nothing, and texts and
\* bytes the same; in some places a time says no fraction of a second.
Nothing == <<"nothing">>
RECURSIVE Normal(_, _)
Normal(v, whole) ==
  IF v = Absent THEN Nothing
  ELSE IF Kind(v) \in {"dict", "list"}
  THEN LET c == Content(v)
           said == [k \in {k \in DOMAIN c : Normal(c[k], whole) # Nothing} |-> Normal(c[k], whole)]
       IN  IF said = << >> THEN Nothing ELSE <<Kind(v), said>>
  ELSE IF Kind(v) \in {"text", "bytes", "file"}
  THEN IF Content(v) = "" THEN Nothing ELSE <<"text", Content(v)>>
  ELSE IF Kind(v) = "time" /\ whole THEN <<"time", Seconds(v)>>
  ELSE v

\* Flattened lists, of the query protocol, whose items have a name of their own,
\* and the same as those of another: the model does not tell their items apart.
Namesakes ==
  LET ItemName(m) == LET list == Member(Input(op), m)
                     IN  IF op.protocol = "query" /\ list["type"] = "list" /\ Flat(list)
                         THEN Name(Shape(list["member"]), Absent) ELSE Absent
      members == DOMAIN Input(op)["members"]
  IN  {m \in members : ItemName(m) # Absent /\ \E n \in members \ {m} : ItemName(n) = ItemName(m)}

\* What a call says, but for namesakes: times in JSON and in headers are of
\* whole seconds (_timestamp_unixtimestamp, _timestamp_rfc822).
Said(p) ==
  LET Whole(m) == op.protocol \in {"json", "rest-json"} \/ Place(Input(op), m) = "header"
      Of(m) == Normal(Content(p)[m], Whole(m))
  IN  [m \in {m \in DOMAIN Content(p) \ Namesakes : Of(m) # Nothing} |-> Of(m)]

\* Two calls that say different things send different requests, in every
\* protocol: no member, item, key or place of a value is lost in the names
\* that the serializers build (serialize.py), but whose items the items of
\* namesakes are, and fractions of a second where the format has none.
SameRequestSameCall ==
  request # Absent /\ earlier.request = request => Said(params) = Said(earlier.params)

\* No two parameters of a call are written under one name of a query body,
\* unless it has two namesakes (_serialize_type_list, where a list may take the
\* name of its member; no service of src/botocore/data/aws has two such lists in
\* one structure).
NothingIsOverwritten ==
  /\ request # Absent /\ op.protocol \in {"query", "ec2"}
  /\ Cardinality(Namesakes \cap DOMAIN Content(params)) < 2
  => \A e, f \in Query(params, Input(op), << >>, op.protocol) : e[1] = f[1] => e = f

\* Validation collects all errors (validate.py:147): without the members that
\* its report names, a call has no error left but what it lacks.
NoErrorIsLeftOut ==
  report # {} =>
    LET named == {e[1][1] : e \in report}
        rest == [m \in DOMAIN Content(params) \ named |-> Content(params)[m]]
    IN  \A e \in Report(<<"dict", rest>>, Input(op), << >>) :
          e[2] = "missing" /\ e[1][1] \in named

\* The three together: of a call nothing is lost, neither in its request nor, if it is
\* refused, in the report.
NothingIsLost == SameRequestSameCall /\ NothingIsOverwritten /\ NoErrorIsLeftOut

\* An answer is read as what the server meant: lists of one or no item, names
\* that members and references give, values in headers and nested maps, times
\* to the fraction of a second (parsers.py).
AnswerIsReadBack ==
  answer # Absent /\ Kind(answer) = "dict" =>
    LET shape == Output(op)
        read == [m \in {m \in DOMAIN parsed.value : Place(shape, m) # "statusCode"} |->
                   parsed.value[m]]
    IN  /\ Normal(<<"dict", read>>, FALSE) = Normal(answer, FALSE)
        /\ parsed.id = {"id"} /\ parsed.error = Absent

\* An error is read with its code, in all the forms that a protocol has, and,
\* where the parser looks for it (ParseError), with the id of the request.
ErrorIsNamed ==
  answer # Absent /\ Kind(answer) = "error" =>
    LET e == Content(answer)
        unread == op.protocol = "rest-json" \/ (e.form = "empty" /\ e.header = Amzn)
    IN  /\ parsed.error = IF e.form = "empty" THEN 400 ELSE e.code
        /\ ~ unread => parsed.id = {"id"}

\* The two together: a parser understands what any server of its protocol says.
AnswersAreUnderstood == AnswerIsReadBack /\ ErrorIsNamed
=============================================================================
