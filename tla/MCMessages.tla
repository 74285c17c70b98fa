---------------------------- MODULE MCMessages ----------------------------
(***************************************************************************)
(* Wire and RequestSigning for TLC.  The first has an operation of every   *)
(* protocol, over shapes with members renamed, flattened, nested, placed   *)
(* in headers and in the payload; the second calls of each signature       *)
(* version, with the paths, headers and parameters that its signer or a    *)
(* handler treats specially.  The two share no variable, and each is       *)
(* explored while the other has not begun.                                 *)
(***************************************************************************)
EXTENDS Wire, RequestSigning

Ref(s) == "shape" :> s
As(s, name) == Ref(s) @@ ("locationName" :> name)
In(s, name, place) == As(s, name) @@ ("location" :> place)
Type(t) == "type" :> t
Struct(members) == Type("structure") @@ ("members" :> members)
ListOf(ref) == Type("list") @@ ("member" :> ref)
MapOf(key, value) == Type("map") @@ ("key" :> key) @@ ("value" :> value)
Flattened == "flattened" :> TRUE

MCShapes ==
  ("Text" :> Type("string")) @@
  ("Short" :> (Type("string") @@ ("min" :> 1) @@ ("max" :> 2))) @@
  ("Number" :> (Type("integer") @@ ("max" :> 3))) @@
  ("Flag" :> Type("boolean")) @@ ("Bytes" :> Type("blob")) @@ ("When" :> Type("timestamp")) @@
  ("Texts" :> ListOf(Ref("Text"))) @@
  ("Items" :> (ListOf(As("Text", "item")) @@ ("max" :> 2))) @@
  ("FlatItems" :> (ListOf(As("Text", "Item")) @@ Flattened)) @@
  ("FlatTexts" :> (ListOf(Ref("Text")) @@ Flattened @@ ("locationName" :> "unused"))) @@
  ("Tags" :> MapOf(Ref("Text"), Ref("Number"))) @@
  ("FlatTags" :> (MapOf(As("Text", "Name"), As("Text", "Value")) @@ Flattened)) @@
  ("Inner" :> Struct(("A" :> As("Short", "a")) @@ ("B" :> Ref("Texts")))) @@
  ("Inners" :> ListOf(Ref("Inner"))) @@
  ("InQuery" :> (("required" :> {"Id"}) @@
     Struct(("Id" :> Ref("Short")) @@ ("On" :> Ref("Flag")) @@ ("Count" :> Ref("Number"))
         @@ ("When" :> Ref("When")) @@ ("Data" :> Ref("Bytes"))
         @@ ("Names" :> Ref("Texts")) @@ ("Flat" :> Ref("FlatItems"))
         @@ ("Others" :> As("FlatItems", "other"))
         @@ ("Plain" :> As("FlatTexts", "Plain")) @@ ("More" :> As("FlatTexts", "More"))
         @@ ("Tags" :> Ref("Tags"))
         @@ ("Marks" :> As("FlatTags", "Mark")) @@ ("Inners" :> Ref("Inners"))))) @@
  ("InEc2" :> Struct(("Id" :> As("Short", "instanceId")) @@ ("Names" :> (As("Texts", "names")
         @@ ("queryName" :> "Name"))) @@ ("Inner" :> Ref("Inner")))) @@
  ("OutQuery" :>
     Struct(("Id" :> Ref("Text")) @@ ("On" :> Ref("Flag")) @@ ("When" :> Ref("When"))
         @@ ("Names" :> Ref("Items")) @@ ("Flat" :> As("FlatItems", "ignored"))
         @@ ("Plain" :> As("FlatTexts", "Plain")) @@ ("Tags" :> Ref("Tags"))
         @@ ("Marks" :> As("FlatTags", "Mark")) @@ ("Inners" :> As("Inners", "inners")))) @@
  ("InRest" :> (("required" :> {"Id"}) @@ ("locationName" :> "InRest") @@
     Struct(("Id" :> In("Text", "Id", "uri")) @@ ("Page" :> In("Number", "page", "querystring"))
         @@ ("When" :> In("When", "Date", "header")) @@ ("At" :> As("When", "at")) @@ ("Meta" :> In("Tags", "x-meta-", "headers"))
         @@ ("Inner" :> As("Inner", "inner")) @@ ("Names" :> As("FlatTexts", "Name"))
         @@ ("Kind" :> (As("Text", "kind") @@ ("xmlAttribute" :> TRUE)))))) @@
  ("InPut" :> (("required" :> {"Id"}) @@ ("payload" :> "Body") @@
     Struct(("Id" :> In("Text", "Id", "uri")) @@ ("Body" :> Ref("Bytes"))))) @@
  ("OutRest" :>
     Struct(("Tag" :> In("Text", "ETag", "header")) @@ ("Code" :> In("Number", "c", "statusCode"))
         @@ ("Meta" :> In("Tags", "x-meta-", "headers")) @@ ("Inner" :> As("Inner", "inner"))
         @@ ("Names" :> Ref("FlatItems")) @@ ("Flag" :> As("Flag", "flag")) @@ ("At" :> As("When", "at")))) @@
  ("OutGet" :> (("payload" :> "Inner") @@
     Struct(("Tag" :> In("Text", "ETag", "header")) @@ ("Inner" :> As("Inner", "inner")))))

Op(protocol, input, output) ==
  [protocol |-> protocol, input |-> Ref(input), output |-> output, uri |-> {"Id"}]
MCOperations ==
  {Op("query", "InQuery", Ref("OutQuery") @@ ("resultWrapper" :> "Result")),
   Op("ec2", "InEc2", Ref("OutQuery")), Op("json", "InQuery", Ref("OutQuery"))}
  \cup {Op(p, "InRest", Ref("OutRest")) : p \in {"rest-json", "rest-xml"}}
  \cup {Op(p, "InPut", Ref("OutGet")) : p \in {"rest-json", "rest-xml"}}

MCCapital == ("instanceId" :> "InstanceId") @@ ("a" :> "A") @@ ("names" :> "Names")
-----------------------------------------------------------------------------
\* Values: every member takes one of these, or none, beside the others.
Text(s) == <<"text", s>>
Texts(s) == <<"list", s>>
Dict(f) == <<"dict", f>>
ValuesOf(shape) ==
  CASE shape \in {"Text"} -> {Text(""), Text("x"), Text("y")}
    [] shape = "Short" -> {Text("x"), Text("xy"), Text("xyz"), Text(""), <<"int", 1>>}
    [] shape = "Number" -> {<<"int", 0>>, <<"int", 3>>, <<"int", 4>>, <<"int", -1>>, <<"bool", TRUE>>}
    [] shape = "Flag" -> {<<"bool", TRUE>>, <<"bool", FALSE>>, Text("true")}
    [] shape = "Bytes" -> {<<"bytes", "x">>, Text("y"), <<"int", 1>>}
    [] shape = "When" -> {<<"time", <<1, 0>>>>, <<"time", <<1, 5>>>>, <<"time", <<2, 0>>>>}
    [] shape \in {"Texts", "Items", "FlatItems", "FlatTexts"} ->
         {Texts(s) : s \in {<< >>, <<Text("x")>>, <<Text("x"), Text("y")>>, <<Text("y"), Text("x")>>}}
    [] shape = "Tags" -> {Dict(<< >>), Dict("k" :> <<"int", 1>>),
                          Dict(("k" :> <<"int", 1>>) @@ ("l" :> <<"int", 2>>)),
                          Dict(("k" :> <<"int", 2>>) @@ ("l" :> <<"int", 1>>))}
    [] shape = "FlatTags" -> {Dict("k" :> Text("x")), Dict(("k" :> Text("x")) @@ ("l" :> Text("")))}
    [] shape = "Inner" -> {Dict(<< >>), Dict("A" :> Text("x")), Dict("B" :> Texts(<<Text("x")>>)),
                           Dict(("A" :> Text("xyz")) @@ ("C" :> Text("x")))}
    [] shape = "Inners" -> {Texts(<<Dict("A" :> Text("x"))>>),
                            Texts(<<Dict("A" :> Text("x")), Dict("A" :> Text("y"))>>),
                            Texts(<<Dict(("A" :> Text("x")) @@ ("B" :> Texts(<<Text("y")>>)))>>)}

\* Dicts of one or two members, and the identifier that most of them need.
DictsOf(shape) ==
  LET members == shape["members"]
      Id == IF "Id" \in DOMAIN members THEN "Id" :> Text("x") ELSE << >>
      One == UNION {{m :> v : v \in ValuesOf(members[m]["shape"])} : m \in DOMAIN members}
  IN  {Dict(f @@ Id) : f \in One} \cup {Dict(Id), Dict(<< >>)}

All(shape) ==
  LET members == shape["members"]
  IN  {Dict([m \in {m \in DOMAIN members : Get(members[m], "location", "") # "statusCode"} |->
               CHOOSE v \in ValuesOf(members[m]["shape"]) :
                 Report(v, Shape(members[m]), << >>) = {} /\ Normal(v, FALSE) # Nothing])}

\* Tables, which are computed once.
ParamsOf == [o \in MCOperations |->
  DictsOf(Input(o)) \cup All(Input(o))
    \cup {Dict(("Id" :> Text("x")) @@ ("Zz" :> Text("x"))),
          Dict(("Id" :> <<"int", 1>>) @@ ("Zz" :> Text("x")))}
    \cup (IF "More" \in DOMAIN Input(o)["members"]
          THEN {Dict(("Id" :> Text("x")) @@ ("Plain" :> Texts(<<Text("x")>>))
                       @@ ("More" :> Texts(<<Text("y")>>)))}
               \cup {Dict(("Id" :> Text("x")) @@ ("Flat" :> Texts(<<Text("x")>>))
                           @@ ("Others" :> Texts(<<Text(t)>>))) : t \in {"x", "y"}} ELSE {})
    \cup (IF Has(Input(o), "payload")
          THEN {Dict(("Id" :> Text("x")) @@ ("Body" :> <<"file", "z">>))} ELSE {})]
AnswersOf == [o \in MCOperations |->
  {v \in DictsOf(Output(o)) \cup All(Output(o)) :
     Report(v, Output(o), << >>) = {} /\ "Code" \notin DOMAIN Content(v)}]
MCParams(o) == ParamsOf[o]
MCAnswers(o) == AnswersOf[o]

MCErrors ==
  [code : {"NotFound"}, header : {Amzn, Amz},
   form : {"xml", "plain", "qualified", "header", "code", "Code", "s3", "empty"}]
-----------------------------------------------------------------------------
\* A header the user has written, of no time of the run.
Given == MaxTime + 1

Plain(version) ==
  [version |-> version, host |-> <<"host">>, path |-> <<"">>, dns |-> FALSE, headers |-> << >>,
   data |-> ("Action" :> "A"), copy |-> FALSE, location |-> FALSE]

Queries ==
  {[Plain(v) EXCEPT !.data = d @@ @] : v \in {"v2", "v4", "unsigned"},
     d \in {<< >>, "UserData" :> 0, "accountId" :> None}}
Copies ==
  {[Plain(v) EXCEPT !.copy = TRUE, !.data = url @@ ("SourceRegion" :> "there") @@ @] :
     v \in {"v2", "v4"}, url \in {<< >>, "PresignedUrl" :> Given}}
Rest ==
  {[Plain(v) EXCEPT !.headers = h] : v \in {"v4", "s3v4"},
     h \in {<< >>, "Date" :> Given, "X-Amz-Date" :> Given, "Authorization" :> Given}}
    \cup {[Plain("v3") EXCEPT !.headers = h] : h \in {<< >>, "Date" :> Given}}
S3 ==
  {[Plain(v) EXCEPT !.path = p, !.dns = dns /\ p # <<"">>, !.headers = "X-Amz-Custom" :> Given,
                    !.data = ("SSECustomerKey" :> 0) @@ md5] :
     v \in {"s3", "s3v4"}, p \in {<<"">>, <<"b">>, <<"b", "k">>, <<"b", "b">>}, dns \in BOOLEAN,
     md5 \in {<< >>, "SSECustomerKeyMD5" :> Given}}
Location == {[Plain("s3") EXCEPT !.path = <<"b">>, !.dns = TRUE, !.location = TRUE]}

MCCalls == Queries \cup Copies \cup Rest \cup S3 \cup Location
-----------------------------------------------------------------------------
AnyOperation == CHOOSE o \in MCOperations : TRUE
WireStep ==
  /\ call = None /\ clock = 0 /\ ~ creds.token
  /\ Next /\ UNCHANGED signingVars
SigningStep ==
  /\ calls = 0 /\ op = AnyOperation
  /\ SigningNext /\ UNCHANGED vars

MessagesInit == Init /\ SigningInit
MessagesSpec == MessagesInit /\ [][WireStep \/ SigningStep]_<<vars, signingVars>>
=============================================================================
