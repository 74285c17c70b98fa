----------------------------- MODULE MCClients -----------------------------
(***************************************************************************)
(* Session and Clients for TLC.  The first has two profiles, of which the  *)
(* second is in the config file, in the credentials file, written there in *)
(* the wrong form, or nowhere; in some worlds a file cannot be parsed, or  *)
(* the data path of the second profile and the loader of the user have no  *)
(* endpoint rules.                                                         *)
(*                                                                         *)
(* The second has services whose entries in _retry.json and in             *)
(* _endpoints.json are of different kinds.  rds and emr refer to different *)
(* definitions under one name, sns to the first of them again; dynamodb    *)
(* has attempts of its own; ec2 and sqs write out a policy of one name.    *)
(* A region stands for those that no rule tells apart.                     *)
(*                                                                         *)
(* The two share no variable, and each is explored while the other has not *)
(* begun.                                                                  *)
(***************************************************************************)
EXTENDS Session, Clients
CONSTANT Work

Section(keys, sets) == [keys |-> keys, sets |-> sets]
Overridden == {"provider", "data_path"}

Inis ==
  { [s \in {<<"profile", Work>>} |-> Section("full", Overridden)],
    [s \in {<<"profile", Work>>, <<"bare", Default>>} |-> Section("full", Overridden)],
    [s \in {<<"bare", Work>>, <<"profile", Default>>} |-> Section("none", {"region"})] }
Shareds ==
  { << >>, [p \in {Default, Work} |-> Section("full", {})],
    [p \in {Work} |-> Section("partial", {})] }
Envs == { << >>, [v \in {"profile"} |-> Work] }

\* Keys in the environment, of the role of the instance, or of neither.
KeysElsewhere == {[envKeys |-> "none", role |-> "none"], [envKeys |-> "none", role |-> "full"],
                  [envKeys |-> "full", role |-> "none"]}
Sound ==
  {[ini |-> i, shared |-> s, unparsed |-> {}, env |-> e, envKeys |-> k.envKeys, ec2 |-> "none",
    boto |-> "none", role |-> k.role, noRules |-> {}] :
     i \in Inis, s \in Shareds, e \in Envs, k \in KeysElsewhere}

MCWorlds ==
  Sound \cup
  {[w EXCEPT !.unparsed = u, !.boto = b, !.noRules = {Work, "user"}] :
     w \in {v \in Sound : v.role = "full" /\ Default \in DOMAIN v.shared},
     u \in {{}, {"ini"}, {"shared"}}, b \in {"none", "unparsed"}}
-----------------------------------------------------------------------------
MCDefaults == [max |-> 5, policies |-> [n \in {"socket", "server"} |-> <<"def", n>>]]

Policy(n, o) == [m \in {n} |-> o]
MCOwn ==
  [rds |-> [max |-> NoValue, policies |-> Policy("throttling", <<"def", "throttling">>)],
   sns |-> [max |-> NoValue, policies |-> Policy("throttling", <<"def", "throttling">>)],
   emr |-> [max |-> NoValue, policies |-> Policy("throttling", <<"def", "throttling_exception">>)],
   ec2 |-> [max |-> NoValue, policies |-> Policy("limit", <<"ec2", "limit">>)],
   sqs |-> [max |-> NoValue, policies |-> Policy("limit", <<"sqs", "limit">>)],
   dynamodb |-> [max |-> 10, policies |-> Policy("crc32", <<"dynamodb", "crc32">>)]]
MCWritten ==
  [o \in {<<"def", n>> : n \in {"socket", "server", "throttling", "throttling_exception"}}
         \cup {<<"ec2", "limit">>, <<"sqs", "limit">>, <<"dynamodb", "crc32">>} |-> o]

Everywhere == {NoValue} \cup Region
Rule(uri, regions, scope, signature) ==
  [uri |-> uri, regions |-> regions, scope |-> scope, signature |-> signature]
MCRules ==
  [r \in {"_default", "rds", "sqs", "iam", "s3", "dynamodb"} |->
     CASE r = "_default" -> <<Rule("cn", {"cn"}, NoValue, "v4"), Rule("com", Region, NoValue, NoValue)>>
       [] r = "rds" -> <<Rule("rds", {"east"}, NoValue, NoValue)>>
       [] r = "sqs" -> <<Rule("queue", {"east"}, NoValue, NoValue), Rule("cn", {"cn"}, NoValue, NoValue),
                         Rule("com", Region, NoValue, NoValue)>>
       [] r = "iam" -> <<Rule("cn", {"cn"}, NoValue, NoValue), Rule("gov", {"gov"}, NoValue, NoValue),
                         Rule("iam", Everywhere, "east", NoValue)>>
       [] r = "s3" -> <<Rule("s3", {"east", NoValue}, "east", NoValue), Rule("cn", {"cn"}, NoValue, "s3v4"),
                        Rule("s3-west", {"east", "west", "gov"}, NoValue, NoValue),
                        Rule("com", Region, NoValue, "s3v4")>>
       [] r = "dynamodb" -> <<Rule("localhost", {"local"}, "east", NoValue)>>]

\* ec2 has three versions, in two search paths; the oldest of iam is newer
\* than what get_service asks for.
MCPaths ==
  LET Has(ec2, rest) == [s \in Service |-> IF s = "ec2" THEN ec2
                                           ELSE IF s = "iam" THEN {4} ELSE rest]
  IN  <<[Has({1, 2}, {}) EXCEPT !["iam"] = {}], Has({2, 4}, {1})>>
-----------------------------------------------------------------------------
AnyWorld == CHOOSE w \in MCWorlds : TRUE
SessionStep ==
  /\ creations = 0
  /\ Next /\ UNCHANGED clientVars
ClientsStep ==
  /\ steps = 0 /\ world = AnyWorld
  /\ ClientsNext /\ UNCHANGED vars

MCInit == Init /\ ClientsInit
MCSpec == MCInit /\ [][SessionStep \/ ClientsStep]_<<vars, clientVars>>
=============================================================================
