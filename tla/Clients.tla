------------------------------ MODULE Clients ------------------------------
(***************************************************************************)
(* The clients and services that one session makes one after the other     *)
(* (src/botocore/client.py, service.py): the version of the service model  *)
(* the loader picks (loaders.py), the retry configuration that             *)
(* build_retry_config merges (translate.py), and the endpoint rule, region *)
(* and signature version of the client (regions.py, endpoint.py).          *)
(*                                                                         *)
(* What the JSON files hold is aliased: the loader returns the same object *)
(* to every reader, a reference is replaced by the definition itself, and  *)
(* merging writes into both.  A policy is therefore an object, <<owner,    *)
(* name>>, and heap says what each object holds now.                       *)
(***************************************************************************)
EXTENDS Naturals, Sequences, SequencesExt, FiniteSetsExt, Functions

CONSTANTS
  Service,     \* endpoint prefixes
  NoValue,     \* None, also as a region
  Region,      \* regions, NoValue excluded
  Defaults,    \* _retry.json, __default__: [max |-> , policies |-> [name -> object]]
  Own,         \* _retry.json, each service: the same, max NoValue when it has none
  Written,     \* what every policy object of _retry.json holds
  Rules,       \* _endpoints.json: rules of each service and of "_default", in order
  Paths,       \* search paths in order: the versions each has of each service
  Wanted,      \* the version get_service asks for
  MaxCreations \* bound on the clients and services made

\* _retry.json: a policy that a service writes out is referred to by nobody
\* else, and a definition is referred to under one name.
Sections == {Defaults} \cup {Own[s] : s \in DOMAIN Own}
RetryFile ==
  /\ \A a \in Sections : \A n \in DOMAIN a.policies : a.policies[n] \in DOMAIN Written
  /\ \A a, b \in Sections : \A n \in DOMAIN a.policies, m \in DOMAIN b.policies :
       a.policies[n] = b.policies[m] => n = m
  /\ \A n \in DOMAIN Defaults.policies : Defaults.policies[n][1] \notin DOMAIN Own
  /\ \A s \in DOMAIN Own : \A n \in DOMAIN Own[s].policies :
       Own[s].policies[n][1] \in DOMAIN Own => Own[s].policies[n][1] = s

ASSUME ClientsAssumption == NoValue \notin Region /\ MaxCreations \in Nat /\ RetryFile

VARIABLES
  heap,        \* the merged defaults and the policy objects of the loader's cache
  registered,  \* the session's handlers with unique id retry-config-<prefix>
  served,      \* the clients made, by service and retries
  last,        \* the arguments of the last of them
  services,    \* Service objects made
  creations

clientVars == <<heap, registered, served, last, services, creations>>

NoHandler == [registered |-> FALSE]
-----------------------------------------------------------------------------
\* The loader.

Versions(s) == UNION {Paths[i][s] : i \in DOMAIN Paths}

\* The directories hold finitely many versions, which compare as numbers do.
DataFiles ==
  /\ Paths \in Seq([Service -> SUBSET Nat])
  /\ \A s \in Service : IsFiniteSet(Versions(s))

ASSUME DataAssumption == NoValue \notin Nat /\ Wanted \in Nat /\ DataFiles

\* sorted(all_options, reverse=True)
SortedReverse(options) ==
  CHOOSE q \in [1..Cardinality(options) -> options] :
    \A i, j \in 1..Cardinality(options) : i < j => q[i] > q[j]

\* determine_latest: the options in reverse order, up to the first that fits
\* (mutant: in order).
DetermineLatest_Oldest(s, wanted) ==
  LET options == Reverse(SortedReverse(Versions(s)))
      found == SelectInSeq(options, LAMBDA v : wanted = NoValue \/ v =< wanted)
  IN  IF found = 0 THEN NoValue ELSE options[found]

DetermineLatest(s, wanted) ==
  LET options == SortedReverse(Versions(s))
      found == SelectInSeq(options, LAMBDA v : wanted = NoValue \/ v =< wanted)
  IN  IF found = 0 THEN NoValue ELSE options[found]

\* _load_data: the first search path that has the file.
PathOf(s, version) == SelectInSeq(Paths, LAMBDA p : version \in p[s])
-----------------------------------------------------------------------------
\* The retry configuration.

FreshDefaults == [max |-> Defaults.max, policies |-> Defaults.policies, holds |-> Written]

\* merge_dicts: policies of a name that is there are written into the object
\* found there (whose keys are the same), the others are linked.
Merge(h, s) ==
  LET both == DOMAIN h.policies \cap DOMAIN Own[s].policies
      new == [o \in {h.policies[n] : n \in both} |->
                h.holds[Own[s].policies[CHOOSE n \in both : h.policies[n] = o]]]
  IN  [max |-> IF Own[s].max = NoValue THEN h.max ELSE Own[s].max,
       policies |-> [n \in DOMAIN h.policies \cup DOMAIN Own[s].policies |->
                       IF n \in DOMAIN h.policies THEN h.policies[n] ELSE Own[s].policies[n]],
       holds |-> [o \in DOMAIN h.holds |-> IF o \in DOMAIN new THEN new[o] ELSE h.holds[o]]]

\* Mutant of BuildRetryConfig: the defaults take precedence.
BuildRetryConfig_DefaultsWin(h, s) ==
  IF s \in DOMAIN Own THEN [Merge(h, s) EXCEPT !.holds = h.holds, !.max = h.max] ELSE h

\* Mutant: the merge replaces the objects of the defaults.
BuildRetryConfig_NoDefaults(h, s) ==
  IF s \in DOMAIN Own THEN [Merge(h, s) EXCEPT !.policies = Own[s].policies] ELSE h

\* build_retry_config, for a service without configuration too.
BuildRetryConfig(h, s) == IF s \in DOMAIN Own THEN Merge(h, s) ELSE h

\* create_retry_handler keeps the values, not the objects.
Handler(h) == [max |-> h.max, policies |-> [n \in DOMAIN h.policies |-> h.holds[h.policies[n]]]]

\* register with the unique id: the first handler stays.
Register_Again(s, h) == registered' = [registered EXCEPT ![s] = Handler(h)]

Register(s, h) ==
  registered' = [registered EXCEPT ![s] = IF @ = NoHandler THEN Handler(h) ELSE @]
-----------------------------------------------------------------------------
\* The endpoint rules that match a service in a region.

RulesOf(s) == IF s \in DOMAIN Rules THEN Rules[s] ELSE << >>

NoMatch == [error |-> "UnknownEndpoint"]

\* _match_rules: the first whose constraints hold.
MatchRules(rules, region) ==
  LET found == SelectInSeq(rules, LAMBDA r : region \in r.regions)
  IN  IF found = 0 THEN NoMatch ELSE rules[found]

\* construct_endpoint: the service's rules, then the default ones.
ConstructEndpoint(s, region) ==
  LET own == MatchRules(RulesOf(s), region)
  IN  IF own = NoMatch THEN MatchRules(Rules["_default"], region) ELSE own

\* _endpoints.json: hosts of other regions that are signed for a scope agree on
\* the signature version with the hosts of the scope.
EndpointsFile ==
  /\ "_default" \in DOMAIN Rules
  /\ \A s \in DOMAIN Rules : Rules[s] \in Seq(Range(Rules[s]))
  /\ \A s \in Service : \A r \in Range(RulesOf(s)) \cup Range(Rules["_default"]) :
       r.scope # NoValue => ConstructEndpoint(s, r.scope).signature = r.signature

ASSUME EndpointsAssumption == EndpointsFile

\* _determine_region_name: the rule's credential scope, unless the user gave
\* both a url and a region.
DetermineRegion_Always(rule, region, url) == IF rule.scope # NoValue THEN rule.scope ELSE region

DetermineRegion(rule, region, url) ==
  IF rule.scope # NoValue /\ ~ (url /\ region # NoValue) THEN rule.scope ELSE region

NoRule == [uri |-> "url", regions |-> {}, scope |-> NoValue, signature |-> NoValue]

\* create_endpoint: a url makes up for a rule that is missing.
HostRule(s, region, url) ==
  LET found == ConstructEndpoint(s, region)
  IN  IF found = NoMatch /\ url THEN NoRule ELSE found

\* _get_client_args: the endpoint with the region asked for, then the
\* signature version from the rule of the region the endpoint ended up with.
ClientArgs(s, region, url) ==
  LET host == HostRule(s, region, url)
      name == DetermineRegion(host, region, url)
      signs == ConstructEndpoint(s, name)
  IN  IF host = NoMatch \/ signs = NoMatch THEN NoMatch
      ELSE [error |-> "none", host |-> host, region |-> name, signs |-> signs,
            asked |-> region, url |-> url]
-----------------------------------------------------------------------------
ClientsInit ==
  /\ heap = FreshDefaults
  /\ registered = [s \in Service |-> NoHandler]
  /\ served = {}
  /\ last = [error |-> "no client"]
  /\ services = {}
  /\ creations = 0

Creation == creations < MaxCreations /\ creations' = creations + 1

\* ClientCreator.create_client: the service model is loaded, and the retry
\* handler registered, twice; then the arguments may fail.
MakeClient(s, region, url) ==
  LET built == BuildRetryConfig(heap, s)
      args == ClientArgs(s, region, url)
  IN  /\ Creation
      /\ DetermineLatest(s, NoValue) # NoValue
      /\ Register(s, built)
      /\ heap' = BuildRetryConfig(built, s)
      /\ IF args.error # "none" THEN UNCHANGED <<served, last>>
         ELSE /\ served' = served \cup
                   {[service |-> s, retries |-> registered'[s],
                     first |-> heap = FreshDefaults /\ registered[s] = NoHandler]}
              /\ last' = args
      /\ UNCHANGED services

\* register_retries_for_service, the handler of service-data-loaded.
ServiceDataLoaded(s) ==
  LET built == BuildRetryConfig(heap, s)
  IN  /\ Register(s, built)
      /\ heap' = BuildRetryConfig(built, s)

\* get_service: the event is emitted for the data and again for the model.
GetService(s) ==
  LET version == DetermineLatest(s, Wanted)
  IN  /\ Creation
      /\ IF version = NoValue THEN UNCHANGED <<heap, registered, services>>
         ELSE /\ ServiceDataLoaded(s)
              /\ services' = services \cup {<<s, version, PathOf(s, version)>>}
      /\ UNCHANGED <<served, last>>

\* session.profile is assigned: a new loader reads the files again, while the
\* emitter keeps its handlers.
NewLoader ==
  /\ Creation
  /\ heap' = FreshDefaults
  /\ UNCHANGED <<registered, served, last, services>>

ClientsNext ==
  \/ \E s \in Service, r \in Region \cup {NoValue}, url \in BOOLEAN : MakeClient(s, r, url)
  \/ \E s \in Service : GetService(s)
  \/ NewLoader

ClientsSpec == ClientsInit /\ [][ClientsNext]_clientVars
-----------------------------------------------------------------------------
Objects == DOMAIN Written

\* What a reader of _retry.json expects of a service.
AsWritten(s) ==
  LET own == IF s \in DOMAIN Own THEN Own[s] ELSE [max |-> NoValue, policies |-> << >>]
  IN  [max |-> IF own.max = NoValue THEN Defaults.max ELSE own.max,
       policies |-> [n \in DOMAIN Defaults.policies \cup DOMAIN own.policies |->
                       Written[IF n \in DOMAIN own.policies THEN own.policies[n]
                               ELSE Defaults.policies[n]]]]

\* The clients of a service all retry alike, although the configuration they
\* were built from changes under them and the loader may be a new one
\* (the unique id of _register_retries).
RetriesAreStable ==
  \A c, d \in served : c.service = d.service => c.retries = d.retries

\* A policy that a service writes out itself, and its own maximum, are what
\* its clients retry on, whatever services were built before
\* (build_retry_config: "the service specific defaults taking precedence").
OwnPoliciesAreKept ==
  \A c \in served : c.service \in DOMAIN Own =>
    /\ Own[c.service].max \in {NoValue, c.retries.max}
    /\ \A n \in DOMAIN Own[c.service].policies :
         Own[c.service].policies[n][1] = c.service =>
           c.retries.policies[n] = Written[Own[c.service].policies[n]]

\* The first client of a session retries exactly as the file says, and no
\* later one lacks a policy that the file gives it.
FirstRetriesAsWritten ==
  \A c \in served :
    /\ c.first => c.retries = AsWritten(c.service)
    /\ DOMAIN AsWritten(c.service).policies \subseteq DOMAIN c.retries.policies

\* The two together: what of _retry.json reaches a client although every service is
\* merged into the defaults that the services before have changed.
RetriesAsWritten == OwnPoliciesAreKept /\ FirstRetriesAsWritten

\* Requests are signed for the region asked for unless the rule of the host
\* has another, and with the signature version of the rule of the host
\* although the version is looked up again, in the region found first.
SignedWhereItIsServed ==
  last.error = "none" =>
    /\ last.region # last.asked =>
         last.host.scope = last.region /\ ~ (last.url /\ last.asked # NoValue)
    /\ ~ last.url => last.signs.signature = last.host.signature

\* The model of a Service is the newest that is compatible with the version
\* asked for, from the first search path that has it (determine_latest and
\* _load_data search separately).
ServiceIsCompatible ==
  \A x \in services :
    /\ x[2] =< Wanted /\ \A v \in Versions(x[1]) : v =< Wanted => v =< x[2]
    /\ x[2] \in Paths[x[3]][x[1]] /\ \A i \in 1..(x[3] - 1) : x[2] \notin Paths[i][x[1]]
=============================================================================
