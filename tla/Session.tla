------------------------------ MODULE Session ------------------------------
(***************************************************************************)
(* One session (src/botocore/session.py): the profile, the variables, the  *)
(* lazily made components and the cached credentials that clients are made *)
(* of, with the configuration files (config.py) and the chain of           *)
(* credential providers (credentials.py) they come from.                   *)
(*                                                                         *)
(* A value is named for where it comes from: the profile whose section has *)
(* it, or "instance", "env", "default", "user".  The files and the         *)
(* environment do not change while the session lives.                      *)
(***************************************************************************)
EXTENDS Naturals, Sequences, SequencesExt

CONSTANTS
  Profile,     \* names of profiles
  Default,     \* the one called "default"
  None,        \* no value
  Worlds,      \* the files and environments a session may find
  MaxSteps     \* bound on the operations of a session

\* A world is [ini, shared, unparsed, env, envKeys, ec2, boto, role, noRules]: the
\* sections of the config file, those of the credentials file, which of the two
\* cannot be parsed, the variables in the environment, the keys ("none", "partial",
\* "full", "unparsed") in the environment, in the two other files and of the role of
\* the instance, and the loaders that find no endpoint rules, or garbled ones.
ASSUME SessionAssumption ==
  /\ Default \in Profile /\ None \notin Profile
  /\ MaxSteps \in Nat

VARIABLES
  world,       \* files and environment
  profile,     \* session.profile
  overrides,   \* _session_instance_vars
  provider,    \* _provider
  store,       \* components, _credentials, whether _config is set, the last error
  clients,     \* clients made
  epoch,       \* assignments to session.profile (history)
  replaced,    \* whether a loader was registered since the last of them (history)
  steps        \* operations so far

vars == <<world, profile, overrides, provider, store, clients, epoch, replaced, steps>>

Var == {"profile", "provider", "region", "data_path"}
NoSection == [keys |-> "none", sets |-> {}]
Origin == Profile \cup {None, "instance", "env", "default", "user"}
Fail(s, e) == [s EXCEPT !.error = e]
-----------------------------------------------------------------------------
\* The configuration.

\* full_config, whose first read parses both files: a config file that cannot be
\* parsed raises at every read; a credentials file only at the first, since _config
\* is set by then, and is ignored from then on.
ReadConfig(s) ==
  IF s.read THEN s
  ELSE IF "ini" \in world.unparsed THEN Fail(s, "ConfigParseError")
  ELSE IF "shared" \in world.unparsed THEN Fail([s EXCEPT !.read = TRUE], "ConfigParseError")
  ELSE [s EXCEPT !.read = TRUE]

\* build_profile_map: sections "profile x", and the section "default".
ConfigProfiles ==
  [p \in {q \in Profile : <<"profile", q>> \in DOMAIN world.ini
                          \/ (q = Default /\ <<"bare", q>> \in DOMAIN world.ini)}
     |-> IF <<"profile", p>> \in DOMAIN world.ini THEN world.ini[<<"profile", p>>]
         ELSE world.ini[<<"bare", p>>]]

\* What full_config holds: the sections of the credentials file update the profiles.
FullConfig ==
  LET Section(f, p) == IF p \in DOMAIN f THEN f[p] ELSE NoSection
      shared == IF "shared" \in world.unparsed THEN << >> ELSE world.shared
  IN  [p \in DOMAIN ConfigProfiles \cup DOMAIN shared |->
         [keys |-> IF Section(shared, p).keys = "none" THEN Section(ConfigProfiles, p).keys
                   ELSE Section(shared, p).keys,
          sets |-> Section(shared, p).sets \cup Section(ConfigProfiles, p).sets]]

ProfileVariable ==
  CASE "profile" \in DOMAIN overrides      -> overrides["profile"]
    [] "profile" \notin DOMAIN overrides /\ profile # None -> profile
    [] "profile" \notin DOMAIN overrides /\ profile = None ->
         IF "profile" \in DOMAIN world.env THEN world.env["profile"] ELSE None

ProfileName == IF ProfileVariable = None THEN Default ELSE ProfileVariable

\* get_scoped_config: what it returns, and what it does to a store without error.
UnknownProfile == ProfileVariable # None /\ ProfileVariable \notin DOMAIN FullConfig
ScopedConfig == IF ProfileName \in DOMAIN FullConfig THEN FullConfig[ProfileName] ELSE NoSection
ReadScoped(s) ==
  LET read == ReadConfig(s)
  IN  IF read.error = "none" /\ UnknownProfile THEN Fail(read, "ProfileNotFound") ELSE read

\* get_config_variable of a variable that the config file may set.
ReadVariable(s, v) ==
  IF v \in DOMAIN overrides \/ v \in DOMAIN world.env THEN s ELSE ReadScoped(s)
Value(v) ==
  IF v \in DOMAIN overrides THEN overrides[v]
  ELSE IF v \in DOMAIN world.env THEN "env"
  ELSE IF v \in ScopedConfig.sets THEN ProfileName
  ELSE IF v = "provider" THEN "default" ELSE None
-----------------------------------------------------------------------------
\* The chain of credential providers.

EnvSource == [source |-> "env", of |-> None, keys |-> world.envKeys]
EC2Source == [source |-> "ec2", of |-> None, keys |-> world.ec2]
BotoSource == [source |-> "boto", of |-> None, keys |-> world.boto]
RoleSource == [source |-> "role", of |-> None, keys |-> world.role]
KeysOf(sections, p) == IF p \in DOMAIN sections THEN sections[p].keys ELSE "none"
FileKeys(file, sections, p) ==
  IF file \in world.unparsed THEN "unparsed" ELSE KeysOf(sections, p)
\* (mutant: profile_name is not used)
SharedSource_Default(p) ==
  [source |-> "shared", of |-> Default, keys |-> FileKeys("shared", world.shared, Default)]
SharedSource(p) == [source |-> "shared", of |-> p, keys |-> FileKeys("shared", world.shared, p)]
ConfigSource(p) == [source |-> "config", of |-> p, keys |-> FileKeys("ini", ConfigProfiles, p)]

\* create_credential_resolver, for a resolver made in that profile.
Providers(resolver) ==
  (IF resolver.env THEN <<EnvSource>> ELSE << >>)
    \o <<SharedSource(resolver.of), ConfigSource(resolver.of), EC2Source, BotoSource, RoleSource>>

NoCreds == [source |-> "none", of |-> None, loaded |-> 0]

\* load_credentials: the first provider that finds an access key or a file it cannot
\* parse, 0 if none does.
Found(resolver) == SelectInSeq(Providers(resolver), LAMBDA p : p.keys # "none")
-----------------------------------------------------------------------------
\* The components: deferred, made, or lost (popped and never made).

Deferred == [state |-> "deferred", of |-> None, env |-> FALSE]
Lost == [Deferred EXCEPT !.state = "lost"]
Made(of, env) == [state |-> "made", of |-> of, env |-> env]

\* get_component pops the factory of a deferred component and then calls it, so that
\* a component whose factory raises is lost.
\* (Mutant of GetLoader: it pops the component as well.)
GetLoader_Popped(s) ==
  LET read == ReadVariable(s, "data_path")
  IN  IF s.error # "none" THEN s
      ELSE IF s.loader.state = "lost" THEN Fail(s, "UnknownComponent")
      ELSE IF s.loader.state = "made" THEN [s EXCEPT !.loader = Lost]
      ELSE IF read.error # "none" THEN [read EXCEPT !.loader = Lost]
      ELSE [read EXCEPT !.loader = Made(Value("data_path"), FALSE)]

GetLoader(s) ==
  LET read == ReadVariable(s, "data_path")
  IN  IF s.error # "none" \/ s.loader.state = "made" THEN s
      ELSE IF s.loader.state = "lost" THEN Fail(s, "UnknownComponent")
      ELSE IF read.error # "none" THEN [read EXCEPT !.loader = Lost]
      ELSE [read EXCEPT !.loader = Made(Value("data_path"), FALSE)]

\* The factory of the endpoint rules gets the loader first.
GetEndpoints(s) ==
  LET read == GetLoader([s EXCEPT !.endpoints = Lost])
  IN  IF s.error # "none" \/ s.endpoints.state = "made" THEN s
      ELSE IF s.endpoints.state = "lost" THEN Fail(s, "UnknownComponent")
      ELSE IF read.error # "none" THEN read
      ELSE IF read.loader.of \in world.noRules THEN Fail(read, "DataNotFound")
      ELSE [read EXCEPT !.endpoints = Made(read.loader.of, FALSE)]

\* create_credential_resolver reads metadata_service_timeout, which only the
\* config file can set (mutant: the environment is searched in any case).
GetResolver_EnvAlways(s) ==
  LET read == ReadScoped(s)
  IN  IF s.error # "none" \/ s.resolver.state = "made" THEN s
      ELSE IF s.resolver.state = "lost" THEN Fail(s, "UnknownComponent")
      ELSE IF read.error # "none" THEN [read EXCEPT !.resolver = Lost]
      ELSE [read EXCEPT !.resolver = Made(ProfileName, TRUE)]

GetResolver(s) ==
  LET read == ReadScoped(s)
  IN  IF s.error # "none" \/ s.resolver.state = "made" THEN s
      ELSE IF s.resolver.state = "lost" THEN Fail(s, "UnknownComponent")
      ELSE IF read.error # "none" THEN [read EXCEPT !.resolver = Lost]
      ELSE [read EXCEPT !.resolver = Made(ProfileName, profile = None)]

\* Session.get_credentials.
LoadCredentials(s) ==
  LET made == GetResolver(s)
      found == Found(made.resolver)
      from == Providers(made.resolver)[found]
  IN  IF s.error # "none" \/ s.creds # NoCreds THEN s
      ELSE IF made.error # "none" \/ found = 0 THEN made
      ELSE IF from.keys = "unparsed" THEN Fail(made, "ConfigParseError")
      ELSE IF from.keys = "partial" THEN Fail(made, "PartialCredentials")
      ELSE [made EXCEPT !.creds = [source |-> from.source, of |-> from.of, loaded |-> epoch]]
-----------------------------------------------------------------------------
NewComponents(s) ==
  [s EXCEPT !.resolver = Deferred, !.loader = Deferred, !.endpoints = Deferred]

Init ==
  /\ world \in Worlds
  /\ profile = None
  /\ overrides = << >>
  /\ provider = None
  /\ store = [resolver |-> Deferred, loader |-> Deferred, endpoints |-> Deferred,
              creds |-> NoCreds, read |-> FALSE, error |-> "none"]
  /\ clients = {}
  /\ epoch = 0
  /\ replaced = FALSE
  /\ steps = 0

Step == steps < MaxSteps /\ steps' = steps + 1 /\ UNCHANGED world
Fresh == [store EXCEPT !.error = "none"]
StoreOnly == UNCHANGED <<profile, overrides, provider, clients, epoch, replaced>>

\* Mutant of SetProfile: the endpoint rules stay.
SetProfile_KeepEndpoints(p) ==
  /\ Step
  /\ profile' = p
  /\ provider' = None
  /\ store' = [NewComponents(Fresh) EXCEPT !.endpoints = store.endpoints]
  /\ epoch' = epoch + 1
  /\ replaced' = FALSE
  /\ UNCHANGED <<overrides, clients>>

\* session.profile = p.
SetProfile(p) ==
  /\ Step
  /\ profile' = p
  /\ provider' = None
  /\ store' = NewComponents(Fresh)
  /\ epoch' = epoch + 1
  /\ replaced' = FALSE
  /\ UNCHANGED <<overrides, clients>>

\* set_config_variable.
SetVariable(v, value) ==
  /\ Step
  /\ overrides' = [w \in DOMAIN overrides \cup {v} |-> IF w = v THEN value ELSE overrides[w]]
  /\ store' = Fresh
  /\ UNCHANGED <<profile, provider, clients, epoch, replaced>>

\* session.provider.
GetProvider ==
  /\ Step
  /\ LET read == ReadVariable(Fresh, "provider")
     IN  IF provider # None THEN store' = Fresh /\ UNCHANGED provider
         ELSE /\ store' = read
              /\ provider' = IF read.error = "none" THEN Value("provider") ELSE None
  /\ UNCHANGED <<profile, overrides, clients, epoch, replaced>>

SetCredentials ==
  /\ Step
  /\ store' = [Fresh EXCEPT !.creds = [source |-> "explicit", of |-> None, loaded |-> epoch]]
  /\ StoreOnly

GetCredentials ==
  /\ Step
  /\ store' = LoadCredentials(Fresh)
  /\ StoreOnly

\* get_data, get_component.
GetData ==
  /\ Step
  /\ store' \in {GetLoader(Fresh), GetEndpoints(Fresh)}
  /\ StoreOnly

\* register_component('data_loader', ...).
RegisterLoader ==
  /\ Step
  /\ store' = [Fresh EXCEPT !.loader = Made("user", FALSE)]
  /\ replaced' = TRUE
  /\ UNCHANGED <<profile, overrides, provider, clients, epoch>>

\* create_client, up to the call of ClientCreator.create_client, whose
\* arguments include get_scoped_config().
CreateClient(givenRegion, givenKeys) ==
  LET region == IF givenRegion THEN Fresh ELSE ReadVariable(Fresh, "region")
      loader == GetLoader(region)
      creds == IF givenKeys THEN loader ELSE LoadCredentials(loader)
      last == GetEndpoints(creds)
      scoped == IF last.error = "none" THEN ReadScoped(last) ELSE last
  IN  /\ Step
      /\ store' = scoped
      /\ IF scoped.error # "none" THEN UNCHANGED clients
         ELSE clients' = clients \cup
                {[region |-> IF givenRegion THEN "user" ELSE Value("region"),
                  creds |-> IF givenKeys THEN [NoCreds EXCEPT !.source = "explicit"]
                            ELSE scoped.creds,
                  loader |-> scoped.loader.of, endpoints |-> scoped.endpoints.of,
                  scope |-> ProfileName, chosen |-> profile # None,
                  epoch |-> epoch, replaced |-> replaced,
                  variable |-> "profile" \in DOMAIN overrides]}
      /\ UNCHANGED <<profile, overrides, provider, epoch, replaced>>

Next ==
  \/ \E p \in Profile \cup {None} : SetProfile(p)
  \/ \E p \in Profile : SetVariable("profile", p)
  \/ \E v \in Var \ {"profile"} : SetVariable(v, "instance")
  \/ GetProvider
  \/ SetCredentials
  \/ GetCredentials
  \/ GetData
  \/ RegisterLoader
  \/ \E givenRegion, givenKeys \in BOOLEAN : CreateClient(givenRegion, givenKeys)

Spec == Init /\ [][Next]_vars
-----------------------------------------------------------------------------
\* A client uses keys of the profile whose configuration it has: the files'
\* keys differ from its scope only if they were cached before session.profile
\* was assigned, or the profile came from set_config_variable, which resets nothing
\* (the setter of profile, create_credential_resolver, get_credentials).
ClientOfOneProfile ==
  \A c \in clients :
    c.creds.source \in {"shared", "config"} /\ c.creds.of # c.scope =>
      c.creds.loaded < c.epoch \/ c.variable

\* Keys of the environment never serve a client made under an explicitly
\* chosen profile, unless they were cached before it was chosen.
ChosenProfileBeatsEnvironment ==
  \A c \in clients : c.creds.source = "env" /\ c.chosen => c.creds.loaded < c.epoch

\* The two together: what a client signs with belongs to the profile that it was made
\* under, but for keys that an assignment of session.profile has left cached.
KeysOfTheProfile == ClientOfOneProfile /\ ChosenProfileBeatsEnvironment

\* The endpoint rules of a client were read by the loader that its service
\* model is read by, unless the user replaced the loader in between.
OneLoaderPerClient == \A c \in clients : c.endpoints # c.loader => c.replaced

\* A component is lost only by a factory that fails: on an unknown profile, on the
\* first read of files of which one cannot be parsed, or, for the endpoint rules, on a
\* loader that is lost or does not find them (session.py 865, 194-200, 362).  It stays
\* lost when the profile becomes known, when the credentials file is ignored, and when
\* another loader would find the rules, until session.profile is assigned or, for the
\* loader, the user registers another.
MayFail(n) ==
  \/ UnknownProfile
  \/ world.unparsed # {} /\ ~ store.read
  \/ n = "endpoints" /\ (store.loader.state = "lost" \/ store'.loader.of \in world.noRules)
LossOutlastsItsCause ==
  [][\A n \in {"resolver", "loader", "endpoints"} :
       /\ store[n].state # "lost" /\ store'[n].state = "lost" => MayFail(n)
       /\ store[n].state = "lost" /\ store'[n].state # "lost" =>
            epoch' > epoch \/ (n = "loader" /\ store'[n].of = "user")]_vars
=============================================================================
