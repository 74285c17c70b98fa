--------------------------- MODULE SessionProofs ---------------------------
(***************************************************************************)
(* A session keeps its promises to the clients that are made of it, over   *)
(* any files and environment and any number of operations.                 *)
(*                                                                         *)
(* The properties speak of clients.  StoreRight says what the store must   *)
(* hold when one is made of it: a component was made under the profile     *)
(* that is in force, as assigning session.profile drops all components,    *)
(* unless set_config_variable has changed it, which drops none.            *)
(*                                                                         *)
(* The second part is about the retry handlers of those clients (Clients), *)
(* the last about their model versions and signing regions.                *)
(***************************************************************************)
EXTENDS Session, Clients, FiniteSetTheorems, WellFoundedInduction, TLAPS

\* A non-empty set of indices has a least element: < is well founded on the naturals.
LEMMA LeastIndex ==
  ASSUME NEW n \in Nat, NEW T \in SUBSET (1..n), T # {}
  PROVE  \E m \in T : \A k \in T : m <= k
<1> DEFINE Less == {p \in Nat \X Nat : p[1] < p[2]}
<1>1. IsWellFoundedOn(Less, Nat)
  BY NatLessThanWellFounded DEF OpToRel
<1>2. T \subseteq Nat
  OBVIOUS
<1>3. PICK m \in T : \A k \in T : ~ (<<k, m>> \in Less)
  <2> HIDE DEF Less
  <2> QED BY <1>1, <1>2, WFMin, Zenon
<1>4. \A k \in T : ~ (k < m)
  BY <1>2, <1>3
<1> QED
  BY <1>2, <1>4

Components == {"resolver", "loader", "endpoints"}

\* The fields of a store and the states of its components.
WellMade(s) ==
  /\ DOMAIN s = Components \cup {"creds", "read", "error"}
  /\ s.read \in BOOLEAN
  /\ s.resolver.state \in {"deferred", "made", "lost"}
  /\ s.loader.state \in {"deferred", "made", "lost"}
  /\ s.endpoints.state \in {"deferred", "made", "lost"}

\* Nobody has set the profile as a variable.
Unset == "profile" \notin DOMAIN overrides

\* The resolver looks where the profile in force says.
ResolverRight(s) ==
  s.resolver.state = "made" =>
    /\ Unset => s.resolver.of = ProfileName
    /\ s.resolver.env => profile = None

\* So do the credentials, if they were loaded since the profile was assigned.
CredsRight(s) ==
  /\ s.creds.loaded \in 0..epoch
  /\ s.creds.loaded = epoch /\ s.creds.source \in {"shared", "config"} /\ Unset =>
       s.creds.of = ProfileName
  /\ s.creds.loaded = epoch /\ s.creds.source = "env" => profile = None

\* The endpoint rules come from the loader that is there.
EndpointsRight(s) ==
  s.endpoints.state = "made" =>
    s.loader.state = "made" /\ (replaced \/ s.endpoints.of = s.loader.of)

StoreRight(s) ==
  WellMade(s) /\ ResolverRight(s) /\ CredsRight(s) /\ EndpointsRight(s)

ClientRight(c) ==
  /\ c.creds.source \in {"shared", "config"} /\ c.creds.of # c.scope =>
       c.creds.loaded < c.epoch \/ c.variable
  /\ c.creds.source = "env" /\ c.chosen => c.creds.loaded < c.epoch
  /\ c.endpoints # c.loader => c.replaced

SessionInv ==
  /\ epoch \in Nat
  /\ StoreRight(store)
  /\ \A c \in clients : ClientRight(c)

\* The first read of the configuration fails, or every read does.
Unreadable(s) == UnknownProfile \/ (world.unparsed # {} /\ ~ s.read)

\* From the store s to the store r: a component is lost for a reason, and for good; what
\* has been read and the loader that was made stay.
LosesOnly(s, r) ==
  /\ \A n \in Components :
       /\ s[n].state # "lost" /\ r[n].state = "lost" =>
            \/ Unreadable(s)
            \/ /\ n = "endpoints"
               /\ s.loader.state = "lost" \/ (r.loader.state = "made" /\ r.loader.of \in world.noRules)
       /\ s[n].state = "lost" => r[n].state = "lost"
  /\ s.read => r.read
  /\ s.loader.state = "made" => r.loader = s.loader

\* They have the same components and credentials.
Alike(s, r) ==
  /\ DOMAIN r = DOMAIN s
  /\ r.resolver = s.resolver /\ r.loader = s.loader /\ r.endpoints = s.endpoints
  /\ r.creds = s.creds
  /\ r.read \in BOOLEAN /\ (s.read => r.read)

\* An operation of a component keeps a store right.
Follows(s, r) == StoreRight(r) /\ LosesOnly(s, r)
-----------------------------------------------------------------------------
LEMMA LosesOnlyTransitive ==
  ASSUME NEW s, NEW r, NEW q, LosesOnly(s, r), LosesOnly(r, q)
  PROVE  LosesOnly(s, q)
<1>1. Unreadable(r) => Unreadable(s)
  BY DEF LosesOnly, Unreadable
<1>2. r.loader.state = "lost" => s.loader.state = "lost" \/ Unreadable(s)
  BY DEF LosesOnly, Components
<1> QED
  BY <1>1, <1>2 DEF LosesOnly, Components

LEMMA AlikeFollows ==
  ASSUME NEW s, StoreRight(s), NEW r, Alike(s, r)
  PROVE  Follows(s, r)
<1>1. StoreRight(r)
  BY DEF Alike, StoreRight, WellMade, ResolverRight, CredsRight, EndpointsRight
<1>2. LosesOnly(s, r)
  BY DEF Alike, LosesOnly, Components
<1> QED
  BY <1>1, <1>2 DEF Follows

LEMMA FailFollows ==
  ASSUME NEW s, StoreRight(s), NEW e
  PROVE  Alike(s, Fail(s, e)) /\ Follows(s, Fail(s, e)) /\ Fail(s, e).error = e
<1>1. Alike(s, Fail(s, e)) /\ Fail(s, e).error = e
  BY DEF Alike, Fail, StoreRight, WellMade
<1> QED
  BY <1>1, AlikeFollows

\* A read of the configuration makes and loses nothing, and fails for a reason.
LEMMA ReadFollows ==
  ASSUME NEW s, StoreRight(s), s.error = "none", NEW v
  PROVE  /\ Alike(s, ReadScoped(s)) /\ (ReadScoped(s).error # "none" => Unreadable(s))
         /\ Alike(s, ReadVariable(s, v)) /\ (ReadVariable(s, v).error # "none" => Unreadable(s))
<1> DEFINE r == ReadConfig(s)
<1>1. Alike(s, r) /\ StoreRight(r) /\ (r.error # "none" => Unreadable(s))
  <2> DEFINE q == [s EXCEPT !.read = TRUE]
  <2>1. Alike(s, q) /\ q.error = "none"
    BY DEF Alike, StoreRight, WellMade
  <2>2. StoreRight(q) /\ StoreRight(s) /\ Alike(s, s)
    BY <2>1, AlikeFollows DEF Follows, Alike, StoreRight, WellMade
  <2>3. /\ r \in {s, q, Fail(s, "ConfigParseError"), Fail(q, "ConfigParseError")}
        /\ r = s \/ r = q \/ Unreadable(s)
    BY DEF ReadConfig, Unreadable
  <2> HIDE DEF q, r
  <2>4. /\ Alike(s, Fail(s, "ConfigParseError")) /\ StoreRight(Fail(s, "ConfigParseError"))
        /\ Alike(q, Fail(q, "ConfigParseError")) /\ StoreRight(Fail(q, "ConfigParseError"))
    BY <2>2, FailFollows DEF Follows
  <2>5. Alike(s, Fail(q, "ConfigParseError"))
    BY <2>1, <2>4 DEF Alike
  <2> QED
    BY <2>1, <2>2, <2>3, <2>4, <2>5
<1>2. ReadScoped(s) = IF r.error = "none" /\ UnknownProfile THEN Fail(r, "ProfileNotFound") ELSE r
  BY DEF ReadScoped
<1> HIDE DEF r
<1>3. Alike(s, ReadScoped(s)) /\ (ReadScoped(s).error # "none" => Unreadable(s))
  <2>1. Alike(r, Fail(r, "ProfileNotFound"))
    BY <1>1, FailFollows
  <2>2. Alike(s, Fail(r, "ProfileNotFound"))
    BY <1>1, <2>1 DEF Alike
  <2> QED
    BY <1>1, <1>2, <2>2 DEF Unreadable
<1>4. ReadVariable(s, v) = s \/ ReadVariable(s, v) = ReadScoped(s)
  BY DEF ReadVariable
<1>5. Alike(s, s)
  BY DEF Alike, StoreRight, WellMade
<1> QED
  BY <1>3, <1>4, <1>5

LEMMA LoaderFollows ==
  ASSUME NEW s, StoreRight(s)
  PROVE  /\ Follows(s, GetLoader(s))
         /\ GetLoader(s).error = "none" => s.error = "none" /\ GetLoader(s).loader.state = "made"
<1> DEFINE r == GetLoader(s)
<1>1. CASE s.error # "none" \/ s.loader.state = "made"
  <2>1. r = s
    BY <1>1 DEF GetLoader
  <2> HIDE DEF r
  <2> QED
    BY <1>1, <2>1 DEF Follows, LosesOnly, r
<1>2. CASE ~ (s.error # "none" \/ s.loader.state = "made") /\ s.loader.state = "lost"
  <2>1. r = Fail(s, "UnknownComponent")
    BY <1>2 DEF GetLoader
  <2> HIDE DEF r
  <2> QED
    BY <2>1, FailFollows DEF r
<1>3. CASE ~ (s.error # "none" \/ s.loader.state = "made") /\ s.loader.state # "lost"
  <2> DEFINE read == ReadVariable(s, "data_path")
             v == Value("data_path")
  <2>1. s.loader.state = "deferred" /\ s.endpoints.state # "made"
    BY <1>3 DEF StoreRight, WellMade, EndpointsRight
  <2>2. Alike(s, read) /\ StoreRight(read) /\ (read.error # "none" => Unreadable(s))
    BY <1>3, ReadFollows, AlikeFollows DEF Follows
  <2>3. r = IF read.error # "none" THEN [read EXCEPT !.loader = Lost]
            ELSE [read EXCEPT !.loader = Made(v, FALSE)]
    BY <1>3 DEF GetLoader
  <2> HIDE DEF read, v, r
  <2>4. PICK l : /\ r = [read EXCEPT !.loader = l]
                 /\ (l = Lost /\ read.error # "none") \/ (l = Made(v, FALSE) /\ read.error = "none")
    BY <2>3
  <2>5. /\ DOMAIN r = DOMAIN read /\ r.error = read.error /\ r.read = read.read
        /\ r.resolver = read.resolver /\ r.loader = l /\ r.endpoints = read.endpoints
        /\ r.creds = read.creds
    BY <2>2, <2>4 DEF StoreRight, WellMade, Components
  <2>6. l.state \in {"lost", "made"} /\ (l.state = "made" <=> r.error = "none")
    BY <2>4, <2>5 DEF Lost, Deferred, Made
  <2>7. StoreRight(r)
    BY <2>1, <2>2, <2>5, <2>6
       DEF Alike, StoreRight, WellMade, ResolverRight, CredsRight, EndpointsRight
  <2>8. LosesOnly(s, r)
    BY <2>1, <2>2, <2>5, <2>6 DEF Alike, LosesOnly, Components
  <2> QED
    BY <1>3, <2>5, <2>6, <2>7, <2>8 DEF Follows, r
<1> QED
  BY <1>1, <1>2, <1>3

LEMMA EndpointsFollow ==
  ASSUME NEW s, StoreRight(s)
  PROVE  /\ Follows(s, GetEndpoints(s))
         /\ GetEndpoints(s).error = "none" =>
              s.error = "none" /\ GetEndpoints(s).endpoints.state = "made"
<1> DEFINE r == GetEndpoints(s)
           q == [s EXCEPT !.endpoints = Lost]
           read == GetLoader(q)
<1>1. CASE s.error # "none" \/ s.endpoints.state = "made"
  <2>1. r = s
    BY <1>1 DEF GetEndpoints
  <2> HIDE DEF r
  <2> QED
    BY <1>1, <2>1 DEF Follows, LosesOnly, r
<1>2. CASE ~ (s.error # "none" \/ s.endpoints.state = "made") /\ s.endpoints.state = "lost"
  <2>1. r = Fail(s, "UnknownComponent")
    BY <1>2 DEF GetEndpoints
  <2> HIDE DEF r
  <2> QED
    BY <2>1, FailFollows DEF r
<1>3. CASE ~ (s.error # "none" \/ s.endpoints.state = "made") /\ s.endpoints.state # "lost"
  <2>1. r = IF read.error # "none" THEN read
            ELSE IF read.loader.of \in world.noRules THEN Fail(read, "DataNotFound")
            ELSE [read EXCEPT !.endpoints = Made(read.loader.of, FALSE)]
    BY <1>3 DEF GetEndpoints
  <2>2. /\ DOMAIN q = DOMAIN s /\ q.error = s.error /\ q.read = s.read
        /\ q.resolver = s.resolver /\ q.endpoints = Lost /\ q.loader = s.loader
        /\ q.creds = s.creds
    BY DEF StoreRight, WellMade
  <2> HIDE DEF q, r
  <2>3. StoreRight(q)
    BY <2>2 DEF StoreRight, WellMade, ResolverRight, CredsRight, EndpointsRight, Lost, Deferred
  <2>4. /\ StoreRight(read) /\ LosesOnly(q, read)
        /\ read.error = "none" => read.loader.state = "made"
    BY <2>3, LoaderFollows DEF Follows
  <2> HIDE DEF read
  <2>5. s.endpoints.state = "deferred"
    BY <1>3 DEF StoreRight, WellMade
  <2>6. CASE read.error # "none"
    <3>1. r = read /\ GetLoader(q).error # "none"
      BY <2>1, <2>6 DEF read
    <3>2. q.error # "none" \/ q.loader.state # "made"
      BY <3>1 DEF GetLoader
    <3>3. q.loader.state = "lost" \/ Unreadable(q)
      <4>1. CASE q.loader.state # "lost"
        <5>1. ReadVariable(q, "data_path").error # "none"
          BY <1>3, <2>2, <3>1, <3>2, <4>1 DEF GetLoader
        <5> QED
          BY <1>3, <2>2, <2>3, <5>1, ReadFollows
      <4> QED
        BY <4>1
    <3>4. LosesOnly(s, r)
      BY <2>2, <2>4, <2>5, <3>1, <3>3 DEF LosesOnly, Components, Unreadable
    <3> QED
      BY <2>4, <2>6, <3>1, <3>4 DEF Follows, r
  <2>8. CASE read.error = "none" /\ read.loader.of \in world.noRules
    <3>1. r = Fail(read, "DataNotFound") /\ read.loader.state = "made"
      BY <2>1, <2>4, <2>8
    <3>2. Alike(read, r) /\ StoreRight(r) /\ r.error # "none"
      BY <2>4, <3>1, FailFollows DEF Follows
    <3>3. LosesOnly(s, r)
      BY <2>2, <2>4, <2>5, <2>8, <3>1, <3>2 DEF Alike, LosesOnly, Components, Unreadable
    <3> QED
      BY <3>2, <3>3 DEF Follows, r
  <2>7. CASE read.error = "none" /\ read.loader.of \notin world.noRules
    <3> DEFINE v == read.loader.of
    <3>1. r = [read EXCEPT !.endpoints = Made(v, FALSE)]
      BY <2>1, <2>7
    <3>2. /\ DOMAIN r = DOMAIN read /\ r.error = read.error /\ r.read = read.read
          /\ r.resolver = read.resolver /\ r.endpoints = Made(v, FALSE) /\ r.loader = read.loader
          /\ r.creds = read.creds
      BY <2>4, <3>1 DEF StoreRight, WellMade
    <3>3. StoreRight(r)
      BY <2>4, <2>7, <3>2 DEF StoreRight, WellMade, ResolverRight, CredsRight, EndpointsRight, Made
    <3>4. r.endpoints.state = "made"
      BY <3>2 DEF Made
    <3>5. /\ r.endpoints.state # "lost" /\ s.endpoints.state # "lost"
          /\ (s.read => r.read) /\ (s.loader.state = "made" => r.loader = s.loader)
      BY <2>2, <2>4, <2>5, <3>2, <3>4 DEF LosesOnly
    <3>6. ASSUME NEW n \in {"resolver", "loader"}
          PROVE  /\ s[n].state # "lost" /\ r[n].state = "lost" => Unreadable(s)
                 /\ s[n].state = "lost" => r[n].state = "lost"
      BY <2>2, <2>4, <3>2 DEF LosesOnly, Components, Unreadable
    <3>7. LosesOnly(s, r)
      BY <3>5, <3>6 DEF LosesOnly, Components
    <3> QED
      BY <1>3, <3>3, <3>4, <3>7 DEF Follows, r
  <2> QED
    BY <2>6, <2>7, <2>8
<1> QED
  BY <1>1, <1>2, <1>3

LEMMA ResolverFollows ==
  ASSUME NEW s, StoreRight(s)
  PROVE  /\ Follows(s, GetResolver(s))
         /\ GetResolver(s).creds = s.creds
         /\ GetResolver(s).error = "none" =>
              s.error = "none" /\ GetResolver(s).resolver.state = "made"
<1> DEFINE r == GetResolver(s)
<1>1. CASE s.error # "none" \/ s.resolver.state = "made"
  <2>1. r = s
    BY <1>1 DEF GetResolver
  <2> HIDE DEF r
  <2> QED
    BY <1>1, <2>1 DEF Follows, LosesOnly, r
<1>2. CASE ~ (s.error # "none" \/ s.resolver.state = "made") /\ s.resolver.state = "lost"
  <2>1. r = Fail(s, "UnknownComponent")
    BY <1>2 DEF GetResolver
  <2>2. r.creds = s.creds
    BY <2>1 DEF Fail, StoreRight, WellMade
  <2> HIDE DEF r
  <2> QED
    BY <2>1, <2>2, FailFollows DEF r
<1>3. CASE ~ (s.error # "none" \/ s.resolver.state = "made") /\ s.resolver.state # "lost"
  <2> DEFINE read == ReadScoped(s)
             m == Made(ProfileName, profile = None)
  <2>1. s.resolver.state = "deferred"
    BY <1>3 DEF StoreRight, WellMade
  <2>2. Alike(s, read) /\ StoreRight(read) /\ (read.error # "none" => Unreadable(s))
    BY <1>3, ReadFollows, AlikeFollows DEF Follows
  <2>3. r = IF read.error # "none" THEN [read EXCEPT !.resolver = Lost]
            ELSE [read EXCEPT !.resolver = m]
    BY <1>3 DEF GetResolver
  <2>4. m.state = "made" /\ m.of = ProfileName /\ (m.env => profile = None)
    BY DEF Made
  <2> HIDE DEF read, m, r
  <2>5. PICK l : /\ r = [read EXCEPT !.resolver = l]
                 /\ (l = Lost /\ read.error # "none") \/ (l = m /\ read.error = "none")
    BY <2>3
  <2>6. /\ DOMAIN r = DOMAIN read /\ r.error = read.error /\ r.read = read.read
        /\ r.loader = read.loader /\ r.resolver = l /\ r.endpoints = read.endpoints
        /\ r.creds = read.creds
    BY <2>2, <2>5 DEF StoreRight, WellMade, Components
  <2>7. /\ l.state \in {"lost", "made"} /\ (l.state = "made" <=> r.error = "none")
        /\ l.state = "made" => l = m
    BY <2>4, <2>5, <2>6 DEF Lost, Deferred
  <2>8. WellMade(r)
    BY <2>2, <2>6, <2>7 DEF StoreRight, WellMade
  <2>9. ResolverRight(r)
    BY <2>4, <2>6, <2>7, Zenon DEF ResolverRight
  <2>10. CredsRight(r) /\ EndpointsRight(r)
    BY <2>2, <2>6 DEF StoreRight, CredsRight, EndpointsRight
  <2>11. LosesOnly(s, r)
    BY <2>1, <2>2, <2>6, <2>7 DEF Alike, LosesOnly, Components
  <2>12. r.creds = s.creds
    BY <2>2, <2>6 DEF Alike
  <2> QED
    BY <1>3, <2>6, <2>7, <2>8, <2>9, <2>10, <2>11, <2>12 DEF Follows, StoreRight, r
<1> QED
  BY <1>1, <1>2, <1>3

\* The chain of providers asks the environment only if the resolver may, and the files
\* for the profile of the resolver.
LEMMA ProvidersOfOneProfile ==
  ASSUME NEW resolver, NEW i \in 1..Len(Providers(resolver))
  PROVE  LET p == Providers(resolver)[i]
         IN  /\ p.source \in {"shared", "config"} => p.of = resolver.of
             /\ p.source = "env" => resolver.env
<1> DEFINE rest == <<SharedSource(resolver.of), ConfigSource(resolver.of), EC2Source, BotoSource,
                     RoleSource>>
<1>1. \A j \in 1..5 : /\ rest[j].source \in {"shared", "config"} => rest[j].of = resolver.of
                      /\ rest[j].source # "env"
  BY DEF SharedSource, ConfigSource, EC2Source, BotoSource, RoleSource
<1>2. CASE resolver.env
  <2>1. Providers(resolver) = <<EnvSource>> \o rest
    BY <1>2 DEF Providers
  <2>2. EnvSource.source = "env"
    BY DEF EnvSource
  <2>3. Len(rest) = 5
    OBVIOUS
  <2> DEFINE all == <<EnvSource>> \o rest
  <2>4. Len(all) = 6 /\ all[1] = EnvSource /\ \A j \in 2..6 : all[j] = rest[j - 1]
    OBVIOUS
  <2>5. Len(Providers(resolver)) = 6 /\ Providers(resolver)[1] = EnvSource
        /\ \A j \in 2..6 : Providers(resolver)[j] = rest[j - 1]
    BY <2>1, <2>4
  <2> HIDE DEF rest, all
  <2>6. CASE i = 1
    BY <1>2, <2>2, <2>5, <2>6
  <2>7. CASE i # 1
    <3>1. i \in 2..6 /\ i - 1 \in 1..5
      BY <2>5, <2>7
    <3> QED
      BY <1>1, <2>5, <3>1
  <2> QED
    BY <2>6, <2>7
<1>3. CASE ~ resolver.env
  <2>1. Providers(resolver) = << >> \o rest
    BY <1>3 DEF Providers
  <2>2. Len(Providers(resolver)) = 5 /\ \A j \in 1..5 : Providers(resolver)[j] = rest[j]
    BY <2>1
  <2> HIDE DEF rest
  <2> QED
    BY <1>1, <2>2
<1> QED
  BY <1>2, <1>3

LEMMA FoundInChain ==
  ASSUME NEW resolver, Found(resolver) # 0
  PROVE  Found(resolver) \in 1..Len(Providers(resolver))
<1> DEFINE q == Providers(resolver)
           I == {i \in 1..Len(q) : q[i].keys # "none"}
<1>1. Found(resolver) = IF \E i \in 1..Len(q) : q[i].keys # "none" THEN Min(I) ELSE 0
  BY DEF Found, SelectInSeq
<1>2. Len(q) \in Nat
  BY DEF Providers
<1> HIDE DEF q
<1>3. I \in SUBSET (1..Len(q)) /\ I # {} /\ Found(resolver) = Min(I)
  BY <1>1
<1> HIDE DEF I
<1>4. \E m \in I : \A k \in I : m <= k
  BY <1>2, <1>3, LeastIndex
<1>5. Min(I) \in I
  BY <1>4 DEF Min
<1> QED
  BY <1>3, <1>5 DEF q

LEMMA CredentialsFollow ==
  ASSUME NEW s, StoreRight(s), epoch \in Nat
  PROVE  /\ Follows(s, LoadCredentials(s))
         /\ LoadCredentials(s).error = "none" => s.error = "none"
<1> DEFINE r == LoadCredentials(s)
           made == GetResolver(s)
           found == Found(made.resolver)
           from == Providers(made.resolver)[found]
<1>1. CASE s.error # "none" \/ s.creds # NoCreds
  <2>1. r = s
    BY <1>1 DEF LoadCredentials
  <2> HIDE DEF r
  <2> QED
    BY <2>1 DEF Follows, LosesOnly, r
<1>2. CASE ~ (s.error # "none" \/ s.creds # NoCreds)
  <2>1. r = IF made.error # "none" \/ found = 0 THEN made
            ELSE IF from.keys = "unparsed" THEN Fail(made, "ConfigParseError")
            ELSE IF from.keys = "partial" THEN Fail(made, "PartialCredentials")
            ELSE [made EXCEPT !.creds =
                    [source |-> from.source, of |-> from.of, loaded |-> epoch]]
    BY <1>2 DEF LoadCredentials
  <2>2. /\ StoreRight(made) /\ LosesOnly(s, made)
        /\ made.error = "none" => made.resolver.state = "made"
    BY ResolverFollows DEF Follows
  <2>3. found # 0 => found \in 1..Len(Providers(made.resolver))
    BY FoundInChain
  <2>4. found # 0 => /\ from.source \in {"shared", "config"} => from.of = made.resolver.of
                     /\ from.source = "env" => made.resolver.env
    BY <2>3, ProvidersOfOneProfile, Zenon
  <2> HIDE DEF made, found, from, r
  <2>5. CASE made.error # "none" \/ found = 0
    BY <1>2, <2>1, <2>2, <2>5 DEF Follows, r
  <2>6. CASE ~ (made.error # "none" \/ found = 0) /\ from.keys \in {"unparsed", "partial"}
    <3>1. PICK e \in {"ConfigParseError", "PartialCredentials"} : r = Fail(made, e)
      BY <2>1, <2>6
    <3> QED
      BY <1>2, <2>2, <3>1, FailFollows, LosesOnlyTransitive DEF Follows, r
  <2>7. CASE ~ (made.error # "none" \/ found = 0) /\ from.keys \notin {"unparsed", "partial"}
    <3> DEFINE new == [source |-> from.source, of |-> from.of, loaded |-> epoch]
    <3>1. r = [made EXCEPT !.creds = new]
      BY <2>1, <2>7
    <3>2. new.source = from.source /\ new.of = from.of /\ new.loaded = epoch
      OBVIOUS
    <3> HIDE DEF new
    <3>3. /\ DOMAIN r = DOMAIN made /\ r.read = made.read
          /\ r.resolver = made.resolver /\ r.loader = made.loader /\ r.endpoints = made.endpoints
          /\ r.creds = new
      BY <2>2, <3>1 DEF StoreRight, WellMade
    <3>4. WellMade(r) /\ ResolverRight(r) /\ EndpointsRight(r)
      BY <2>2, <3>3 DEF StoreRight, WellMade, ResolverRight, EndpointsRight
    <3>5. /\ Unset => made.resolver.of = ProfileName
          /\ made.resolver.env => profile = None
      BY <2>2, <2>7, Zenon DEF StoreRight, ResolverRight
    <3>6. CredsRight(r)
      <4>1. new.source \in {"shared", "config"} /\ Unset => new.of = ProfileName
        BY <2>4, <2>7, <3>2, <3>5
      <4>2. new.source = "env" => profile = None
        BY <2>4, <2>7, <3>2, <3>5, Zenon
      <4> QED
        BY <3>2, <3>3, <4>1, <4>2 DEF CredsRight
    <3>7. LosesOnly(s, r)
      BY <2>2, <3>3 DEF LosesOnly, Components
    <3> QED
      BY <1>2, <3>4, <3>6, <3>7 DEF Follows, StoreRight, r
  <2> QED
    BY <2>5, <2>6, <2>7
<1> QED
  BY <1>1, <1>2
-----------------------------------------------------------------------------
LEMMA InitSession == Init => SessionInv
<1> SUFFICES ASSUME Init PROVE SessionInv
  OBVIOUS
<1>1. /\ DOMAIN store = Components \cup {"creds", "read", "error"} /\ store.read \in BOOLEAN
      /\ store.resolver = Deferred /\ store.loader = Deferred /\ store.endpoints = Deferred
      /\ store.creds = NoCreds
  BY DEF Init, Components
<1>2. epoch = 0 /\ clients = {}
  BY DEF Init
<1>3. WellMade(store)
  BY <1>1 DEF WellMade, Deferred
<1>4. ResolverRight(store) /\ EndpointsRight(store)
  BY <1>1 DEF ResolverRight, EndpointsRight, Deferred
<1>5. CredsRight(store)
  BY <1>1, <1>2 DEF CredsRight, NoCreds
<1> QED
  BY <1>2, <1>3, <1>4, <1>5 DEF SessionInv, StoreRight

\* The store at the start of an operation.
LEMMA FreshFollows ==
  ASSUME SessionInv
  PROVE  Follows(store, Fresh) /\ Fresh.error = "none"
BY FailFollows DEF SessionInv, Fresh, Fail

\* The profile in force is the same unless session.profile or the variable changes.
LEMMA SameProfile ==
  ASSUME UNCHANGED <<world, profile>>, Unset, Unset'
  PROVE  ProfileName' = ProfileName
<1>1. ProfileVariable' = ProfileVariable
  BY DEF ProfileVariable, Unset
<1> QED
  BY <1>1 DEF ProfileName

\* A store that is right stays right while the profile is the same.
LEMMA StaysRight ==
  ASSUME NEW s, StoreRight(s), UNCHANGED <<world, profile, epoch>>,
         Unset' => Unset, replaced => replaced'
  PROVE  StoreRight(s)'
<1>1. Unset' => Unset /\ ProfileName' = ProfileName
  BY SameProfile
<1>2. ResolverRight(s)'
  BY <1>1, Zenon DEF StoreRight, ResolverRight
<1>3. CredsRight(s)'
  BY <1>1 DEF StoreRight, CredsRight
<1>4. EndpointsRight(s)'
  BY DEF StoreRight, EndpointsRight
<1> QED
  BY <1>2, <1>3, <1>4 DEF StoreRight, WellMade

\* An operation that replaces the store, and makes no client.
LEMMA StoreStep ==
  ASSUME SessionInv, StoreRight(store'), UNCHANGED <<world, profile, epoch, clients>>,
         Unset' => Unset, replaced => replaced'
  PROVE  SessionInv'
<1>1. StoreRight(store)'
  <2>1. \A s : StoreRight(s) => StoreRight(s)'
    BY StaysRight
  <2> QED
    BY <2>1 DEF StoreRight, WellMade, ResolverRight, CredsRight, EndpointsRight
<1> QED
  BY <1>1 DEF SessionInv, ClientRight

\* Assigning session.profile drops the components, and makes the credentials old.
LEMMA SetProfileKeeps ==
  ASSUME SessionInv, NEW p, SetProfile(p)
  PROVE  SessionInv'
<1> DEFINE s == NewComponents(Fresh)
<1>1. store' = s /\ epoch' = epoch + 1 /\ clients' = clients
  BY DEF SetProfile
<1>2. WellMade(Fresh) /\ CredsRight(Fresh)
  BY FreshFollows DEF Follows, StoreRight
<1>3. /\ DOMAIN s = DOMAIN Fresh /\ s.read = Fresh.read
      /\ s.resolver = Deferred /\ s.loader = Deferred /\ s.endpoints = Deferred
      /\ s.creds = Fresh.creds
  BY <1>2 DEF NewComponents, WellMade, Components
<1> HIDE DEF s
<1>4. WellMade(store)'
  BY <1>1, <1>2, <1>3 DEF WellMade, Deferred
<1>5. ResolverRight(store)' /\ EndpointsRight(store)'
  BY <1>1, <1>3 DEF ResolverRight, EndpointsRight, Deferred
<1>6. CredsRight(store)'
  <2>1. epoch \in Nat /\ store'.creds.loaded \in 0..epoch
    BY <1>1, <1>2, <1>3 DEF SessionInv, CredsRight
  <2>2. store'.creds.loaded \in 0..epoch' /\ store'.creds.loaded # epoch'
    BY <1>1, <2>1
  <2> QED
    BY <2>2 DEF CredsRight
<1>7. epoch' \in Nat
  BY <1>1 DEF SessionInv
<1> QED
  BY <1>1, <1>4, <1>5, <1>6, <1>7 DEF SessionInv, StoreRight, ClientRight

LEMMA SetVariableKeeps ==
  ASSUME SessionInv, NEW v, NEW value, SetVariable(v, value)
  PROVE  SessionInv'
<1>1. store' = Fresh /\ UNCHANGED <<world, profile, epoch, clients, replaced>>
  BY DEF SetVariable, Step
<1>2. Unset' => Unset
  BY DEF SetVariable, Unset
<1>3. StoreRight(store')
  BY <1>1, FreshFollows DEF Follows
<1> QED
  BY <1>1, <1>2, <1>3, StoreStep

\* What an operation that only reads does to the store.
LEMMA ReadKeeps ==
  ASSUME SessionInv, Follows(store, store'),
         UNCHANGED <<world, profile, overrides, epoch, clients, replaced>>
  PROVE  SessionInv'
<1>1. (Unset' => Unset) /\ (replaced => replaced')
  BY DEF Unset
<1> QED
  BY <1>1, StoreStep DEF Follows

\* A store follows the session's, and what follows it does too.
LEMMA FollowsOn ==
  ASSUME NEW s, NEW r, NEW q, Follows(s, r), Follows(r, q)
  PROVE  Follows(s, q)
BY LosesOnlyTransitive DEF Follows

LEMMA GetProviderFollows ==
  ASSUME SessionInv, GetProvider
  PROVE  Follows(store, store')
<1>1. store' = Fresh \/ store' = ReadVariable(Fresh, "provider")
  BY DEF GetProvider
<1>2. Follows(store, Fresh) /\ Fresh.error = "none" /\ StoreRight(Fresh)
  BY FreshFollows DEF Follows
<1>3. Follows(Fresh, ReadVariable(Fresh, "provider"))
  BY <1>2, ReadFollows, AlikeFollows
<1> QED
  BY <1>1, <1>2, <1>3, FollowsOn

LEMMA GetFollows ==
  ASSUME SessionInv, GetCredentials \/ GetData
  PROVE  Follows(store, store')
<1>1. store' \in {LoadCredentials(Fresh), GetLoader(Fresh), GetEndpoints(Fresh)}
  BY DEF GetCredentials, GetData
<1>2. Follows(store, Fresh) /\ StoreRight(Fresh)
  BY FreshFollows DEF Follows
<1>3. /\ Follows(Fresh, LoadCredentials(Fresh)) /\ Follows(Fresh, GetLoader(Fresh))
      /\ Follows(Fresh, GetEndpoints(Fresh))
  BY <1>2, CredentialsFollow, LoaderFollows, EndpointsFollow DEF SessionInv
<1> QED
  BY <1>1, <1>2, <1>3, FollowsOn

LEMMA SetCredentialsFollows ==
  ASSUME SessionInv, SetCredentials
  PROVE  Follows(store, store')
<1> DEFINE new == [source |-> "explicit", of |-> None, loaded |-> epoch]
<1>1. store' = [Fresh EXCEPT !.creds = new] /\ epoch \in Nat
  BY DEF SetCredentials, SessionInv
<1>2. StoreRight(Fresh) /\ LosesOnly(store, Fresh)
  BY FreshFollows DEF Follows
<1>3. new.source = "explicit" /\ new.loaded = epoch
  OBVIOUS
<1> HIDE DEF new
<1>4. /\ DOMAIN store' = DOMAIN Fresh /\ store'.creds = new /\ store'.read = Fresh.read
      /\ store'.resolver = Fresh.resolver /\ store'.loader = Fresh.loader
      /\ store'.endpoints = Fresh.endpoints
  BY <1>1, <1>2 DEF StoreRight, WellMade
<1>5. WellMade(store') /\ ResolverRight(store') /\ EndpointsRight(store')
  BY <1>2, <1>4 DEF StoreRight, WellMade, ResolverRight, EndpointsRight
<1>6. CredsRight(store')
  BY <1>1, <1>3, <1>4 DEF CredsRight
<1>7. LosesOnly(store, store')
  BY <1>2, <1>4 DEF LosesOnly, Components
<1> QED
  BY <1>5, <1>6, <1>7 DEF Follows, StoreRight

LEMMA RegisterLoaderKeeps ==
  ASSUME SessionInv, RegisterLoader
  PROVE  SessionInv'
<1> DEFINE new == Made("user", FALSE)
<1>1. /\ store' = [Fresh EXCEPT !.loader = new] /\ replaced' = TRUE
      /\ UNCHANGED <<world, profile, overrides, epoch, clients>>
  BY DEF RegisterLoader, Step
<1>2. new.state = "made"
  BY DEF Made
<1> HIDE DEF new
<1>3. StoreRight(Fresh)
  BY FreshFollows DEF Follows
<1>4. /\ DOMAIN store' = DOMAIN Fresh /\ store'.creds = Fresh.creds /\ store'.read = Fresh.read
      /\ store'.resolver = Fresh.resolver /\ store'.loader = new
      /\ store'.endpoints = Fresh.endpoints
  BY <1>1, <1>3 DEF StoreRight, WellMade
<1>5. WellMade(store)'
  BY <1>2, <1>3, <1>4 DEF StoreRight, WellMade
<1>6. EndpointsRight(store)'
  BY <1>1, <1>2, <1>4 DEF EndpointsRight
<1>7. Unset' <=> Unset
  BY <1>1 DEF Unset
<1>8. ProfileName' = ProfileName
  BY <1>1 DEF ProfileName, ProfileVariable
<1>9. ResolverRight(store)'
  BY <1>1, <1>3, <1>4, <1>7, <1>8, Zenon DEF StoreRight, ResolverRight
<1>10. CredsRight(store)'
  BY <1>1, <1>3, <1>4, <1>7, <1>8 DEF StoreRight, CredsRight
<1> QED
  BY <1>1, <1>5, <1>6, <1>9, <1>10 DEF SessionInv, StoreRight, ClientRight
-----------------------------------------------------------------------------
\* The store that a client is made of, and the client.
StoreFor(givenRegion, givenKeys) ==
  LET region == IF givenRegion THEN Fresh ELSE ReadVariable(Fresh, "region")
      loader == GetLoader(region)
      creds == IF givenKeys THEN loader ELSE LoadCredentials(loader)
  IN  GetEndpoints(creds)

ClientOf(givenRegion, givenKeys, s) ==
  [region |-> IF givenRegion THEN "user" ELSE Value("region"),
   creds |-> IF givenKeys THEN [NoCreds EXCEPT !.source = "explicit"] ELSE s.creds,
   loader |-> s.loader.of, endpoints |-> s.endpoints.of,
   scope |-> ProfileName, chosen |-> profile # None,
   epoch |-> epoch, replaced |-> replaced,
   variable |-> "profile" \in DOMAIN overrides]

LEMMA StoreForFollows ==
  ASSUME SessionInv, NEW givenRegion \in BOOLEAN, NEW givenKeys \in BOOLEAN
  PROVE  /\ Follows(store, StoreFor(givenRegion, givenKeys))
         /\ StoreFor(givenRegion, givenKeys).error = "none" =>
              StoreFor(givenRegion, givenKeys).endpoints.state = "made"
<1> DEFINE region == IF givenRegion THEN Fresh ELSE ReadVariable(Fresh, "region")
           loader == GetLoader(region)
           creds == IF givenKeys THEN loader ELSE LoadCredentials(loader)
<1>1. Follows(store, Fresh) /\ Fresh.error = "none" /\ StoreRight(Fresh) /\ epoch \in Nat
  BY FreshFollows DEF Follows, SessionInv
<1>2. Follows(store, region) /\ StoreRight(region)
  <2>1. region = Fresh \/ region = ReadVariable(Fresh, "region")
    OBVIOUS
  <2> HIDE DEF region
  <2>2. Follows(Fresh, ReadVariable(Fresh, "region"))
    BY <1>1, ReadFollows, AlikeFollows
  <2> QED
    BY <1>1, <2>1, <2>2, FollowsOn DEF Follows
<1>3. StoreFor(givenRegion, givenKeys) = GetEndpoints(creds)
  BY DEF StoreFor
<1> HIDE DEF region
<1>4. Follows(store, loader) /\ StoreRight(loader)
  BY <1>2, LoaderFollows, FollowsOn DEF Follows
<1> HIDE DEF loader
<1>5. Follows(store, creds) /\ StoreRight(creds)
  <2>1. creds = loader \/ creds = LoadCredentials(loader)
    OBVIOUS
  <2> HIDE DEF creds
  <2> QED
    BY <1>1, <1>4, <2>1, CredentialsFollow, FollowsOn DEF Follows
<1> HIDE DEF creds
<1> QED
  BY <1>3, <1>5, EndpointsFollow, FollowsOn

\* A client that is made of a right store is right.
LEMMA NewClientRight ==
  ASSUME SessionInv, NEW s, StoreRight(s), s.endpoints.state = "made",
         NEW givenRegion \in BOOLEAN, NEW givenKeys \in BOOLEAN
  PROVE  ClientRight(ClientOf(givenRegion, givenKeys, s))
<1> DEFINE c == ClientOf(givenRegion, givenKeys, s)
<1>1. /\ c.loader = s.loader.of /\ c.endpoints = s.endpoints.of
      /\ c.scope = ProfileName /\ c.epoch = epoch
      /\ c.creds = IF givenKeys THEN [NoCreds EXCEPT !.source = "explicit"] ELSE s.creds
  BY DEF ClientOf
<1>2. (c.chosen <=> profile # None) /\ (c.replaced <=> replaced) /\ (c.variable <=> ~ Unset)
  BY Zenon DEF ClientOf, Unset
<1> SUFFICES ClientRight(c)
  OBVIOUS
<1> HIDE DEF c
<1>3. epoch \in Nat
  BY DEF SessionInv
<1>4. c.endpoints # c.loader => c.replaced
  BY <1>1, <1>2, Zenon DEF StoreRight, EndpointsRight
<1>5. CASE givenKeys
  <2>1. c.creds.source = "explicit"
    BY <1>1, <1>5 DEF NoCreds
  <2>2. c.creds.source \notin {"shared", "config"} /\ c.creds.source # "env"
    BY <2>1
  <2> QED
    BY <1>4, <2>2, Zenon DEF ClientRight
<1>6. CASE ~ givenKeys
  <2>1. c.creds = s.creds
    BY <1>1, <1>6
  <2>2. c.creds.loaded \in 0..epoch
    BY <2>1 DEF StoreRight, CredsRight
  <2>3. c.creds.loaded < c.epoch \/ c.creds.loaded = epoch
    BY <1>1, <1>3, <2>2
  <2>4. c.creds.loaded = epoch /\ c.creds.source \in {"shared", "config"} /\ c.creds.of # c.scope =>
          c.variable
    BY <1>1, <1>2, <2>1, Zenon DEF StoreRight, CredsRight
  <2>5. c.creds.loaded = epoch /\ c.creds.source = "env" => ~ c.chosen
    BY <1>2, <2>1, Zenon DEF StoreRight, CredsRight
  <2>6. c.creds.source \in {"shared", "config"} /\ c.creds.of # c.scope =>
          c.creds.loaded < c.epoch \/ c.variable
    BY <2>3, <2>4, Zenon
  <2>7. c.creds.source = "env" /\ c.chosen => c.creds.loaded < c.epoch
    BY <2>3, <2>5, Zenon
  <2> QED
    BY <1>4, <2>6, <2>7, Zenon DEF ClientRight
<1> QED
  BY <1>5, <1>6

LEMMA CreateClientSteps ==
  ASSUME SessionInv, NEW givenRegion \in BOOLEAN, NEW givenKeys \in BOOLEAN,
         CreateClient(givenRegion, givenKeys)
  PROVE  Follows(store, store') /\ SessionInv'
<1> DEFINE ending == StoreFor(givenRegion, givenKeys)
           scoped == IF ending.error = "none" THEN ReadScoped(ending) ELSE ending
<1>1. /\ store' = scoped
      /\ IF scoped.error # "none" THEN UNCHANGED clients
         ELSE clients' = clients \cup {ClientOf(givenRegion, givenKeys, scoped)}
      /\ UNCHANGED <<world, profile, overrides, epoch, replaced>>
  BY DEF CreateClient, StoreFor, ClientOf, Step
<1>2. /\ Follows(store, ending) /\ StoreRight(ending)
      /\ ending.error = "none" => ending.endpoints.state = "made"
  BY StoreForFollows DEF Follows
<1> HIDE DEF ending
<1>3. Follows(store, scoped) /\ StoreRight(scoped)
      /\ (scoped.error = "none" => scoped.endpoints.state = "made")
  <2>1. CASE scoped = ending
    <3> HIDE DEF scoped
    <3> QED
      BY <1>2, <2>1
  <2>2. CASE ending.error = "none" /\ scoped = ReadScoped(ending)
    <3> HIDE DEF scoped
    <3>1. Alike(ending, scoped)
      BY <1>2, <2>2, ReadFollows
    <3>2. Follows(ending, scoped)
      BY <1>2, <3>1, AlikeFollows
    <3> QED
      BY <1>2, <2>2, <3>1, <3>2, FollowsOn DEF Follows, Alike
  <2> QED
    BY <2>1, <2>2
<1> HIDE DEF scoped
<1>4. \A c \in clients' : ClientRight(c)
  <2>1. scoped.error = "none" => ClientRight(ClientOf(givenRegion, givenKeys, scoped))
    BY <1>3, NewClientRight
  <2> QED
    BY <1>1, <2>1 DEF SessionInv
<1>5. StoreRight(store)'
  <2>1. Unset' <=> Unset
    BY <1>1 DEF Unset
  <2>2. ProfileName' = ProfileName
    BY <1>1 DEF ProfileName, ProfileVariable
  <2>3. ResolverRight(store)'
    BY <1>1, <1>3, <2>1, <2>2, Zenon DEF StoreRight, ResolverRight
  <2>4. CredsRight(store)'
    BY <1>1, <1>3, <2>1, <2>2 DEF StoreRight, CredsRight
  <2>5. EndpointsRight(store)' /\ WellMade(store)'
    BY <1>1, <1>3 DEF StoreRight, EndpointsRight, WellMade
  <2> QED
    BY <2>3, <2>4, <2>5 DEF StoreRight
<1> QED
  BY <1>1, <1>3, <1>4, <1>5 DEF SessionInv, ClientRight

\* The operations that read the store.
Reading ==
  \/ GetProvider
  \/ SetCredentials
  \/ GetCredentials
  \/ GetData
  \/ \E givenRegion, givenKeys \in BOOLEAN : CreateClient(givenRegion, givenKeys)

LEMMA ReadingFollows == SessionInv /\ Reading => Follows(store, store')
BY GetProviderFollows, SetCredentialsFollows, GetFollows, CreateClientSteps DEF Reading

LEMMA StepSession == SessionInv /\ [Next]_vars => SessionInv'
<1> SUFFICES ASSUME SessionInv, [Next]_vars PROVE SessionInv'
  OBVIOUS
<1>1. ASSUME NEW p, SetProfile(p) PROVE SessionInv'
  BY <1>1, SetProfileKeeps
<1>2. ASSUME NEW v, NEW value, SetVariable(v, value) PROVE SessionInv'
  BY <1>2, SetVariableKeeps
<1>3. CASE GetProvider \/ SetCredentials \/ GetCredentials \/ GetData
  <2>1. Follows(store, store')
    BY <1>3, ReadingFollows DEF Reading
  <2>2. UNCHANGED <<world, profile, overrides, epoch, clients, replaced>>
    BY <1>3 DEF GetProvider, SetCredentials, GetCredentials, GetData, Step, StoreOnly
  <2> QED
    BY <2>1, <2>2, ReadKeeps
<1>4. CASE RegisterLoader
  BY <1>4, RegisterLoaderKeeps
<1>5. CASE \E givenRegion, givenKeys \in BOOLEAN : CreateClient(givenRegion, givenKeys)
  BY <1>5, CreateClientSteps
<1>6. CASE UNCHANGED vars
  <2>1. Unset' <=> Unset
    BY <1>6 DEF vars, Unset
  <2>2. ProfileName' = ProfileName
    BY <1>6 DEF vars, ProfileName, ProfileVariable
  <2>3. StoreRight(store)'
    BY <1>6, <2>1, <2>2, Zenon
       DEF vars, SessionInv, StoreRight, ResolverRight, CredsRight, EndpointsRight, WellMade
  <2> QED
    BY <1>6, <2>3 DEF vars, SessionInv, ClientRight
<1> QED
  BY <1>1, <1>2, <1>3, <1>4, <1>5, <1>6 DEF Next

\* What a client signs with belongs to the profile it was made under, whatever is
\* assigned, read and made in whatever order, but for keys that an assignment of
\* session.profile has left cached and a profile that was set as a variable.
THEOREM ClientsAreOfTheirProfile == Spec => []KeysOfTheProfile
<1>1. SessionInv => KeysOfTheProfile
  BY DEF SessionInv, ClientRight, KeysOfTheProfile, ClientOfOneProfile,
         ChosenProfileBeatsEnvironment
<1> QED
  BY <1>1, InitSession, StepSession, PTL DEF Spec

\* The loader that reads a client's service model has read its endpoint rules, unless
\* the user has put another one in its place in between.
THEOREM LoadersAreShared == Spec => []OneLoaderPerClient
<1>1. SessionInv => OneLoaderPerClient
  BY Zenon DEF SessionInv, ClientRight, OneLoaderPerClient
<1> QED
  BY <1>1, InitSession, StepSession, PTL DEF Spec

\* No component is lost but by a factory that fails, be it on a profile, on a file or on
\* data, and what is lost stays lost until session.profile is assigned or the user
\* registers another loader.
THEOREM LossesLast == Spec => LossOutlastsItsCause
<1> DEFINE Lasts(n) ==
      /\ store[n].state # "lost" /\ store'[n].state = "lost" => MayFail(n)
      /\ store[n].state = "lost" /\ store'[n].state # "lost" =>
           epoch' > epoch \/ (n = "loader" /\ store'[n].of = "user")
<1>1. SessionInv /\ [Next]_vars => [\A n \in {"resolver", "loader", "endpoints"} : Lasts(n)]_vars
  <2> SUFFICES ASSUME SessionInv, Next, NEW n \in {"resolver", "loader", "endpoints"}
               PROVE  Lasts(n)
    OBVIOUS
  <2>1. ASSUME NEW p, SetProfile(p)
        PROVE  epoch' > epoch /\ store'[n].state # "lost"
    <3>1. epoch' = epoch + 1 /\ epoch \in Nat /\ store' = NewComponents(Fresh)
      BY <2>1 DEF SetProfile, SessionInv
    <3>2. WellMade(Fresh)
      BY FreshFollows DEF Follows, StoreRight
    <3>3. store'[n] = Deferred
      BY <3>1, <3>2 DEF NewComponents, WellMade, Components
    <3> QED
      BY <3>1, <3>3 DEF Deferred
  <2>2. ASSUME NEW v, NEW value, SetVariable(v, value) PROVE Follows(store, store')
    BY <2>2, FreshFollows DEF SetVariable
  <2>3. CASE RegisterLoader
    <3>1. store' = [Fresh EXCEPT !.loader = Made("user", FALSE)]
      BY <2>3 DEF RegisterLoader
    <3>2. WellMade(Fresh) /\ LosesOnly(store, Fresh)
      BY FreshFollows DEF Follows, StoreRight
    <3>3. store'.loader = Made("user", FALSE) /\ (n # "loader" => store'[n] = Fresh[n])
      BY <3>1, <3>2 DEF WellMade, Components
    <3>4. Fresh[n].state = store[n].state
      BY DEF Fresh, SessionInv, StoreRight, WellMade, Components
    <3> QED
      BY <3>3, <3>4 DEF Made
  <2>4. Follows(store, store') => /\ store[n].state # "lost" /\ store'[n].state = "lost" => MayFail(n)
                                  /\ store[n].state = "lost" => store'[n].state = "lost"
    BY DEF Follows, LosesOnly, Components, Unreadable, MayFail
  <2>5. (\E p \in Profile \cup {None} : SetProfile(p)) \/ RegisterLoader
          \/ (\E v, value : SetVariable(v, value)) \/ Reading
    BY Zenon DEF Next, Reading
  <2> QED
    BY <2>1, <2>2, <2>3, <2>4, <2>5, ReadingFollows
<1> QED
  BY <1>1, InitSession, StepSession, PTL DEF Spec, LossOutlastsItsCause
-----------------------------------------------------------------------------
(***************************************************************************)
(* What the clients of a session retry on (Clients): the services that are *)
(* merged into the defaults write into the objects of those before them.   *)
(***************************************************************************)
\* A section of _retry.json gives the object o the name n.
Links(n, o) == \E a \in Sections : n \in DOMAIN a.policies /\ a.policies[n] = o

\* The merged defaults link only what the file links, and all of the defaults.
HeapRight(h) ==
  /\ DOMAIN h.holds = DOMAIN Written
  /\ DOMAIN Defaults.policies \subseteq DOMAIN h.policies
  /\ \A n \in DOMAIN h.policies : Links(n, h.policies[n])

\* No policy that the service s writes out was merged or changed.
Untouched(h, s) ==
  \A o \in DOMAIN Written : o[1] = s =>
    h.holds[o] = Written[o] /\ \A n \in DOMAIN h.policies : h.policies[n] # o

\* A handler retries on what the service s writes out, and on every policy it has.
HandlerRight(r, s) ==
  /\ DOMAIN AsWritten(s).policies \subseteq DOMAIN r.policies
  /\ s \in DOMAIN Own =>
       /\ Own[s].max \in {NoValue, r.max}
       /\ \A n \in DOMAIN Own[s].policies :
            Own[s].policies[n][1] = s => r.policies[n] = Written[Own[s].policies[n]]

ServedRight(c) ==
  /\ c.service \in Service
  /\ registered[c.service] # NoHandler
  /\ c.retries = registered[c.service]
  /\ c.first => c.retries = AsWritten(c.service)

RetryInv ==
  /\ DOMAIN registered = Service
  /\ HeapRight(heap)
  /\ \A s \in Service : IF registered[s] = NoHandler THEN s \in DOMAIN Own => Untouched(heap, s)
                        ELSE HandlerRight(registered[s], s)
  /\ \A c \in served : ServedRight(c)
-----------------------------------------------------------------------------
\* The handler of s that the merged defaults h give.
Built(h, s) == Handler(BuildRetryConfig(h, s))

LEMMA OneName ==
  ASSUME NEW n, NEW m, NEW o, Links(n, o), Links(m, o)
  PROVE  n = m /\ o \in DOMAIN Written
BY ClientsAssumption DEF RetryFile, Links

LEMMA OwnLinks ==
  ASSUME NEW s \in DOMAIN Own, NEW n \in DOMAIN Own[s].policies
  PROVE  Links(n, Own[s].policies[n])
BY DEF Links, Sections

\* What a merge leaves: the object of a name that both have holds what the service's
\* object held, the others are as they were.
LEMMA MergeHolds ==
  ASSUME NEW h, HeapRight(h), NEW s \in DOMAIN Own
  PROVE  LET m == Merge(h, s)
             P == Own[s].policies
         IN  /\ HeapRight(m)
             /\ m.max = IF Own[s].max = NoValue THEN h.max ELSE Own[s].max
             /\ DOMAIN m.policies = DOMAIN h.policies \cup DOMAIN P
             /\ \A n \in DOMAIN m.policies :
                  m.policies[n] = IF n \in DOMAIN h.policies THEN h.policies[n] ELSE P[n]
             /\ \A n \in DOMAIN h.policies \cap DOMAIN P : m.holds[h.policies[n]] = h.holds[P[n]]
             /\ \A o \in DOMAIN Written :
                  (\A n \in DOMAIN h.policies \cap DOMAIN P : h.policies[n] # o) => m.holds[o] = h.holds[o]
<1> DEFINE m == Merge(h, s)
           P == Own[s].policies
           both == DOMAIN h.policies \cap DOMAIN P
           Name(o) == CHOOSE n \in both : h.policies[n] = o
           new == [o \in {h.policies[n] : n \in both} |-> h.holds[P[Name(o)]]]
           max == IF Own[s].max = NoValue THEN h.max ELSE Own[s].max
           names == DOMAIN h.policies \cup DOMAIN P
           policies == [n \in names |-> IF n \in DOMAIN h.policies THEN h.policies[n] ELSE P[n]]
           holds == [o \in DOMAIN h.holds |-> IF o \in DOMAIN new THEN new[o] ELSE h.holds[o]]
<1>1. m = [max |-> max, policies |-> policies, holds |-> holds]
  BY DEF Merge
<1>2. m.max = max /\ m.policies = policies /\ m.holds = holds
  BY <1>1
<1>3. DOMAIN policies = names
      /\ \A n \in names : policies[n] = IF n \in DOMAIN h.policies THEN h.policies[n] ELSE P[n]
  OBVIOUS
<1>4. DOMAIN holds = DOMAIN Written
  BY DEF HeapRight
<1>5. \A n \in names : Links(n, policies[n])
  <2> SUFFICES ASSUME NEW n \in names PROVE Links(n, policies[n])
    OBVIOUS
  <2>1. CASE n \in DOMAIN h.policies
    BY <2>1, <1>3 DEF HeapRight
  <2>2. CASE n \notin DOMAIN h.policies
    <3>1. n \in DOMAIN P /\ policies[n] = P[n]
      BY <2>2, <1>3
    <3> QED
      BY <3>1, OwnLinks
  <2> QED
    BY <2>1, <2>2
<1>6. ASSUME NEW n \in both PROVE holds[h.policies[n]] = h.holds[P[n]]
  <2> DEFINE o == h.policies[n]
  <2>1. Links(n, o)
    BY <1>6 DEF HeapRight
  <2>2. o \in DOMAIN Written
    BY <2>1, OneName
  <2>3. \A k \in both : h.policies[k] = o => k = n
    <3> SUFFICES ASSUME NEW k \in both, h.policies[k] = o PROVE k = n
      OBVIOUS
    <3>1. Links(k, o)
      BY DEF HeapRight
    <3> QED
      BY <2>1, <3>1, OneName
  <2>4. Name(o) = n
    BY <2>3
  <2>5. o \in DOMAIN new /\ new[o] = h.holds[P[Name(o)]]
    OBVIOUS
  <2>6. holds[o] = new[o]
    BY <2>2, <2>5 DEF HeapRight
  <2> QED
    BY <2>4, <2>5, <2>6
<1>7. ASSUME NEW o \in DOMAIN Written, \A n \in both : h.policies[n] # o PROVE holds[o] = h.holds[o]
  <2>1. o \notin DOMAIN new
    BY <1>7
  <2> HIDE DEF new
  <2> QED
    BY <2>1 DEF HeapRight
<1> HIDE DEF m, max, policies, holds
<1>8. HeapRight(m)
  BY <1>2, <1>3, <1>4, <1>5 DEF HeapRight
<1> QED
  BY <1>2, <1>3, <1>6, <1>7, <1>8 DEF m, max

LEMMA BuildRight ==
  ASSUME NEW h, HeapRight(h), NEW s
  PROVE  HeapRight(BuildRetryConfig(h, s))
BY MergeHolds DEF BuildRetryConfig

\* A service writes into what was merged before it, and into nothing that another
\* service will bring.
LEMMA OthersStayUntouched ==
  ASSUME NEW h, HeapRight(h), NEW s, NEW t \in DOMAIN Own, t # s, Untouched(h, t)
  PROVE  Untouched(BuildRetryConfig(h, s), t)
<1>1. CASE s \notin DOMAIN Own
  BY <1>1 DEF BuildRetryConfig
<1>2. CASE s \in DOMAIN Own
  <2> DEFINE m == Merge(h, s)
             P == Own[s].policies
  <2>1. BuildRetryConfig(h, s) = m
    BY <1>2 DEF BuildRetryConfig
  <2> SUFFICES ASSUME NEW o \in DOMAIN Written, o[1] = t
               PROVE  m.holds[o] = Written[o] /\ \A n \in DOMAIN m.policies : m.policies[n] # o
    BY <2>1 DEF Untouched
  <2>2. h.holds[o] = Written[o] /\ \A n \in DOMAIN h.policies : h.policies[n] # o
    BY DEF Untouched
  <2>3. m.holds[o] = h.holds[o]
    BY <1>2, <2>2, MergeHolds
  <2>4. \A n \in DOMAIN P : P[n] # o
    BY <1>2, ClientsAssumption DEF RetryFile
  <2>5. \A n \in DOMAIN m.policies : m.policies[n] = IF n \in DOMAIN h.policies THEN h.policies[n] ELSE P[n]
    BY <1>2, MergeHolds
  <2>6. DOMAIN m.policies = DOMAIN h.policies \cup DOMAIN P
    BY <1>2, MergeHolds
  <2> HIDE DEF m, P
  <2> QED
    BY <2>2, <2>3, <2>4, <2>5, <2>6
<1> QED
  BY <1>1, <1>2

\* What create_retry_handler makes of merged defaults.
LEMMA BuiltPolicies ==
  ASSUME NEW h, NEW s
  PROVE  LET b == BuildRetryConfig(h, s)
         IN  /\ Built(h, s).max = b.max
             /\ DOMAIN Built(h, s).policies = DOMAIN b.policies
             /\ \A n \in DOMAIN b.policies : Built(h, s).policies[n] = b.holds[b.policies[n]]
             /\ Built(h, s) = [max |-> b.max, policies |-> Built(h, s).policies]
BY DEF Built, Handler

LEMMA WrittenPolicies ==
  ASSUME NEW s
  PROVE  IF s \in DOMAIN Own
         THEN /\ DOMAIN AsWritten(s).policies = DOMAIN Defaults.policies \cup DOMAIN Own[s].policies
              /\ AsWritten(s).max = IF Own[s].max = NoValue THEN Defaults.max ELSE Own[s].max
              /\ \A n \in DOMAIN Own[s].policies :
                   AsWritten(s).policies[n] = Written[Own[s].policies[n]]
              /\ \A n \in DOMAIN Defaults.policies \ DOMAIN Own[s].policies :
                   AsWritten(s).policies[n] = Written[Defaults.policies[n]]
         ELSE /\ DOMAIN AsWritten(s).policies = DOMAIN Defaults.policies
              /\ AsWritten(s).max = Defaults.max
              /\ \A n \in DOMAIN Defaults.policies :
                   AsWritten(s).policies[n] = Written[Defaults.policies[n]]
<1>1. CASE s \in DOMAIN Own
  BY <1>1 DEF AsWritten
<1>2. CASE s \notin DOMAIN Own
  <2> DEFINE own == [max |-> NoValue, policies |-> << >>]
  <2>1. own.max = NoValue /\ DOMAIN own.policies = {}
    OBVIOUS
  <2>2. AsWritten(s) =
          [max |-> IF own.max = NoValue THEN Defaults.max ELSE own.max,
           policies |-> [n \in DOMAIN Defaults.policies \cup DOMAIN own.policies |->
                           Written[IF n \in DOMAIN own.policies THEN own.policies[n]
                                   ELSE Defaults.policies[n]]]]
    BY <1>2 DEF AsWritten
  <2> HIDE DEF own
  <2> QED
    BY <1>2, <2>1, <2>2
<1> QED
  BY <1>1, <1>2

\* The first handler of a service has what the service writes out.
LEMMA FirstBuiltRight ==
  ASSUME NEW h, HeapRight(h), NEW s, s \in DOMAIN Own => Untouched(h, s)
  PROVE  HandlerRight(Built(h, s), s)
<1> DEFINE r == Built(h, s)
           b == BuildRetryConfig(h, s)
<1>1. r.max = b.max /\ DOMAIN r.policies = DOMAIN b.policies
      /\ \A n \in DOMAIN b.policies : r.policies[n] = b.holds[b.policies[n]]
  BY BuiltPolicies
<1>2. CASE s \notin DOMAIN Own
  <2>1. b = h
    BY <1>2 DEF BuildRetryConfig
  <2>2. DOMAIN AsWritten(s).policies = DOMAIN Defaults.policies
    BY <1>2, WrittenPolicies
  <2> QED
    BY <1>1, <1>2, <2>1, <2>2 DEF HandlerRight, HeapRight
<1>3. CASE s \in DOMAIN Own
  <2> DEFINE P == Own[s].policies
  <2>1. b = Merge(h, s)
    BY <1>3 DEF BuildRetryConfig
  <2>2. /\ b.max = IF Own[s].max = NoValue THEN h.max ELSE Own[s].max
        /\ DOMAIN b.policies = DOMAIN h.policies \cup DOMAIN P
        /\ \A n \in DOMAIN b.policies :
             b.policies[n] = IF n \in DOMAIN h.policies THEN h.policies[n] ELSE P[n]
        /\ \A n \in DOMAIN h.policies \cap DOMAIN P : b.holds[h.policies[n]] = h.holds[P[n]]
        /\ \A o \in DOMAIN Written :
             (\A n \in DOMAIN h.policies \cap DOMAIN P : h.policies[n] # o) => b.holds[o] = h.holds[o]
    BY <1>3, <2>1, MergeHolds
  <2> HIDE DEF r, b
  <2>3. DOMAIN AsWritten(s).policies \subseteq DOMAIN r.policies
    <3>1. DOMAIN AsWritten(s).policies = DOMAIN Defaults.policies \cup DOMAIN P
      BY <1>3, WrittenPolicies
    <3> QED
      BY <1>1, <2>2, <3>1 DEF HeapRight
  <2>4. ASSUME NEW n \in DOMAIN P, P[n][1] = s PROVE r.policies[n] = Written[P[n]]
    <3>1. P[n] \in DOMAIN Written
      BY <1>3, OwnLinks, OneName
    <3>2. h.holds[P[n]] = Written[P[n]] /\ \A m \in DOMAIN h.policies : h.policies[m] # P[n]
      BY <1>3, <2>4, <3>1 DEF Untouched
    <3>3. CASE n \in DOMAIN h.policies
      BY <1>1, <2>2, <3>2, <3>3
    <3>4. CASE n \notin DOMAIN h.policies
      <4>1. b.policies[n] = P[n] /\ n \in DOMAIN b.policies
        BY <2>2, <3>4
      <4>2. b.holds[P[n]] = h.holds[P[n]]
        BY <2>2, <3>1, <3>2
      <4> QED
        BY <1>1, <3>2, <4>1, <4>2
    <3> QED
      BY <3>3, <3>4
  <2> QED
    BY <1>1, <2>2, <2>3, <2>4 DEF HandlerRight, r
<1> QED
  BY <1>2, <1>3

LEMMA FreshRight ==
  /\ HeapRight(FreshDefaults)
  /\ \A s \in DOMAIN Own : Untouched(FreshDefaults, s)
<1>1. FreshDefaults.policies = Defaults.policies /\ FreshDefaults.holds = Written
  BY DEF FreshDefaults
<1>2. HeapRight(FreshDefaults)
  BY <1>1 DEF HeapRight, Links, Sections
<1>3. \A s \in DOMAIN Own : Untouched(FreshDefaults, s)
  BY <1>1, ClientsAssumption DEF Untouched, RetryFile
<1> QED
  BY <1>2, <1>3

\* The first service merged into fresh defaults retries exactly as the file says.
LEMMA FreshBuilt ==
  ASSUME NEW s
  PROVE  Built(FreshDefaults, s) = AsWritten(s)
<1> DEFINE h == FreshDefaults
           r == Built(h, s)
           b == BuildRetryConfig(h, s)
           w == AsWritten(s)
<1>1. h.policies = Defaults.policies /\ h.holds = Written /\ h.max = Defaults.max
  BY DEF FreshDefaults
<1>2. HeapRight(h)
  BY FreshRight
<1>3. r.max = b.max /\ DOMAIN r.policies = DOMAIN b.policies
      /\ (\A n \in DOMAIN b.policies : r.policies[n] = b.holds[b.policies[n]])
  BY BuiltPolicies
<1>4. r = [max |-> r.max, policies |-> [n \in DOMAIN r.policies |-> r.policies[n]]]
  BY DEF Built, Handler
<1>5. w = [max |-> w.max, policies |-> [n \in DOMAIN w.policies |-> w.policies[n]]]
  BY DEF AsWritten
<1>6. r.max = w.max /\ DOMAIN r.policies = DOMAIN w.policies
      /\ \A n \in DOMAIN w.policies : r.policies[n] = w.policies[n]
  <2>1. CASE s \notin DOMAIN Own
    <3>1. b = h
      BY <2>1 DEF BuildRetryConfig
    <3> HIDE DEF r, b, w, h
    <3>2. /\ DOMAIN w.policies = DOMAIN Defaults.policies
          /\ w.max = Defaults.max
          /\ \A n \in DOMAIN Defaults.policies : w.policies[n] = Written[Defaults.policies[n]]
      BY <2>1, WrittenPolicies DEF w
    <3> QED
      BY <1>1, <1>3, <3>1, <3>2
  <2>2. CASE s \in DOMAIN Own
    <3> DEFINE P == Own[s].policies
               D == Defaults.policies
    <3>1. b = Merge(h, s)
      BY <2>2 DEF BuildRetryConfig
    <3>2. /\ b.max = IF Own[s].max = NoValue THEN h.max ELSE Own[s].max
          /\ DOMAIN b.policies = DOMAIN h.policies \cup DOMAIN P
          /\ \A n \in DOMAIN b.policies :
               b.policies[n] = IF n \in DOMAIN h.policies THEN h.policies[n] ELSE P[n]
          /\ \A n \in DOMAIN h.policies \cap DOMAIN P : b.holds[h.policies[n]] = h.holds[P[n]]
          /\ \A o \in DOMAIN Written :
               (\A n \in DOMAIN h.policies \cap DOMAIN P : h.policies[n] # o) => b.holds[o] = h.holds[o]
      BY <1>2, <2>2, <3>1, MergeHolds
    <3>3. /\ DOMAIN w.policies = DOMAIN D \cup DOMAIN P
          /\ w.max = IF Own[s].max = NoValue THEN Defaults.max ELSE Own[s].max
          /\ \A n \in DOMAIN P : w.policies[n] = Written[P[n]]
          /\ \A n \in DOMAIN D \ DOMAIN P : w.policies[n] = Written[D[n]]
      BY <2>2, WrittenPolicies
    <3> HIDE DEF r, b, w, h
    <3>4. \A n \in DOMAIN D : Links(n, D[n])
      BY DEF Links, Sections
    <3>5. ASSUME NEW n \in DOMAIN D \cap DOMAIN P PROVE r.policies[n] = w.policies[n]
      BY <1>1, <1>3, <3>2, <3>3
    <3>6. ASSUME NEW n \in DOMAIN D \ DOMAIN P PROVE r.policies[n] = w.policies[n]
      <4>1. D[n] \in DOMAIN Written /\ \A m \in DOMAIN D \cap DOMAIN P : D[m] # D[n]
        BY <3>4, OneName
      <4>2. b.policies[n] = D[n] /\ n \in DOMAIN b.policies
        BY <1>1, <3>2
      <4>3. b.holds[D[n]] = Written[D[n]]
        BY <1>1, <3>2, <4>1
      <4> QED
        BY <1>3, <3>3, <4>2, <4>3
    <3>7. ASSUME NEW n \in DOMAIN P \ DOMAIN D PROVE r.policies[n] = w.policies[n]
      <4>1. Links(n, P[n])
        BY <2>2, OwnLinks
      <4>2. P[n] \in DOMAIN Written /\ \A m \in DOMAIN D \cap DOMAIN P : D[m] # P[n]
        BY <3>4, <4>1, OneName
      <4>3. b.policies[n] = P[n] /\ n \in DOMAIN b.policies
        BY <1>1, <3>2
      <4>4. b.holds[P[n]] = Written[P[n]]
        BY <1>1, <3>2, <4>2
      <4> QED
        BY <1>3, <3>3, <4>3, <4>4
    <3>8. \A n \in DOMAIN w.policies : r.policies[n] = w.policies[n]
      BY <3>3, <3>5, <3>6, <3>7
    <3> QED
      BY <1>1, <1>3, <3>2, <3>3, <3>8
  <2> QED
    BY <2>1, <2>2
<1> HIDE DEF r, w
<1>7. [n \in DOMAIN r.policies |-> r.policies[n]] = [n \in DOMAIN w.policies |-> w.policies[n]]
  BY <1>6
<1>8. r = w
  BY <1>4, <1>5, <1>6, <1>7
<1> QED
  BY <1>8 DEF r, w
-----------------------------------------------------------------------------
\* What loading the data of the service s does to the handlers and the defaults; its
\* second reader builds a configuration that is not registered.
Loads(s) ==
  LET built == BuildRetryConfig(heap, s)
  IN  Register(s, built) /\ heap' = BuildRetryConfig(built, s)

LEMMA RegisteredBuilt ==
  ASSUME RetryInv, NEW s \in Service, Loads(s)
  PROVE  /\ DOMAIN registered' = Service
         /\ registered'[s] = IF registered[s] = NoHandler THEN Built(heap, s) ELSE registered[s]
         /\ registered'[s] # NoHandler
         /\ \A t \in Service \ {s} : registered'[t] = registered[t]
<1>1. Built(heap, s) # NoHandler
  <2>1. "max" \in DOMAIN Built(heap, s)
    BY DEF Built, Handler
  <2>2. "max" \notin DOMAIN NoHandler
    BY DEF NoHandler
  <2> QED
    BY <2>1, <2>2
<1>2. registered' = [registered EXCEPT ![s] = IF @ = NoHandler THEN Built(heap, s) ELSE @]
  BY DEF Loads, Register, Built
<1>3. DOMAIN registered = Service
  BY DEF RetryInv
<1> QED
  BY <1>1, <1>2, <1>3

LEMMA LoadingKeeps ==
  ASSUME RetryInv, NEW s \in Service, Loads(s)
  PROVE  /\ DOMAIN registered' = Service
         /\ HeapRight(heap)'
         /\ \A t \in Service : IF registered'[t] = NoHandler THEN t \in DOMAIN Own => Untouched(heap', t)
                               ELSE HandlerRight(registered'[t], t)
         /\ \A c \in served : ServedRight(c)'
<1> DEFINE built == BuildRetryConfig(heap, s)
<1>1. heap' = BuildRetryConfig(built, s)
  BY DEF Loads
<1>2. HeapRight(built)
  BY BuildRight DEF RetryInv
<1>3. HeapRight(heap')
  BY <1>1, <1>2, BuildRight
<1>4. ASSUME NEW t \in Service
      PROVE  IF registered'[t] = NoHandler THEN t \in DOMAIN Own => Untouched(heap', t)
             ELSE HandlerRight(registered'[t], t)
  <2>1. CASE t = s /\ registered[s] = NoHandler
    <3>1. HandlerRight(Built(heap, s), s)
      BY <2>1, FirstBuiltRight DEF RetryInv
    <3> QED
      BY <2>1, <3>1, RegisteredBuilt
  <2>2. CASE t = s /\ registered[s] # NoHandler
    <3>1. HandlerRight(registered[s], s)
      BY <2>2 DEF RetryInv
    <3> QED
      BY <2>2, <3>1, RegisteredBuilt
  <2>3. CASE t # s /\ registered[t] # NoHandler
    <3>1. HandlerRight(registered[t], t)
      BY <2>3 DEF RetryInv
    <3> QED
      BY <2>3, <3>1, RegisteredBuilt
  <2>4. CASE t # s /\ registered[t] = NoHandler
    <3>1. t \in DOMAIN Own => Untouched(heap, t)
      BY <2>4 DEF RetryInv
    <3>2. t \in DOMAIN Own => Untouched(built, t)
      BY <2>4, <3>1, OthersStayUntouched DEF RetryInv
    <3>3. t \in DOMAIN Own => Untouched(heap', t)
      BY <1>1, <1>2, <2>4, <3>2, OthersStayUntouched
    <3> QED
      BY <2>4, <3>3, RegisteredBuilt
  <2> QED
    BY <2>1, <2>2, <2>3, <2>4
<1>5. ASSUME NEW c \in served PROVE ServedRight(c)'
  <2>1. ServedRight(c)
    BY DEF RetryInv
  <2>2. registered'[c.service] = registered[c.service]
    BY <2>1, RegisteredBuilt DEF ServedRight
  <2> QED
    BY <2>1, <2>2 DEF ServedRight
<1> QED
  BY <1>3, <1>4, <1>5, RegisteredBuilt DEF HeapRight, Links

LEMMA CreateClientServes ==
  ASSUME RetryInv, NEW s \in Service, NEW region, NEW url,
         MakeClient(s, region, url)
  PROVE  RetryInv'
<1>1. Loads(s)
  BY DEF MakeClient, Loads
<1>2. PICK c : /\ c.service = s /\ c.retries = registered'[s]
               /\ c.first => heap = FreshDefaults /\ registered[s] = NoHandler
               /\ served' = served \/ served' = served \cup {c}
  <2> DEFINE d == [service |-> s, retries |-> registered'[s],
                   first |-> heap = FreshDefaults /\ registered[s] = NoHandler]
  <2>1. served' = served \/ served' = served \cup {d}
    BY DEF MakeClient
  <2>2. d.service = s /\ d.retries = registered'[s]
    OBVIOUS
  <2>3. d.first => heap = FreshDefaults /\ registered[s] = NoHandler
    BY Zenon
  <2> HIDE DEF d
  <2> QED
    BY <2>1, <2>2, <2>3
<1>3. c.first => registered'[s] = AsWritten(s)
  BY <1>1, <1>2, RegisteredBuilt, FreshBuilt
<1>4. ServedRight(c)'
  BY <1>1, <1>2, <1>3, RegisteredBuilt DEF ServedRight
<1>5. \A d \in served : ServedRight(d)'
  BY <1>1, LoadingKeeps
<1>6. \A d \in served' : ServedRight(d)'
  BY <1>2, <1>4, <1>5
<1> QED
  BY <1>1, <1>6, LoadingKeeps DEF RetryInv

LEMMA InitRetries == ClientsInit => RetryInv
<1> SUFFICES ASSUME ClientsInit PROVE RetryInv
  OBVIOUS
<1>1. /\ heap = FreshDefaults /\ registered = [s \in Service |-> NoHandler] /\ served = {}
  BY DEF ClientsInit
<1> QED
  BY <1>1, FreshRight DEF RetryInv

LEMMA StepRetries == RetryInv /\ [ClientsNext]_clientVars => RetryInv'
<1> SUFFICES ASSUME RetryInv, [ClientsNext]_clientVars PROVE RetryInv'
  OBVIOUS
<1>1. ASSUME NEW s \in Service, NEW region, NEW url, MakeClient(s, region, url)
      PROVE  RetryInv'
  BY <1>1, CreateClientServes
<1>2. ASSUME NEW s \in Service, GetService(s) PROVE RetryInv'
  <2>1. CASE UNCHANGED <<heap, registered, served>>
    BY <2>1 DEF RetryInv, ServedRight, HeapRight, Links, Untouched, HandlerRight
  <2>2. CASE Loads(s) /\ UNCHANGED served
    BY <2>2, LoadingKeeps DEF RetryInv
  <2> QED
    BY <1>2, <2>1, <2>2 DEF GetService, ServiceDataLoaded, Loads
<1>3. CASE NewLoader
  <2>1. heap' = FreshDefaults /\ UNCHANGED <<registered, served>>
    BY <1>3 DEF NewLoader
  <2>2. HeapRight(heap') /\ \A s \in DOMAIN Own : Untouched(heap', s)
    BY <2>1, FreshRight
  <2>3. \A c \in served : ServedRight(c)'
    BY <2>1 DEF RetryInv, ServedRight
  <2> QED
    BY <2>1, <2>2, <2>3 DEF RetryInv
<1>4. CASE UNCHANGED clientVars
  BY <1>4 DEF clientVars, RetryInv, ServedRight
<1> QED
  BY <1>1, <1>2, <1>3, <1>4 DEF ClientsNext

\* Clients of one service retry alike, although the configuration they were built from
\* changes under them and the loader may be another one: the first handler stays.
THEOREM ClientsRetryAlike == ClientsSpec => []RetriesAreStable
<1>1. RetryInv => RetriesAreStable
  BY DEF RetryInv, ServedRight, RetriesAreStable
<1>2. ClientsInit => RetryInv
  BY InitRetries
<1>3. RetryInv /\ [ClientsNext]_clientVars => RetryInv'
  BY StepRetries
<1> QED
  BY <1>1, <1>2, <1>3, PTL DEF ClientsSpec

\* A client retries on what its service writes out, whatever services were merged into
\* the same defaults before, and on no less than the file gives it; the first client of
\* a session retries exactly as the file says.
THEOREM ClientsRetryAsWritten == ClientsSpec => []RetriesAsWritten
<1>1. RetryInv => RetriesAsWritten
  <2> SUFFICES ASSUME RetryInv, NEW c \in served
               PROVE  /\ c.service \in DOMAIN Own =>
                           /\ Own[c.service].max \in {NoValue, c.retries.max}
                           /\ \A n \in DOMAIN Own[c.service].policies :
                                Own[c.service].policies[n][1] = c.service =>
                                  c.retries.policies[n] = Written[Own[c.service].policies[n]]
                      /\ c.first => c.retries = AsWritten(c.service)
                      /\ DOMAIN AsWritten(c.service).policies \subseteq DOMAIN c.retries.policies
    BY DEF RetriesAsWritten, OwnPoliciesAreKept, FirstRetriesAsWritten
  <2>1. ServedRight(c)
    BY DEF RetryInv
  <2>2. HandlerRight(c.retries, c.service)
    BY <2>1 DEF RetryInv, ServedRight
  <2> QED
    BY <2>1, <2>2 DEF ServedRight, HandlerRight
<1>2. ClientsInit => RetryInv
  BY InitRetries
<1>3. RetryInv /\ [ClientsNext]_clientVars => RetryInv'
  BY StepRetries
<1> QED
  BY <1>1, <1>2, <1>3, PTL DEF ClientsSpec
-----------------------------------------------------------------------------
(***************************************************************************)
(* The version of a model, its search path and the signing region of a     *)
(* client: they depend on the files alone, so the proofs are about the     *)
(* operators of the loader and the resolver.                               *)
(***************************************************************************)

\* A non-empty set of naturals has a least element.
LEMMA LeastNatural ==
  ASSUME NEW T \in SUBSET Nat, T # {}
  PROVE  \E m \in T : \A k \in T : m <= k
<1>1. PICK n \in T : TRUE
  OBVIOUS
<1>2. CASE 0 \in T
  BY <1>2
<1>3. CASE 0 \notin T
  <2> DEFINE U == T \cap (1..n)
  <2>1. U \in SUBSET (1..n) /\ n \in U /\ n \in Nat
    BY <1>1, <1>3
  <2>2. PICK m \in U : \A k \in U : m <= k
    BY <2>1, LeastIndex
  <2>3. \A k \in T : m <= k
    BY <2>1, <2>2, <1>3
  <2> QED
    BY <2>2, <2>3
<1> QED
  BY <1>2, <1>3

Descending(q, n) == \A i, j \in 1..n : i < j => q[i] > q[j]

\* Finitely many versions can be sorted: a smallest set that cannot be would
\* lose its least element and be sorted with it at the end.
LEMMA VersionsSort ==
  ASSUME NEW S \in SUBSET Nat, IsFiniteSet(S)
  PROVE  /\ Cardinality(S) \in Nat
         /\ SortedReverse(S) \in [1..Cardinality(S) -> S]
         /\ Descending(SortedReverse(S), Cardinality(S))
<1> DEFINE N == Cardinality(S)
           Sortable(T) == \E q \in [1..Cardinality(T) -> T] : Descending(q, Cardinality(T))
           Bad == {k \in 1..N : \E T \in SUBSET S : Cardinality(T) = k /\ ~ Sortable(T)}
<1>1. N \in Nat
  BY FS_CardinalityType
<1>2. ASSUME Bad # {}
      PROVE  FALSE
  <2>1. PICK m \in Bad : \A k \in Bad : m <= k
    <3>1. Bad \in SUBSET (1..N)
      OBVIOUS
    <3> HIDE DEF Bad, N
    <3> QED BY <1>1, <1>2, <3>1, LeastIndex
  <2>2. PICK T \in SUBSET S : Cardinality(T) = m /\ ~ Sortable(T)
    OBVIOUS
  <2>3. IsFiniteSet(T) /\ m \in 1..N
    BY FS_Subset
  <2>4. T # {} /\ T \in SUBSET Nat
    <3>1. Cardinality({}) = 0
      BY FS_EmptySet
    <3>2. m # 0
      <4> HIDE DEF N
      <4> QED BY <1>1, <2>3
    <3> QED BY <2>2, <3>1, <3>2
  <2>5. PICK x \in T : \A y \in T : x <= y
    BY <2>4, LeastNatural
  <2> DEFINE U == T \ {x}
  <2>6. Cardinality(U) = m - 1
    BY <2>2, <2>3, FS_RemoveElement
  <2>7. Sortable(U)
    <3>1. CASE m = 1
      <4>1. [i \in 1..0 |-> x] \in [1..0 -> U]
        OBVIOUS
      <4>2. Descending([i \in 1..0 |-> x], 0)
        BY DEF Descending
      <4>3. Cardinality(U) = 0
        BY <2>6, <3>1
      <4> HIDE DEF U
      <4> QED BY <4>1, <4>2, <4>3
    <3>2. CASE m # 1
      <4>1. m - 1 \in 1..N /\ m - 1 < m
        BY <1>1, <2>3, <3>2
      <4>2. m - 1 \notin Bad
        <5> HIDE DEF Bad
        <5> QED BY <1>1, <2>1, <2>3, <4>1
      <4>3. U \in SUBSET S
        OBVIOUS
      <4> HIDE DEF Sortable, U, N
      <4> QED BY <2>6, <4>1, <4>2, <4>3 DEF Bad
    <3> QED BY <3>1, <3>2
  <2>8. PICK q \in [1..(m - 1) -> U] : Descending(q, m - 1)
    BY <2>6, <2>7
  <2> DEFINE r == [i \in 1..m |-> IF i = m THEN x ELSE q[i]]
  <2>9. r \in [1..m -> T]
    BY <1>1, <2>3, <2>8
  <2>10. Descending(r, m)
    <3> SUFFICES ASSUME NEW i \in 1..m, NEW j \in 1..m, i < j
                 PROVE  r[i] > r[j]
      BY DEF Descending
    <3>1. i \in 1..(m - 1) /\ r[i] = q[i] /\ q[i] \in U
      BY <1>1, <2>3, <2>8
    <3>2. CASE j = m
      <4>1. r[j] = x
        BY <3>2
      <4>2. q[i] \in T /\ q[i] # x
        BY <3>1
      <4>3. q[i] \in Nat /\ x \in Nat /\ x <= q[i]
        BY <2>4, <2>5, <4>2
      <4> HIDE DEF r
      <4> QED BY <3>1, <4>1, <4>2, <4>3
    <3>3. CASE j # m
      <4>1. j \in 1..(m - 1) /\ r[j] = q[j]
        BY <1>1, <2>3, <3>3
      <4> QED BY <2>8, <3>1, <4>1 DEF Descending
    <3> QED BY <3>2, <3>3
  <2> HIDE DEF r
  <2> QED
    BY <2>2, <2>9, <2>10
<1>3. Sortable(S)
  <2>1. CASE N = 0
    <3>1. [i \in 1..0 |-> 0] \in [1..0 -> S]
      OBVIOUS
    <3>2. Descending([i \in 1..0 |-> 0], 0)
      BY DEF Descending
    <3> QED BY <2>1, <3>1, <3>2
  <2>2. CASE N # 0
    <3>1. N \in 1..N
      BY <1>1, <2>2
    <3> HIDE DEF Sortable
    <3> QED BY <1>2, <3>1
  <2> QED BY <2>1, <2>2
<1>4. SortedReverse(S) = CHOOSE q \in [1..N -> S] : Descending(q, N)
  BY DEF SortedReverse, Descending
<1>5. SortedReverse(S) \in [1..N -> S] /\ Descending(SortedReverse(S), N)
  <2> HIDE DEF N
  <2>1. \E q \in [1..N -> S] : Descending(q, N)
    BY <1>3 DEF N
  <2> QED BY <1>4, <2>1
<1> QED
  BY <1>1, <1>5

\* They are all there.
LEMMA VersionsComplete ==
  ASSUME NEW S \in SUBSET Nat, IsFiniteSet(S), NEW v \in S
  PROVE  \E i \in 1..Cardinality(S) : SortedReverse(S)[i] = v
<1> DEFINE n == Cardinality(S)
           q == SortedReverse(S)
<1>1. n \in Nat /\ q \in [1..n -> S] /\ Descending(q, n)
  BY VersionsSort
<1>2. IsFiniteSet(1..n) /\ Cardinality(1..n) = n
  BY <1>1, FS_Interval
<1> HIDE DEF n, q
<1>3. \A i, j \in 1..n : q[i] = q[j] => i = j
  <2> SUFFICES ASSUME NEW i \in 1..n, NEW j \in 1..n, i < j
               PROVE  q[i] # q[j]
    BY <1>1
  <2>1. q[i] > q[j] /\ q[i] \in Nat /\ q[j] \in Nat
    BY <1>1 DEF Descending
  <2> QED BY <2>1
<1>4. q \in Injection(1..n, S)
  BY <1>1, <1>3 DEF Injection, IsInjective
<1>5. q \in Surjection(1..n, S)
  BY <1>2, <1>4, FS_Injection DEF n
<1> QED
  BY <1>5 DEF Surjection, n, q

\* What SelectInSeq finds among the versions: the first that fits.
LEMMA LatestFound ==
  ASSUME NEW s \in Service, NEW n \in Nat, NEW q \in [1..n -> Nat],
         q = SortedReverse(Versions(s)), DetermineLatest(s, Wanted) # NoValue
  PROVE  \E f \in 1..n : /\ DetermineLatest(s, Wanted) = q[f]
                         /\ q[f] =< Wanted
                         /\ \A i \in 1..n : q[i] =< Wanted => f <= i
<1> DEFINE I == {i \in 1..Len(q) : Wanted = NoValue \/ q[i] =< Wanted}
           found == IF I # {} THEN Min(I) ELSE 0
<1>1. Wanted # NoValue /\ Wanted \in Nat
  BY DataAssumption
<1>2. Len(q) = n /\ q \in Seq(Nat)
  OBVIOUS
<1>3. DetermineLatest(s, Wanted) = IF found = 0 THEN NoValue ELSE q[found]
  BY DEF DetermineLatest, SelectInSeq
<1>4. I \in SUBSET (1..n) /\ I = {i \in 1..n : q[i] =< Wanted}
  BY <1>1, <1>2
<1> HIDE DEF I, found
<1>5. I # {} /\ found = Min(I)
  BY <1>3 DEF found
<1>6. PICK m \in I : \A k \in I : m <= k
  BY <1>4, <1>5, LeastIndex
<1>7. Min(I) \in I /\ \A k \in I : Min(I) <= k
  BY <1>6 DEF Min
<1>8. found \in 1..n /\ found # 0
  BY <1>4, <1>5, <1>7
<1> QED
  BY <1>3, <1>4, <1>5, <1>7, <1>8

\* determine_latest returns the newest compatible version there is.
LEMMA DeterminesLatest ==
  ASSUME NEW s \in Service, NEW version, version = DetermineLatest(s, Wanted), version # NoValue
  PROVE  /\ version \in Versions(s) /\ version \in Nat
         /\ version =< Wanted /\ \A v \in Versions(s) : v =< Wanted => v =< version
<1> DEFINE S == Versions(s)
           n == Cardinality(S)
           q == SortedReverse(S)
<1>1. S \in SUBSET Nat /\ IsFiniteSet(S)
  BY DataAssumption DEF DataFiles, Versions
<1>2. n \in Nat /\ q \in [1..n -> S] /\ Descending(q, n)
  <2> HIDE DEF S
  <2> QED BY <1>1, VersionsSort
<1>3. \A v \in S : \E i \in 1..n : q[i] = v
  <2> HIDE DEF S
  <2> QED BY <1>1, VersionsComplete
<1>4. q \in [1..n -> Nat] /\ q = SortedReverse(Versions(s))
  <2>1. q = SortedReverse(Versions(s))
    OBVIOUS
  <2> HIDE DEF S, n, q
  <2> QED BY <1>1, <1>2, <2>1
<1>5. PICK f \in 1..n : /\ version = q[f]
                        /\ q[f] =< Wanted
                        /\ \A i \in 1..n : q[i] =< Wanted => f <= i
  <2> HIDE DEF n, q
  <2> QED BY <1>2, <1>4, LatestFound
<1> HIDE DEF n, q
<1>6. q[f] \in S /\ q[f] \in Nat
  <2> HIDE DEF S
  <2> QED BY <1>1, <1>2, <1>5
<1>7. ASSUME NEW v \in S, v =< Wanted
      PROVE  v =< version
  <2> HIDE DEF S
  <2>1. PICK i \in 1..n : q[i] = v
    BY <1>3
  <2>2. f <= i
    BY <1>5, <1>7, <2>1
  <2>3. i \in Nat /\ f \in Nat /\ v \in Nat
    BY <1>1, <1>2, <1>5, <1>7
  <2>4. CASE i = f
    BY <1>5, <2>1, <2>3, <2>4
  <2>5. CASE f < i
    <3>1. q[f] > q[i]
      BY <1>2, <1>5, <2>5 DEF Descending
    <3> QED BY <1>5, <1>6, <2>1, <2>3, <3>1
  <2> QED
    BY <2>2, <2>3, <2>4, <2>5
<1> QED
  BY <1>5, <1>6, <1>7

\* _load_data finds a version in the first path that has it.
LEMMA FoundInFirstPath ==
  ASSUME NEW s \in Service, NEW version \in Versions(s)
  PROVE  /\ PathOf(s, version) \in 1..Len(Paths)
         /\ version \in Paths[PathOf(s, version)][s]
         /\ \A i \in 1..(PathOf(s, version) - 1) : version \notin Paths[i][s]
<1> DEFINE I == {i \in 1..Len(Paths) : version \in Paths[i][s]}
           n == Len(Paths)
<1>1. n \in Nat /\ DOMAIN Paths = 1..n
  BY DataAssumption DEF DataFiles
<1>2. PICK i \in 1..n : version \in Paths[i][s]
  BY <1>1 DEF Versions
<1>3. I # {} /\ I \in SUBSET (1..n)
  BY <1>2
<1>4. PathOf(s, version) = Min(I)
  BY <1>3 DEF PathOf, SelectInSeq
<1> HIDE DEF n
<1>5. PICK m \in I : \A k \in I : m <= k
  <2> HIDE DEF I
  <2> QED BY <1>1, <1>3, LeastIndex
<1>6. Min(I) \in I /\ \A k \in I : Min(I) <= k
  <2> HIDE DEF I
  <2> QED BY <1>5 DEF Min
<1> DEFINE p == Min(I)
<1>7. p \in 1..n /\ version \in Paths[p][s]
  BY <1>6 DEF n
<1>8. \A k \in 1..n : version \in Paths[k][s] => p <= k
  BY <1>6 DEF n
<1> HIDE DEF p
<1>9. \A k \in 1..(p - 1) : version \notin Paths[k][s]
  BY <1>1, <1>7, <1>8
<1> QED
  BY <1>4, <1>7, <1>9 DEF p, n

\* Every step but get_service leaves the Service objects alone.
LEMMA StepServices == ServiceIsCompatible /\ [ClientsNext]_clientVars => ServiceIsCompatible'
<1> SUFFICES ASSUME ServiceIsCompatible, [ClientsNext]_clientVars
             PROVE  ServiceIsCompatible'
  OBVIOUS
<1>1. ASSUME UNCHANGED services
      PROVE  ServiceIsCompatible'
  BY <1>1 DEF ServiceIsCompatible
<1>2. ASSUME NEW s \in Service, NEW r \in Region \cup {NoValue}, NEW url \in BOOLEAN,
             MakeClient(s, r, url)
      PROVE  ServiceIsCompatible'
  BY <1>1, <1>2 DEF MakeClient
<1>3. ASSUME NEW s \in Service, GetService(s)
      PROVE  ServiceIsCompatible'
  <2> DEFINE version == DetermineLatest(s, Wanted)
             x == <<s, version, PathOf(s, version)>>
  <2>1. CASE version = NoValue
    BY <1>1, <1>3, <2>1 DEF GetService
  <2>2. CASE version # NoValue
    <3>1. services' = services \cup {x}
      BY <1>3, <2>2 DEF GetService
    <3>2. /\ version \in Versions(s)
          /\ version =< Wanted /\ \A v \in Versions(s) : v =< Wanted => v =< version
      BY <2>2, DeterminesLatest
    <3>3. /\ version \in Paths[PathOf(s, version)][s]
          /\ \A i \in 1..(PathOf(s, version) - 1) : version \notin Paths[i][s]
      BY <3>2, FoundInFirstPath
    <3> HIDE DEF version
    <3> QED BY <3>1, <3>2, <3>3 DEF ServiceIsCompatible
  <2> QED
    BY <2>1, <2>2
<1>4. CASE NewLoader
  BY <1>1, <1>4 DEF NewLoader
<1>5. CASE UNCHANGED clientVars
  BY <1>1, <1>5 DEF clientVars
<1> QED
  BY <1>2, <1>3, <1>4, <1>5 DEF ClientsNext

\* For any search paths and any version asked for, the model of a Service is
\* the newest compatible one of all the paths together, read from the first
\* path that has it, although the two searches of the loader are separate.
THEOREM ServicesAreCompatible == ClientsSpec => []ServiceIsCompatible
<1>1. ClientsInit => ServiceIsCompatible
  BY DEF ClientsInit, ServiceIsCompatible
<1> QED
  BY <1>1, StepServices, PTL DEF ClientsSpec

\* The rule that is found holds in the region and is one of the rules given.
LEMMA RuleMatched ==
  ASSUME NEW rules, rules \in Seq(Range(rules)), NEW region, MatchRules(rules, region) # NoMatch
  PROVE  MatchRules(rules, region) \in Range(rules)
<1> DEFINE I == {i \in 1..Len(rules) : region \in rules[i].regions}
           n == Len(rules)
<1>1. n \in Nat /\ DOMAIN rules = 1..n
  OBVIOUS
<1>2. MatchRules(rules, region) =
        IF (IF I # {} THEN Min(I) ELSE 0) = 0 THEN NoMatch ELSE rules[IF I # {} THEN Min(I) ELSE 0]
  BY DEF MatchRules, SelectInSeq
<1>3. I # {} /\ I \in SUBSET (1..n)
  BY <1>2
<1>4. MatchRules(rules, region) = rules[Min(I)]
  <2> HIDE DEF I
  <2> QED BY <1>2, <1>3
<1> HIDE DEF n
<1>5. PICK m \in I : \A k \in I : m <= k
  <2> HIDE DEF I
  <2> QED BY <1>1, <1>3, LeastIndex
<1>6. Min(I) \in I
  <2> HIDE DEF I
  <2> QED BY <1>5 DEF Min
<1>7. Min(I) \in DOMAIN rules
  <2> HIDE DEF I
  <2> QED BY <1>1, <1>3, <1>6
<1> HIDE DEF I
<1> QED
  BY <1>4, <1>7 DEF Range

\* What serves a host's scope signs as the host's own rule does.
LEMMA ScopeAgrees ==
  ASSUME NEW s \in Service, NEW region, NEW host, host = ConstructEndpoint(s, region),
         host # NoMatch, host.scope # NoValue
  PROVE  ConstructEndpoint(s, host.scope).signature = host.signature
<1>1. Rules["_default"] \in Seq(Range(Rules["_default"]))
  BY EndpointsAssumption DEF EndpointsFile
<1>2. RulesOf(s) \in Seq(Range(RulesOf(s)))
  <2>1. CASE s \in DOMAIN Rules
    BY <2>1, EndpointsAssumption DEF EndpointsFile, RulesOf
  <2>2. CASE s \notin DOMAIN Rules
    BY <2>2 DEF RulesOf
  <2> QED BY <2>1, <2>2
<1>3. host \in Range(RulesOf(s)) \cup Range(Rules["_default"])
  <2>1. CASE MatchRules(RulesOf(s), region) = NoMatch
    <3>1. host = MatchRules(Rules["_default"], region)
      BY <2>1 DEF ConstructEndpoint
    <3> QED BY <1>1, <3>1, RuleMatched
  <2>2. CASE MatchRules(RulesOf(s), region) # NoMatch
    <3>1. host = MatchRules(RulesOf(s), region)
      BY <2>2 DEF ConstructEndpoint
    <3> QED BY <1>2, <2>2, <3>1, RuleMatched
  <2> QED BY <2>1, <2>2
<1> QED
  BY <1>3, EndpointsAssumption DEF EndpointsFile

\* The arguments of a client fit together: its region is the scope of its host's
\* rule or the one asked for, and the second lookup finds that rule's signature.
LEMMA ArgumentsFit ==
  ASSUME NEW s \in Service, NEW region, NEW url \in BOOLEAN,
         NEW args, args = ClientArgs(s, region, url), args.error = "none"
  PROVE  /\ args.region # args.asked =>
              args.host.scope = args.region /\ ~ (args.url /\ args.asked # NoValue)
         /\ ~ args.url => args.signs.signature = args.host.signature
<1> DEFINE host == HostRule(s, region, url)
           name == DetermineRegion(host, region, url)
           signs == ConstructEndpoint(s, name)
<1>1. host # NoMatch /\ signs # NoMatch
  <2>1. NoMatch.error # "none"
    BY DEF NoMatch
  <2>2. host = NoMatch \/ signs = NoMatch => args = NoMatch
    BY DEF ClientArgs
  <2> QED BY <2>1, <2>2
<1>2. /\ args.host = host /\ args.region = name /\ args.signs = signs
      /\ args.asked = region /\ args.url = url
  <2>1. args = [error |-> "none", host |-> host, region |-> name, signs |-> signs,
                asked |-> region, url |-> url]
    BY <1>1 DEF ClientArgs
  <2> HIDE DEF host, name, signs
  <2> QED BY <2>1
<1>3. name # region => host.scope = name /\ ~ (url /\ region # NoValue)
  <2> HIDE DEF host
  <2> QED BY DEF DetermineRegion
<1>4. ASSUME ~ url
      PROVE  signs.signature = host.signature
  <2>1. host = ConstructEndpoint(s, region)
    BY <1>4 DEF HostRule
  <2> HIDE DEF host
  <2>2. CASE host.scope = NoValue
    <3>1. name = region
      BY <2>2 DEF DetermineRegion
    <3> QED BY <2>1, <3>1
  <2>3. CASE host.scope # NoValue
    <3>1. name = host.scope
      BY <1>4, <2>3 DEF DetermineRegion
    <3> QED BY <1>1, <2>1, <2>3, <3>1, ScopeAgrees
  <2> QED BY <2>2, <2>3
<1> HIDE DEF host, name, signs
<1> QED
  BY <1>2, <1>3, <1>4

\* Only create_client sets the arguments.
LEMMA StepLast == SignedWhereItIsServed /\ [ClientsNext]_clientVars => SignedWhereItIsServed'
<1> SUFFICES ASSUME SignedWhereItIsServed, [ClientsNext]_clientVars
             PROVE  SignedWhereItIsServed'
  OBVIOUS
<1>1. ASSUME UNCHANGED last
      PROVE  SignedWhereItIsServed'
  BY <1>1 DEF SignedWhereItIsServed
<1>2. ASSUME NEW s \in Service, NEW r \in Region \cup {NoValue}, NEW url \in BOOLEAN,
             MakeClient(s, r, url)
      PROVE  SignedWhereItIsServed'
  <2> DEFINE args == ClientArgs(s, r, url)
  <2>1. last' = last \/ (args.error = "none" /\ last' = args)
    BY <1>2 DEF MakeClient
  <2>2. CASE last' = last
    BY <1>1, <2>2
  <2>3. CASE args.error = "none" /\ last' = args
    <3>1. /\ args.region # args.asked =>
               args.host.scope = args.region /\ ~ (args.url /\ args.asked # NoValue)
          /\ ~ args.url => args.signs.signature = args.host.signature
      <4>1. args.error = "none"
        BY <2>3
      <4> QED BY <4>1, ArgumentsFit
    <3> HIDE DEF args
    <3> QED BY <2>3, <3>1 DEF SignedWhereItIsServed
  <2> QED
    BY <2>1, <2>2, <2>3
<1>3. ASSUME NEW s \in Service, GetService(s)
      PROVE  SignedWhereItIsServed'
  BY <1>1, <1>3 DEF GetService
<1>4. CASE NewLoader
  BY <1>1, <1>4 DEF NewLoader
<1>5. CASE UNCHANGED clientVars
  BY <1>1, <1>5 DEF clientVars
<1> QED
  BY <1>2, <1>3, <1>4, <1>5 DEF ClientsNext

\* For any endpoint rules in which a host that is signed for a scope has the
\* signature version of the scope's own host, as _endpoints.json has them: a
\* client signs for the region and with the version of the rule of its host,
\* although it looks the rules up twice and in different regions.
THEOREM ClientsSignWhereServed == ClientsSpec => []SignedWhereItIsServed
<1>1. ClientsInit => SignedWhereItIsServed
  <2> SUFFICES ASSUME ClientsInit PROVE SignedWhereItIsServed
    OBVIOUS
  <2>1. last = [error |-> "no client"]
    BY DEF ClientsInit
  <2>2. last.error # "none"
    BY <2>1
  <2> QED BY <2>2 DEF SignedWhereItIsServed
<1> QED
  BY <1>1, StepLast, PTL DEF ClientsSpec
=============================================================================
