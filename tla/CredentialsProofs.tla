------------------------- MODULE CredentialsProofs -------------------------
(***************************************************************************)
(* Type correctness, coherence, freshness and the number of fetches of     *)
(* Credentials, for any number of threads, generations and attempts, and   *)
(* what RequestSigning says of the signatures made with them, for every    *)
(* call and any number of attempts.                                        *)
(*                                                                         *)
(* Coherent is not inductive: it does not say what a thread half-way       *)
(* through _set_from_data has set.  Progress says so: what is stored is    *)
(* never newer than what the thread sets, and the attributes it has passed *)
(* are set.  Freshness needs Timely besides: generations are issued in     *)
(* order, and no time passes while a thread sets attributes or returns.    *)
(* A signature fetches once since what it fetched in time stays ahead of   *)
(* the time until it ends (Recent).                                        *)
(*                                                                         *)
(* An attempt signs what earlier ones have left.  A request Fits when a    *)
(* signer may be given it, and every signer makes a message that is        *)
(* Delivered of a request that Fits, and a request that Fits again; the    *)
(* body keeps all but the stamps (BodyKept).  CallInv says so of the dict  *)
(* and the last message.                                                   *)
(***************************************************************************)
EXTENDS Credentials, RequestSigning, SequenceTheorems, TLAPS

\* What a thread in _set_from_data has done.
Progress ==
  ~overlapped =>
    \A t \in Thread : phase[t] = "set" =>
      /\ \A a \in Attribute : stored[a] <= fetched[t]
      /\ \A i \in 1..4 : i < put[t] => stored[SetOrder[i]] = fetched[t]

\* Times of issue and of expiry.
Timely ==
  /\ now <= Expiry(current) - Renewal
  /\ \A g, h \in 0..current : g <= h => issued[g] <= issued[h]
  /\ \A t \in Thread : phase[t] = "set" => now < Expiry(fetched[t])

\* Where a thread is about to return, expiry_time lies ahead.
Ahead ==
  \A t \in Thread : phase[t] = "return" /\ ~overlapped => now < Expiry(stored["expiry_time"])

\* Between refreshes a thread is to set the first attribute.
PutReset == \A t \in Thread : phase[t] # "set" => put[t] = 1

CoherenceInv == TypeOK /\ Coherent /\ Progress /\ PutReset
FreshnessInv == CoherenceInv /\ Timely /\ Ahead
-----------------------------------------------------------------------------
\* The attributes by name.
LEMMA Attributes ==
  /\ Attribute = {"access_key", "secret_key", "token", "expiry_time"}
  /\ \A i \in 1..4 : SetOrder[i] \in Attribute
  /\ SetOrder[1] = "access_key" /\ SetOrder[2] = "secret_key"
  /\ SetOrder[3] = "token" /\ SetOrder[4] = "expiry_time"
<1>1. \A i \in 1..4 : i = 1 \/ i = 2 \/ i = 3 \/ i = 4
  OBVIOUS
<1>2. SetOrder[1] = "access_key" /\ SetOrder[2] = "secret_key"
      /\ SetOrder[3] = "token" /\ SetOrder[4] = "expiry_time"
  BY DEF SetOrder
<1> QED
  BY <1>1, <1>2 DEF Attribute

\* Every read of a signature is one of an attribute.
LEMMA Reads ==
  \A r \in SignatureReads : \A i \in 1..4 : r[i] \in Attribute
<1> SUFFICES ASSUME NEW r \in SignatureReads, NEW i \in 1..4
             PROVE  r[i] \in Attribute
  OBVIOUS
<1>1. i = 1 \/ i = 2 \/ i = 3 \/ i = 4
  OBVIOUS
<1> QED
  BY <1>1, Attributes DEF SignatureReads

\* The initial state is well typed.
LEMMA InitTyped == Init => TypeOK
<1> SUFFICES ASSUME Init
             PROVE  TypeOK
  OBVIOUS
<1> USE CredentialsAssumption DEF Generation
<1>1. now \in Nat /\ current \in Generation
  BY DEF Init
<1>7. overlapped \in BOOLEAN
  BY Zenon DEF Init
<1>2. issued \in [Generation -> 0..now] /\ stored \in [Attribute -> 0..current]
  BY DEF Init
<1>3. phase \in [Thread -> {"idle", "read", "list", "document", "set", "return"}]
  BY DEF Init
<1>4. pos \in [Thread -> 1..4] /\ tries \in [Thread -> 1..NumAttempts] /\ put \in [Thread -> 1..4]
  BY DEF Init
<1>5. fetched \in [Thread -> 0..current] /\ fetches \in [Thread -> 0..2]
  BY DEF Init
<1>6. late \in [Thread -> BOOLEAN] /\ order \in [Thread -> SignatureReads]
  BY DEF Init
<1> QED
  BY <1>1, <1>2, <1>3, <1>4, <1>5, <1>6, <1>7 DEF TypeOK

\* The variables of the thread after its signature.
LEMMA EndTyped ==
  ASSUME TypeOK, NEW t \in Thread, EndSign(t), UNCHANGED <<service, stored, order, put, overlapped>>
  PROVE  TypeOK'
<1>1. phase' \in [Thread -> {"idle", "read", "list", "document", "set", "return"}]
  BY DEF EndSign, TypeOK
<1>2. pos' \in [Thread -> 1..4] /\ tries' \in [Thread -> 1..NumAttempts]
  BY CredentialsAssumption DEF EndSign, TypeOK
<1>3. fetched' \in [Thread -> 0..current]
  BY CredentialsAssumption DEF EndSign, TypeOK, Generation
<1>4. fetches' \in [Thread -> 0..2]
  BY DEF EndSign, TypeOK
<1>5. late' \in [Thread -> BOOLEAN]
  BY DEF EndSign, TypeOK
<1> QED
  BY <1>1, <1>2, <1>3, <1>4, <1>5 DEF TypeOK, service

\* Every step keeps the types.
LEMMA StepTyped == TypeOK /\ [Next]_vars => TypeOK'
<1> SUFFICES ASSUME TypeOK, [Next]_vars
             PROVE  TypeOK'
  OBVIOUS
<1>1. CASE Tick
  BY <1>1 DEF Tick, TypeOK, reading, history, service
<1>2. CASE Renew
  BY <1>2, CredentialsAssumption DEF Renew, TypeOK, Generation, reading, history
<1>3. ASSUME NEW t \in Thread, Step(t)
      PROVE  TypeOK'
  <2>1. CASE StartSign(t)
    BY <2>1 DEF StartSign, TypeOK, reading, history, service
  <2>2. CASE Refresh(t)
    <3>1. phase' \in [Thread -> {"idle", "read", "list", "document", "set", "return"}]
      BY <2>2 DEF Refresh, TypeOK
    <3>2. tries' \in [Thread -> 1..NumAttempts]
      BY <2>2, CredentialsAssumption DEF Refresh, TypeOK
    <3> QED
      BY <2>2, <3>1, <3>2 DEF Refresh, TypeOK, reading, history, service
  <2>3. CASE RequestAgain(t)
    BY <2>3, CredentialsAssumption DEF RequestAgain, TypeOK, reading, history, service
  <2>4. CASE ListRoles(t)
    <3>1. phase' \in [Thread -> {"idle", "read", "list", "document", "set", "return"}]
      BY <2>4 DEF ListRoles, TypeOK
    <3>2. tries' \in [Thread -> 1..NumAttempts]
      BY <2>4, CredentialsAssumption DEF ListRoles, TypeOK
    <3> QED
      BY <2>4, <3>1, <3>2 DEF ListRoles, TypeOK, reading, history, service
  <2>5. CASE FetchDocument(t)
    <3>1. late' \in [Thread -> BOOLEAN]
      BY <2>5 DEF FetchDocument, TypeOK
    <3>2. fetches' \in [Thread -> 0..2]
      <4>1. CASE fetches[t] < 2
        <5>1. fetches' = [fetches EXCEPT ![t] = fetches[t] + 1]
          BY <2>5, <4>1 DEF FetchDocument
        <5>2. fetches \in [Thread -> 0..2]
          BY DEF TypeOK
        <5>3. fetches[t] + 1 \in 0..2
          BY <4>1, <5>2
        <5> QED
          BY <5>1, <5>2, <5>3
      <4>2. CASE ~(fetches[t] < 2)
        <5>1. fetches' = [fetches EXCEPT ![t] = 2]
          BY <2>5, <4>2 DEF FetchDocument
        <5>2. fetches \in [Thread -> 0..2]
          BY DEF TypeOK
        <5> QED
          BY <5>1, <5>2
      <4> QED
        BY <4>1, <4>2
    <3>3. fetched' \in [Thread -> 0..current]
      <4>1. fetched \in [Thread -> 0..current] /\ current \in 0..current
        BY CredentialsAssumption DEF TypeOK, Generation
      <4> QED
        BY <2>5, <4>1 DEF FetchDocument
    <3>4. phase' \in [Thread -> {"idle", "read", "list", "document", "set", "return"}]
      BY <2>5 DEF FetchDocument, TypeOK
    <3>5. tries' \in [Thread -> 1..NumAttempts]
      BY <2>5, CredentialsAssumption DEF FetchDocument, TypeOK
    <3> QED
      BY <2>5, <3>1, <3>2, <3>3, <3>4, <3>5 DEF FetchDocument, TypeOK, reading, service
  <2>6. CASE FetchFails(t)
    BY <2>6, EndTyped DEF FetchFails
  <2>7. CASE SetNext(t)
    <3>1. stored' \in [Attribute -> 0..current]
      BY <2>7, Attributes DEF SetNext, StoreAt, TypeOK
    <3>2. overlapped' \in BOOLEAN
      BY <2>7 DEF SetNext, TypeOK
    <3>3. put' \in [Thread -> 1..4]
      <4>1. CASE put[t] < 4
        <5>1. put[t] + 1 \in 1..4
          BY <4>1 DEF TypeOK
        <5> QED
          BY <2>7, <4>1, <5>1 DEF SetNext, TypeOK
      <4>2. CASE ~(put[t] < 4)
        BY <2>7, <4>2 DEF SetNext, TypeOK
      <4> QED
        BY <4>1, <4>2
    <3>4. phase' \in [Thread -> {"idle", "read", "list", "document", "set", "return"}]
      BY <2>7 DEF SetNext, TypeOK
    <3> QED
      BY <2>7, <3>1, <3>2, <3>3, <3>4 DEF SetNext, TypeOK, reading, service
  <2>8. CASE Return(t)
    <3>1. CASE pos[t] < 4
      <4>1. pos[t] + 1 \in 1..4
        BY <3>1 DEF TypeOK
      <4> QED
        BY <2>8, <3>1, <4>1 DEF Return, TypeOK, service
    <3>2. CASE ~(pos[t] < 4)
      BY <2>8, <3>2, EndTyped DEF Return
    <3> QED
      BY <3>1, <3>2
  <2> QED
    BY <1>3, <2>1, <2>2, <2>3, <2>4, <2>5, <2>6, <2>7, <2>8 DEF Step
<1>4. CASE UNCHANGED vars
  BY <1>4 DEF vars, TypeOK
<1> QED
  BY <1>1, <1>2, <1>3, <1>4 DEF Next
-----------------------------------------------------------------------------
\* A step that sets no attribute, and after which the threads that set attributes are
\* the same, keeps coherence.
LEMMA QuietCoherent ==
  ASSUME TypeOK, TypeOK', Coherent, Progress,
         UNCHANGED <<stored, overlapped, put>>,
         \A u \in Thread : phase'[u] = "set" <=> phase[u] = "set",
         \A u \in Thread : phase[u] = "set" => fetched'[u] = fetched[u]
  PROVE  Coherent' /\ Progress'
<1>1. Coherent'
  BY DEF Coherent
<1>2. Progress'
  BY DEF Progress
<1> QED
  BY <1>1, <1>2

\* What a thread fetches is at least as new as what is stored.
LEMMA FetchCoherent ==
  ASSUME TypeOK, TypeOK', Coherent, Progress, NEW t \in Thread, FetchDocument(t), put[t] = 1
  PROVE  Coherent' /\ Progress'
<1>1. UNCHANGED <<stored, overlapped, put, current>> /\ phase'[t] = "set" /\ fetched'[t] = current
  BY DEF FetchDocument, service, reading, TypeOK
<1>2. \A u \in Thread : u # t => phase'[u] = phase[u] /\ fetched'[u] = fetched[u]
  BY DEF FetchDocument, TypeOK
<1>3. Coherent'
  BY <1>1 DEF Coherent, FetchDocument
<1>4. ASSUME NEW u \in Thread, phase'[u] = "set", ~overlapped
      PROVE  /\ \A a \in Attribute : stored'[a] <= fetched'[u]
             /\ \A i \in 1..4 : i < put'[u] => stored'[SetOrder[i]] = fetched'[u]
  <2>1. CASE u = t
    <3>1. \A a \in Attribute : stored[a] <= current
      BY DEF TypeOK, Generation
    <3>2. \A i \in 1..4 : ~(i < put'[u])
      BY <2>1, <1>1
    <3> QED
      BY <2>1, <1>1, <3>1, <3>2
  <2>2. CASE u # t
    BY <2>2, <1>1, <1>2, <1>4 DEF Progress
  <2> QED
    BY <2>1, <2>2
<1>5. Progress'
  BY <1>1, <1>4 DEF Progress
<1> QED
  BY <1>3, <1>5

\* The heart of the matter: unless metadata overlaps, setting an attribute keeps the
\* attributes a thread has passed, and the last one makes all equal.
LEMMA SetCoherent ==
  ASSUME TypeOK, TypeOK', Coherent, Progress, NEW t \in Thread, SetNext(t)
  PROVE  Coherent' /\ Progress'
<1> SUFFICES ASSUME ~overlapped'
             PROVE  Coherent' /\ Progress'
  BY DEF Coherent, Progress
<1>1. ~overlapped /\ \A u \in Thread : phase[u] = "set" => fetched[u] = fetched[t]
  BY DEF SetNext
<1>2. phase[t] = "set" /\ fetched' = fetched /\ put[t] \in 1..4
  BY DEF SetNext, TypeOK
<1>3. /\ stored'[SetOrder[put[t]]] = fetched[t]
      /\ \A a \in Attribute : a # SetOrder[put[t]] => stored'[a] = stored[a]
  BY Attributes, <1>2 DEF SetNext, StoreAt, TypeOK
<1>4. \A a \in Attribute : stored[a] <= fetched[t] /\ stored'[a] <= fetched[t]
  <2>1. \A a \in Attribute : stored[a] <= fetched[t]
    BY <1>1, <1>2 DEF Progress
  <2>2. fetched[t] \in Int
    BY DEF TypeOK
  <2> QED
    BY <2>1, <2>2, <1>3
<1>5. \A i \in 1..4 : i < put[t] => stored[SetOrder[i]] = fetched[t]
  BY <1>1, <1>2 DEF Progress
<1>6. \A i \in 1..4 : i <= put[t] => stored'[SetOrder[i]] = fetched[t]
  BY <1>2, <1>3, <1>5, Attributes
<1>7. \A u \in Thread : phase'[u] = "set" => phase[u] = "set"
  BY <1>2 DEF SetNext, TypeOK
<1>8. Progress'
  <2> SUFFICES ASSUME NEW u \in Thread, phase'[u] = "set"
               PROVE  /\ \A a \in Attribute : stored'[a] <= fetched'[u]
                      /\ \A i \in 1..4 : i < put'[u] => stored'[SetOrder[i]] = fetched'[u]
    BY DEF Progress
  <2>1. phase[u] = "set" /\ fetched'[u] = fetched[t]
    BY <1>1, <1>2, <1>7
  <2>2. CASE u = t
    <3>1. put[t] < 4
      BY <2>2, <1>2 DEF SetNext, TypeOK
    <3>2. put'[t] = put[t] + 1
      BY <3>1 DEF SetNext, TypeOK
    <3> QED
      BY <2>1, <2>2, <3>2, <1>2, <1>4, <1>6
  <2>3. CASE u # t
    <3>1. put'[u] = put[u]
      BY <2>3 DEF SetNext, TypeOK
    <3>2. \A i \in 1..4 : i < put[u] => stored[SetOrder[i]] = fetched[t]
      BY <1>1, <2>1 DEF Progress
    <3>3. \A i \in 1..4 : i < put[u] => stored'[SetOrder[i]] = fetched[t]
      BY <3>2, <1>3, Attributes
    <3> QED
      BY <2>1, <3>1, <3>3, <1>4
  <2> QED
    BY <2>2, <2>3
<1>9. Coherent'
  <2>1. CASE put[t] = 4
    <3>1. \A a \in Attribute : stored'[a] = fetched[t]
      BY <1>6, <2>1, Attributes
    <3> QED
      BY <3>1, Attributes DEF Coherent, TypeOK
  <2>2. CASE put[t] # 4
    <3>1. put[t] < 4 /\ phase'[t] = "set"
      BY <2>2, <1>2 DEF SetNext, TypeOK
    <3>2. SetOrder[put[t]] # "expiry_time"
      BY <2>2, <1>2, Attributes
    <3>3. stored'["expiry_time"] = stored["expiry_time"] /\ stored["expiry_time"] <= fetched[t]
      BY <3>2, <1>3, <1>4, Attributes
    <3>4. \A a \in Attribute : stored[a] >= stored["expiry_time"]
      BY <1>1 DEF Coherent
    <3>5. \A a \in Attribute : stored'[a] >= stored'["expiry_time"]
      BY <3>3, <3>4, <1>3
    <3> QED
      BY <3>1, <3>5 DEF Coherent
  <2> QED
    BY <2>1, <2>2
<1> QED
  BY <1>8, <1>9

\* Every step keeps coherence.
LEMMA StepCoherent == CoherenceInv /\ [Next]_vars => CoherenceInv'
<1> SUFFICES ASSUME CoherenceInv, [Next]_vars
             PROVE  CoherenceInv'
  OBVIOUS
<1>0. TypeOK /\ TypeOK' /\ Coherent /\ Progress /\ PutReset
  BY StepTyped DEF CoherenceInv
<1>1. CASE Tick \/ Renew \/ UNCHANGED vars
  <2>1. UNCHANGED <<stored, phase, fetched, put, overlapped>>
    BY <1>1 DEF Tick, Renew, vars, history
  <2>2. PutReset'
    BY <1>0, <2>1 DEF PutReset
  <2>3. Coherent' /\ Progress'
    BY <1>0, <2>1, QuietCoherent
  <2> QED
    BY <1>0, <2>2, <2>3 DEF CoherenceInv
<1>2. ASSUME NEW t \in Thread, Step(t)
      PROVE  CoherenceInv'
  <2>1. CASE StartSign(t) \/ Refresh(t) \/ RequestAgain(t) \/ ListRoles(t) \/ FetchFails(t) \/ Return(t)
    <3>1. UNCHANGED <<stored, overlapped, put>>
      BY <2>1 DEF StartSign, Refresh, RequestAgain, ListRoles, FetchFails, Return, history
    <3>2. phase[t] # "set" /\ phase'[t] # "set"
      BY <2>1, <1>0 DEF StartSign, Refresh, RequestAgain, ListRoles, FetchFails, Return, EndSign, TypeOK
    <3>3. \A u \in Thread : u # t => phase'[u] = phase[u] /\ fetched'[u] = fetched[u]
      BY <2>1, <1>0 DEF StartSign, Refresh, RequestAgain, ListRoles, FetchFails, Return, EndSign, TypeOK
    <3>4. PutReset'
      BY <1>0, <3>1, <3>2, <3>3 DEF PutReset
    <3>5. Coherent' /\ Progress'
      <4>1. \A u \in Thread : phase'[u] = "set" <=> phase[u] = "set"
        BY <3>2, <3>3
      <4>2. \A u \in Thread : phase[u] = "set" => fetched'[u] = fetched[u]
        BY <3>2, <3>3
      <4> QED
        BY <1>0, <3>1, <4>1, <4>2, QuietCoherent
    <3> QED
      BY <1>0, <3>4, <3>5 DEF CoherenceInv
  <2>2. CASE FetchDocument(t)
    <3>1. put[t] = 1
      BY <2>2, <1>0 DEF FetchDocument, PutReset
    <3>2. PutReset'
      BY <2>2, <1>0 DEF FetchDocument, PutReset, TypeOK
    <3> QED
      BY <2>2, <1>0, <3>1, <3>2, FetchCoherent DEF CoherenceInv
  <2>3. CASE SetNext(t)
    <3>1. PutReset'
      BY <2>3, <1>0 DEF SetNext, PutReset, TypeOK
    <3> QED
      BY <2>3, <1>0, <3>1, SetCoherent DEF CoherenceInv
  <2> QED
    BY <1>2, <2>1, <2>2, <2>3 DEF Step
<1> QED
  BY <1>1, <1>2 DEF Next

\* The initial state is coherent.
LEMMA InitCoherent == Init => CoherenceInv
<1> SUFFICES ASSUME Init
             PROVE  CoherenceInv
  OBVIOUS
<1>1. \A a \in Attribute : stored[a] = 0
  BY DEF Init
<1>2. Coherent
  BY <1>1, Attributes DEF Coherent
<1>3. Progress /\ PutReset
  BY DEF Init, Progress, PutReset
<1> QED
  BY <1>2, <1>3, InitTyped DEF CoherenceInv

\* The attributes of the credentials are of one generation whenever no thread sets
\* them, and expiry_time is never ahead of the keys, unless metadata overlapped
\* (credentials.py 210-214).
THEOREM CredentialsCoherent == Spec => []Coherent
<1>1. CoherenceInv => Coherent
  BY DEF CoherenceInv
<1> QED
  BY <1>1, InitCoherent, StepCoherent, PTL DEF Spec
-----------------------------------------------------------------------------
\* Later generations were issued later, so they expire later.
LEMMA ExpiryGrows ==
  ASSUME TypeOK, Timely, NEW g \in 0..current, NEW h \in 0..current, g <= h
  PROVE  Expiry(g) \in Int /\ Expiry(h) \in Int /\ Expiry(g) <= Expiry(h)
<1>1. g \in Generation /\ h \in Generation
  BY CredentialsAssumption DEF TypeOK, Generation
<1>2. issued[g] \in Int /\ issued[h] \in Int /\ issued[g] <= issued[h]
  BY <1>1 DEF TypeOK, Timely
<1> QED
  BY <1>2, CredentialsAssumption DEF Expiry

\* Time passes only while no thread sets attributes or returns.
LEMMA TickTimely ==
  ASSUME FreshnessInv, Tick
  PROVE  Timely' /\ Ahead'
<1>1. UNCHANGED <<issued, current, stored, phase, fetched, overlapped>>
  BY DEF Tick, history
<1>2. \A t \in Thread : phase'[t] # "set" /\ phase'[t] # "return"
  BY <1>1 DEF Tick, Waiting
<1>3. now' <= Expiry(current) - Renewal /\ Expiry(current)' = Expiry(current)
  BY <1>1 DEF Tick, Expiry
<1>4. \A g, h \in 0..current' : g <= h => issued'[g] <= issued'[h]
  BY <1>1 DEF FreshnessInv, Timely
<1> QED
  BY <1>1, <1>2, <1>3, <1>4 DEF Timely, Ahead

\* A new generation expires after all others.
LEMMA RenewTimely ==
  ASSUME FreshnessInv, Renew
  PROVE  Timely' /\ Ahead'
<1>0. TypeOK /\ Timely /\ Ahead
  BY DEF FreshnessInv, CoherenceInv
<1>1. UNCHANGED <<now, stored, phase, fetched, overlapped>>
  BY DEF Renew, history
<1>2. current' = current + 1 /\ current \in Nat /\ current + 1 \in Generation
  BY <1>0, CredentialsAssumption DEF Renew, TypeOK, Generation
<1>3. issued'[current + 1] = now
  BY <1>0, <1>2 DEF Renew, TypeOK
<1>4. \A g \in 0..current : issued'[g] = issued[g] /\ issued[g] \in 0..now
  BY <1>0, <1>2, CredentialsAssumption DEF Renew, TypeOK, Generation
<1>5. \A g \in 0..current : Expiry(g)' = Expiry(g)
  BY <1>4 DEF Expiry
<1>6. now' <= Expiry(current)' - Renewal
  <2>1. Expiry(current)' = now + Lifetime
    BY <1>2, <1>3 DEF Expiry
  <2> QED
    BY <2>1, <1>0, <1>1, CredentialsAssumption DEF TypeOK
<1>7. \A g, h \in 0..current' : g <= h => issued'[g] <= issued'[h]
  <2> SUFFICES ASSUME NEW g \in 0..current', NEW h \in 0..current', g <= h
               PROVE  issued'[g] <= issued'[h]
    OBVIOUS
  <2>1. CASE h = current + 1 /\ g = current + 1
    BY <2>1, <1>3, <1>0 DEF TypeOK
  <2>2. CASE h = current + 1 /\ g # current + 1
    BY <2>2, <1>2, <1>3, <1>4, <1>0 DEF TypeOK
  <2>3. CASE h # current + 1
    <3>1. g \in 0..current /\ h \in 0..current
      BY <2>3, <1>2
    <3> QED
      BY <3>1, <1>0, <1>4 DEF Timely
  <2> QED
    BY <2>1, <2>2, <2>3
<1>8. \A t \in Thread : phase'[t] = "set" => now' < Expiry(fetched[t])'
  BY <1>0, <1>1, <1>5 DEF Timely, TypeOK
<1>9. Ahead'
  BY <1>0, <1>1, <1>5, Attributes DEF Ahead, TypeOK
<1> QED
  BY <1>1, <1>6, <1>7, <1>8, <1>9 DEF Timely

\* The steps of a thread do not change the time, nor what is issued when.
LEMMA ThreadTimely ==
  ASSUME FreshnessInv, NEW t \in Thread, Step(t)
  PROVE  Timely' /\ Ahead'
<1>0. TypeOK /\ Timely /\ Ahead
  BY DEF FreshnessInv, CoherenceInv
<1>1. UNCHANGED service
  <2>1. CASE StartSign(t) \/ Refresh(t) \/ RequestAgain(t) \/ ListRoles(t)
    BY <2>1 DEF StartSign, Refresh, RequestAgain, ListRoles
  <2>2. CASE FetchDocument(t) \/ FetchFails(t) \/ SetNext(t) \/ Return(t)
    BY <2>2 DEF FetchDocument, FetchFails, SetNext, Return
  <2> QED
    BY <2>1, <2>2 DEF Step
<1>2. UNCHANGED <<now, issued, current>>
  BY <1>1 DEF service
<1>3. \A g : Expiry(g)' = Expiry(g)
  BY <1>2 DEF Expiry
<1>4. ASSUME \A u \in Thread : phase'[u] = "set" => now < Expiry(fetched'[u])
      PROVE  Timely'
  <2>1. now' <= Expiry(current)' - Renewal
    BY <1>0, <1>2, <1>3 DEF Timely
  <2>2. \A g, h \in 0..current' : g <= h => issued'[g] <= issued'[h]
    BY <1>0, <1>2 DEF Timely
  <2>3. \A u \in Thread : phase'[u] = "set" => now' < Expiry(fetched[u])'
    BY <1>2, <1>3, <1>4 DEF Expiry
  <2> QED
    BY <2>1, <2>2, <2>3 DEF Timely
<1>5. now \in Int /\ Expiry(stored["expiry_time"]) \in Int /\ Expiry(current) \in Int
  <2>1. stored["expiry_time"] \in 0..current /\ current \in 0..current /\ now \in Int
    BY <1>0, Attributes DEF TypeOK, Generation
  <2> QED
    BY <2>1, <1>0, ExpiryGrows
<1>6. CASE StartSign(t) \/ RequestAgain(t) \/ ListRoles(t) \/ FetchFails(t) \/ Return(t)
  <2>1. UNCHANGED <<stored, overlapped>>
    BY <1>6 DEF StartSign, RequestAgain, ListRoles, FetchFails, Return, history
  <2>2. phase'[t] # "set" /\ phase'[t] # "return"
    BY <1>6, <1>0 DEF StartSign, RequestAgain, ListRoles, FetchFails, Return, EndSign, TypeOK
  <2>3. \A u \in Thread : u # t => phase'[u] = phase[u] /\ fetched'[u] = fetched[u]
    BY <1>6, <1>0 DEF StartSign, RequestAgain, ListRoles, FetchFails, Return, EndSign, TypeOK
  <2>4. \A u \in Thread : phase'[u] = "set" => now < Expiry(fetched'[u])
    BY <2>2, <2>3, <1>0 DEF Timely
  <2>5. Ahead'
    BY <2>1, <2>2, <2>3, <1>0, <1>2, <1>3 DEF Ahead
  <2> QED
    BY <1>4, <2>4, <2>5
<1>7. CASE Refresh(t)
  <2>1. UNCHANGED <<stored, overlapped, fetched>>
    BY <1>7 DEF Refresh, history
  <2>2. \A u \in Thread : u # t => phase'[u] = phase[u]
    BY <1>7, <1>0 DEF Refresh, TypeOK
  <2>3. phase'[t] # "set" /\ (phase'[t] = "return" => ~RefreshNeeded)
    <3>1. CASE RefreshNeeded
      <4>1. phase'[t] = "list"
        BY <1>7, <3>1, <1>0 DEF Refresh, TypeOK
      <4> QED
        BY <4>1
    <3>2. CASE ~RefreshNeeded
      <4>1. phase'[t] = "return"
        BY <1>7, <3>2, <1>0 DEF Refresh, TypeOK
      <4> QED
        BY <4>1, <3>2
    <3> QED
      BY <3>1, <3>2
  <2>4. ~RefreshNeeded => now < Expiry(stored["expiry_time"])
    BY <1>5, CredentialsAssumption DEF RefreshNeeded
  <2>5. \A u \in Thread : phase'[u] = "set" => now < Expiry(fetched'[u])
    BY <2>1, <2>2, <2>3, <1>0 DEF Timely
  <2>6. Ahead'
    BY <2>1, <2>2, <2>3, <2>4, <1>0, <1>2, <1>3 DEF Ahead
  <2> QED
    BY <1>4, <2>5, <2>6
<1>8. CASE FetchDocument(t)
  <2>1. UNCHANGED <<stored, overlapped>> /\ phase'[t] = "set" /\ fetched'[t] = current
    BY <1>8, <1>0 DEF FetchDocument, TypeOK
  <2>2. \A u \in Thread : u # t => phase'[u] = phase[u] /\ fetched'[u] = fetched[u]
    BY <1>8, <1>0 DEF FetchDocument, TypeOK
  <2>3. now < Expiry(current)
    BY <1>0, <1>5, CredentialsAssumption DEF Timely
  <2>4. \A u \in Thread : phase'[u] = "set" => now < Expiry(fetched'[u])
    BY <2>1, <2>2, <2>3, <1>0 DEF Timely
  <2>5. Ahead'
    BY <2>1, <2>2, <1>0, <1>2, <1>3 DEF Ahead
  <2> QED
    BY <1>4, <2>4, <2>5
<1>9. CASE SetNext(t)
  <2>1. UNCHANGED fetched /\ phase[t] = "set" /\ now < Expiry(fetched[t])
    BY <1>9, <1>0 DEF SetNext, Timely
  <2>2. \A u \in Thread : u # t => phase'[u] = phase[u]
    BY <1>9, <1>0 DEF SetNext, TypeOK
  <2>3. \A u \in Thread : phase'[u] = "set" => now < Expiry(fetched'[u])
    BY <2>1, <2>2, <1>0 DEF Timely
  <2>4. Ahead'
    <3> SUFFICES ASSUME NEW u \in Thread, phase'[u] = "return", ~overlapped'
                 PROVE  now' < Expiry(stored["expiry_time"])'
      BY DEF Ahead
    <3>1. put[t] \in 1..4 /\ ~overlapped
      BY <1>9, <1>0 DEF SetNext, TypeOK
    <3>2. CASE put[t] = 4
      <4>1. stored'["expiry_time"] = fetched[t]
        BY <3>2, <1>9, <1>0, Attributes DEF SetNext, StoreAt, TypeOK
      <4> QED
        BY <4>1, <2>1, <1>2 DEF Expiry
    <3>3. CASE put[t] # 4
      <4>1. stored'["expiry_time"] = stored["expiry_time"]
        BY <3>1, <3>3, <1>9, <1>0, Attributes DEF SetNext, StoreAt, TypeOK
      <4>2. phase'[t] = "set"
        BY <3>1, <3>3, <1>9, <1>0 DEF SetNext, TypeOK
      <4>3. phase[u] = "return"
        BY <4>2, <2>2
      <4> QED
        BY <4>1, <4>3, <3>1, <1>0, <1>2 DEF Ahead, Expiry
    <3> QED
      BY <3>2, <3>3
  <2> QED
    BY <1>4, <2>3, <2>4
<1> QED
  BY <1>6, <1>7, <1>8, <1>9 DEF Step

\* Every step keeps freshness.
LEMMA StepFresh == FreshnessInv /\ [Next]_vars => FreshnessInv'
<1> SUFFICES ASSUME FreshnessInv, [Next]_vars
             PROVE  FreshnessInv'
  OBVIOUS
<1>1. CoherenceInv'
  BY StepCoherent DEF FreshnessInv
<1>2. Timely' /\ Ahead'
  <2>1. CASE Tick
    BY <2>1, TickTimely
  <2>2. CASE Renew
    BY <2>2, RenewTimely
  <2>3. CASE \E t \in Thread : Step(t)
    BY <2>3, ThreadTimely
  <2>4. CASE UNCHANGED vars
    BY <2>4 DEF vars, FreshnessInv, Timely, Ahead, Expiry
  <2> QED
    BY <2>1, <2>2, <2>3, <2>4 DEF Next
<1> QED
  BY <1>1, <1>2 DEF FreshnessInv

\* The first generation has just been issued.
LEMMA InitFresh == Init => FreshnessInv
<1> SUFFICES ASSUME Init
             PROVE  FreshnessInv
  OBVIOUS
<1>1. now = 0 /\ current = 0 /\ issued[0] = 0
  BY CredentialsAssumption DEF Init, Generation
<1>2. \A t \in Thread : phase[t] = "idle"
  BY DEF Init
<1>3. Timely
  BY <1>1, <1>2, CredentialsAssumption DEF Timely, Expiry
<1>4. Ahead
  BY <1>2 DEF Ahead
<1> QED
  BY <1>3, <1>4, InitCoherent DEF FreshnessInv

\* What a read returns has not expired, whatever other threads and the service do
\* meanwhile, unless metadata overlapped (credentials.py 154-174).
THEOREM CredentialsFresh == Spec => []FreshWhenRead
<1>1. FreshnessInv => FreshWhenRead
  <2> SUFFICES ASSUME FreshnessInv, NEW t \in Thread, phase[t] = "return", ~overlapped
               PROVE  Expiry(stored[order[t][pos[t]]]) > now
    BY DEF FreshWhenRead
  <2>0. TypeOK /\ Timely /\ Ahead /\ Coherent
    BY DEF FreshnessInv, CoherenceInv
  <2> DEFINE a == order[t][pos[t]]
  <2>1. a \in Attribute
    BY <2>0, Reads DEF TypeOK
  <2>2. stored[a] \in 0..current /\ stored["expiry_time"] \in 0..current
    BY <2>0, <2>1, Attributes DEF TypeOK
  <2>3. stored["expiry_time"] <= stored[a]
    BY <2>0, <2>1, <2>2 DEF Coherent
  <2> HIDE DEF a
  <2>4. /\ Expiry(stored["expiry_time"]) \in Int /\ Expiry(stored[a]) \in Int
        /\ Expiry(stored["expiry_time"]) <= Expiry(stored[a])
    BY <2>0, <2>2, <2>3, ExpiryGrows
  <2>5. now < Expiry(stored["expiry_time"]) /\ now \in Int
    BY <2>0 DEF Ahead, TypeOK
  <2>6. Expiry(stored[a]) > now
    BY <2>4, <2>5
  <2> QED
    BY <2>6 DEF a
<1> QED
  BY <1>1, InitFresh, StepFresh, PTL DEF Spec

\* Type correctness, for any number of threads, generations and attempts.
THEOREM TypesHold == Spec => []TypeOK
<1> QED BY InitTyped, StepTyped, PTL DEF Spec
-----------------------------------------------------------------------------
\* A thread that fetched metadata in time for this signature has done so once, and
\* keeps what it fetched, or newer, ahead of it.
RecentFor(t) ==
  fetches[t] >= 1 /\ ~late[t] =>
    /\ fetches[t] = 1
    /\ phase[t] \in {"set", "return", "read"}
    /\ phase[t] = "set" => now + RefreshTimeout <= Expiry(fetched[t])
    /\ phase[t] # "set" => now + RefreshTimeout <= Expiry(stored["expiry_time"])

Recent == ~overlapped => \A t \in Thread : RecentFor(t)

LEMMA RenewRecent == FreshnessInv /\ Recent /\ Renew => Recent'
<1> SUFFICES ASSUME FreshnessInv, Recent, Renew, ~overlapped', NEW u \in Thread
             PROVE  RecentFor(u)'
  BY DEF Recent
<1>1. UNCHANGED <<now, stored, phase, fetched, fetches, late, overlapped>>
  BY DEF Renew, history
<1>2. TypeOK /\ current \in Nat /\ current + 1 \in Generation
  BY CredentialsAssumption DEF FreshnessInv, CoherenceInv, Renew, TypeOK, Generation
<1>3. \A g \in 0..current : Expiry(g)' = Expiry(g)
  BY <1>2, CredentialsAssumption DEF Renew, TypeOK, Generation, Expiry
<1>4. fetched[u] \in 0..current /\ stored["expiry_time"] \in 0..current
  BY <1>2, Attributes DEF TypeOK
<1>5. Expiry(fetched[u])' = Expiry(fetched[u]) /\ Expiry(stored["expiry_time"])' = Expiry(stored["expiry_time"])
  BY <1>1, <1>3, <1>4
<1> QED
  BY <1>1, <1>5 DEF Recent, RecentFor

LEMMA ThreadRecent ==
  ASSUME FreshnessInv, FreshnessInv', Recent, NEW t \in Thread, Step(t)
  PROVE  Recent'
<1> SUFFICES ASSUME ~overlapped', NEW u \in Thread
             PROVE  RecentFor(u)'
  BY DEF Recent
<1> SUFFICES ASSUME fetches'[u] >= 1, ~late'[u] PROVE RecentFor(u)'
  BY DEF RecentFor
<1>0. TypeOK /\ Timely /\ Progress /\ RefreshTimeout \in Nat \ {0}
  BY CredentialsAssumption DEF FreshnessInv, CoherenceInv
<1>1. UNCHANGED <<now, issued, current>> /\ ~overlapped
  <2>1. CASE StartSign(t) \/ Refresh(t) \/ RequestAgain(t) \/ ListRoles(t)
    BY <2>1 DEF StartSign, Refresh, RequestAgain, ListRoles, service, history
  <2>2. CASE FetchDocument(t) \/ FetchFails(t) \/ Return(t)
    BY <2>2 DEF FetchDocument, FetchFails, Return, service, history
  <2>3. CASE SetNext(t)
    <3>1. ~ overlapped
      BY <2>3, Zenon DEF SetNext
    <3> QED
      BY <2>3, <3>1 DEF SetNext, service
  <2> QED
    BY <2>1, <2>2, <2>3 DEF Step
<1>2. RecentFor(u) /\ RecentFor(t)
  BY <1>1 DEF Recent
<1>3. /\ now \in Int /\ fetched[t] \in 0..current /\ stored["expiry_time"] \in 0..current
      /\ current \in 0..current /\ fetches[u] \in 0..2
      /\ Expiry(current) \in Int /\ Expiry(stored["expiry_time"]) \in Int /\ Expiry(fetched[t]) \in Int
  <2>1. /\ fetched[t] \in 0..current /\ stored["expiry_time"] \in 0..current /\ now \in Int
        /\ current \in 0..current /\ fetches[u] \in 0..2
    BY <1>0, Attributes DEF TypeOK, Generation
  <2> QED
    BY <2>1, <1>0, ExpiryGrows
\* What a signature has ended leaves no fetches.
<1>4. ASSUME EndSign(t), UNCHANGED stored PROVE u # t
  BY <1>0, <1>4 DEF EndSign, TypeOK
<1>5. CASE StartSign(t) \/ RequestAgain(t) \/ ListRoles(t) \/ FetchFails(t) \/ Return(t)
  <2>1. UNCHANGED stored /\ \A v \in Thread \ {t} :
          fetches'[v] = fetches[v] /\ late'[v] = late[v] /\ phase'[v] = phase[v] /\ fetched'[v] = fetched[v]
    BY <1>0, <1>5 DEF StartSign, RequestAgain, ListRoles, FetchFails, Return, EndSign, history, TypeOK
  <2>2. CASE u # t
    BY <1>1, <1>2, <2>1, <2>2 DEF RecentFor, Expiry
  <2>3. CASE u = t
    <3>1. ~ EndSign(t)
      BY <1>4, <2>1, <2>3
    <3>2. /\ phase[t] \in {"idle", "list", "document", "return"} /\ UNCHANGED <<fetches, late>>
          /\ phase[t] = "return" => phase'[t] = "read"
      BY <1>0, <1>5, <3>1 DEF StartSign, RequestAgain, ListRoles, FetchFails, Return, history, TypeOK
    <3>3. fetches[t] = 1 /\ phase[t] = "return" /\ now + RefreshTimeout <= Expiry(stored["expiry_time"])
      BY <1>2, <2>3, <3>2 DEF RecentFor
    <3> QED
      BY <1>1, <1>2, <2>1, <2>3, <3>2, <3>3 DEF RecentFor, Expiry
  <2> QED
    BY <2>2, <2>3
<1>6. CASE Refresh(t)
  <2>1. UNCHANGED <<stored, fetched, fetches, late>> /\ phase[t] = "read"
        /\ \A v \in Thread \ {t} : phase'[v] = phase[v]
    BY <1>0, <1>6 DEF Refresh, history, TypeOK
  <2>2. CASE u # t
    BY <1>1, <1>2, <2>1, <2>2 DEF RecentFor, Expiry
  <2>3. CASE u = t
    <3>1. fetches[t] = 1 /\ now + RefreshTimeout <= Expiry(stored["expiry_time"])
      BY <1>2, <2>1, <2>3 DEF RecentFor
    <3>2. ~ RefreshNeeded
      BY <1>0, <1>3, <3>1 DEF RefreshNeeded
    <3>3. phase'[t] = "return"
      BY <1>0, <1>6, <3>2 DEF Refresh, TypeOK
    <3> QED
      BY <1>1, <1>2, <2>1, <2>3, <3>1, <3>3 DEF RecentFor, Expiry
  <2> QED
    BY <2>2, <2>3
<1>7. CASE FetchDocument(t)
  <2>1. /\ UNCHANGED stored /\ phase[t] = "document" /\ phase'[t] = "set" /\ fetched'[t] = current
        /\ \A v \in Thread \ {t} :
             fetches'[v] = fetches[v] /\ late'[v] = late[v] /\ phase'[v] = phase[v] /\ fetched'[v] = fetched[v]
    BY <1>0, <1>7 DEF FetchDocument, TypeOK
  <2>2. CASE u # t
    BY <1>1, <1>2, <2>1, <2>2 DEF RecentFor, Expiry
  <2>3. CASE u = t
    <3>1. late' = [late EXCEPT ![t] = late[t] \/ Expiry(current) - now < RefreshTimeout]
      BY <1>7 DEF FetchDocument
    <3>2. late'[t] = (late[t] \/ Expiry(current) - now < RefreshTimeout)
      BY <1>0, <3>1, Zenon DEF TypeOK
    <3>3. ~ late[t] /\ ~ (Expiry(current) - now < RefreshTimeout)
      BY <2>3, <3>2
    <3>4. fetches[t] = 0
      BY <1>2, <1>3, <2>1, <2>3, <3>3 DEF RecentFor
    <3>5. fetches'[t] = 1
      BY <1>0, <1>7, <3>4 DEF FetchDocument, TypeOK
    <3> QED
      BY <1>0, <1>1, <1>2, <1>3, <2>1, <2>3, <3>3, <3>5 DEF RecentFor, Expiry
  <2> QED
    BY <2>2, <2>3
<1>8. CASE SetNext(t)
  <2>1. /\ phase[t] = "set" /\ UNCHANGED <<fetched, fetches, late>> /\ put[t] \in 1..4
        /\ \A v \in Thread \ {t} : phase'[v] = phase[v]
    BY <1>0, <1>8 DEF SetNext, TypeOK
  <2>2. CASE put[t] = 4
    <3>1. stored'["expiry_time"] = fetched[t] /\ phase'[t] = "return"
      BY <1>0, <1>8, <2>2, Attributes DEF SetNext, StoreAt, TypeOK
    <3>2. stored["expiry_time"] <= fetched[t]
      BY <1>0, <1>1, <2>1, Attributes DEF Progress
    <3>3. Expiry(stored["expiry_time"]) <= Expiry(fetched[t])
      BY <1>0, <1>3, <3>2, ExpiryGrows
    <3>4. CASE u = t
      BY <1>1, <1>2, <2>1, <3>1, <3>4 DEF RecentFor, Expiry
    <3>5. CASE u # t
      <4>1. /\ fetches[u] = 1 /\ phase[u] \in {"set", "return", "read"} /\ phase'[u] = phase[u]
            /\ phase[u] = "set" => now + RefreshTimeout <= Expiry(fetched[u])
            /\ phase[u] # "set" => now + RefreshTimeout <= Expiry(stored["expiry_time"])
        BY <1>2, <2>1, <3>5 DEF RecentFor
      <4>2. CASE phase[u] = "set"
        BY <1>1, <1>2, <2>1, <4>1, <4>2 DEF RecentFor, Expiry
      <4>3. CASE phase[u] # "set"
        <5>1. now + RefreshTimeout <= Expiry(fetched[t])
          BY <1>0, <1>3, <3>3, <4>1, <4>3
        <5> QED
          BY <1>1, <1>2, <2>1, <3>1, <4>1, <4>3, <5>1 DEF RecentFor, Expiry
      <4> QED
        BY <4>2, <4>3
    <3> QED
      BY <3>4, <3>5
  <2>3. CASE put[t] # 4
    <3>1. stored'["expiry_time"] = stored["expiry_time"] /\ phase'[t] = "set"
      BY <1>0, <1>8, <2>1, <2>3, Attributes DEF SetNext, StoreAt, TypeOK
    <3>2. phase'[u] = phase[u]
      BY <2>1, <3>1
    <3> QED
      BY <1>1, <1>2, <2>1, <3>1, <3>2 DEF RecentFor, Expiry
  <2> QED
    BY <2>1, <2>2, <2>3
<1> QED
  BY <1>5, <1>6, <1>7, <1>8 DEF Step

LEMMA StepRecent == FreshnessInv /\ Recent /\ [Next]_vars => Recent'
<1> SUFFICES ASSUME FreshnessInv, Recent, [Next]_vars PROVE Recent'
  OBVIOUS
<1>1. CASE Tick
  <2>1. UNCHANGED <<stored, phase, fetched, fetches, late, overlapped>> /\ \A t \in Thread : Waiting(t)
    BY <1>1 DEF Tick, history
  <2>2. \A t \in Thread : phase[t] \notin {"set", "return", "read"}
    BY <2>1 DEF Waiting
  <2> QED
    BY <2>1, <2>2 DEF Recent, RecentFor
<1>2. CASE UNCHANGED vars
  BY <1>2 DEF vars, Recent, RecentFor, Expiry
<1>3. CASE \E t \in Thread : Step(t)
  BY <1>3, StepFresh, ThreadRecent DEF Next
<1> QED
  BY <1>1, <1>2, <1>3, RenewRecent DEF Next

\* A signature that reads its four attributes while others sign and the service renews
\* fetches metadata a second time only if the service was late to renew what it
\* fetched first, unless metadata overlapped (credentials.py 191-214).
THEOREM SignaturesFetchOnce == Spec => []OneFetchPerSignature
<1>1. Init => Recent
  BY DEF Init, Recent, RecentFor
<1>2. FreshnessInv /\ Recent => OneFetchPerSignature
  <2> SUFFICES ASSUME Recent, NEW t \in Thread, fetches[t] > 1, ~overlapped, ~late[t], fetches[t] \in 0..2
               PROVE  FALSE
    BY DEF OneFetchPerSignature, FreshnessInv, CoherenceInv, TypeOK
  <2> QED
    BY DEF Recent, RecentFor
<1> QED
  BY <1>1, <1>2, InitFresh, StepFresh, StepRecent, PTL DEF Spec
-----------------------------------------------------------------------------
\* The signatures of a call: RequestSigning.

\* The fields of a request.
Fields == {"host", "path", "query", "auth", "data", "headers"}

\* A request that differs from r in the named fields at most.
SameBut(q, r, names) == DOMAIN q = Fields /\ \A f \in Fields \ names : q[f] = r[f]

\* Headers of one value each.
Single(H) == H = [h \in DOMAIN H |-> <<Last(H[h])>>]

\* Headers that carry the time t, and the token of credentials k.
Dated(H, t) ==
  \/ "Date" \in DOMAIN H /\ H["Date"] = <<t>> /\ "X-Amz-Date" \notin DOMAIN H
  \/ "Date" \notin DOMAIN H /\ "X-Amz-Date" \in DOMAIN H /\ H["X-Amz-Date"] = <<t>>
Tokened(H, k) ==
  /\ k.token <=> "X-Amz-Security-Token" \in DOMAIN H
  /\ k.token => H["X-Amz-Security-Token"] = <<k.gen>>

\* Headers that a signer may be given.
HeadersFit(c, k, H) ==
  /\ Single(H)
  /\ "X-Amz-Security-Token" \in DOMAIN H => k.token
  /\ c.version \in {"v3", "s3"} => "X-Amz-Date" \notin DOMAIN H

\* Adding to and taking from a function.
LEMMA DropWith ==
  ASSUME NEW f, NEW n, NEW v
  PROVE  /\ Drop(With(f, n, v), n) = Drop(f, n)
         /\ With(Drop(f, n), n, v) = With(f, n, v)
<1>1. Drop(With(f, n, v), n) = Drop(f, n)
  BY DEF Drop, With
<1>2. With(Drop(f, n), n, v) = With(f, n, v)
  BY DEF Drop, With
<1> QED
  BY <1>1, <1>2

LEMMA SinglesKept ==
  ASSUME NEW H, Single(H), NEW n, NEW v
  PROVE  Single(With(H, n, <<v>>)) /\ Single(Drop(H, n))
<1>1. Last(<<v>>) = v
  BY DEF Last
<1>2. Single(With(H, n, <<v>>))
  <2> DEFINE W == With(H, n, <<v>>)
  <2>1. W = [k \in DOMAIN W |-> W[k]]
    BY DEF With
  <2>2. \A k \in DOMAIN H : H[k] = <<Last(H[k])>>
    BY Zenon DEF Single
  <2>3. W[n] = <<v>> /\ DOMAIN W = DOMAIN H \cup {n} /\ \A k \in DOMAIN H : k # n => W[k] = H[k]
    BY DEF With
  <2> HIDE DEF W
  <2> HIDE DEF W
  <2> QED
    BY <1>1, <2>1, <2>2, <2>3 DEF Single, W
<1>3. Single(Drop(H, n))
  BY DEF Single, Drop
<1> QED
  BY <1>2, <1>3

\* What Put and Del do to a request.
LEMMA Puts ==
  ASSUME NEW r, DOMAIN r = Fields, NEW h, NEW v
  PROVE  /\ SameBut(Put(r, h, v), r, {"headers"})
         /\ Put(r, h, v).headers = With(r.headers, h, <<v>>)
<1> DEFINE q == Del(r, h)
<1>1. SameBut(q, r, {"headers"}) /\ q.headers = Drop(r.headers, h)
  BY DEF Del, SameBut, Fields
<1>2. h \notin DOMAIN q.headers
  BY <1>1 DEF Drop
<1> HIDE DEF q
<1>3. SameBut(Add(q, h, v), q, {"headers"}) /\ Add(q, h, v).headers = With(q.headers, h, <<v>>)
  BY <1>1, <1>2 DEF Add, SameBut, Fields
<1> QED
  BY <1>1, <1>3, DropWith DEF Put, q, SameBut

LEMMA Dels ==
  ASSUME NEW r, DOMAIN r = Fields, NEW h
  PROVE  SameBut(Del(r, h), r, {"headers"}) /\ Del(r, h).headers = Drop(r.headers, h)
  BY DEF Del, SameBut, Fields

\* After a signer has dated a request, its headers carry the time and no
\* second date, and the token of its credentials.
LEMMA BeforeV4Is ==
  ASSUME NEW r, DOMAIN r = Fields, NEW c, NEW k, k.token \in BOOLEAN, NEW t,
         HeadersFit(c, k, r.headers)
  PROVE  LET b == BeforeV4(r, k, t) IN
           /\ SameBut(b, r, {"headers"})
           /\ Single(b.headers) /\ Dated(b.headers, t) /\ Tokened(b.headers, k)
           /\ "Authorization" \notin DOMAIN b.headers
<1> DEFINE a == Del(r, "Authorization")
           d == DateHeaders(a, t)
           b == BeforeV4(r, k, t)
<1>1. /\ SameBut(a, r, {"headers"}) /\ Single(a.headers)
      /\ "Authorization" \notin DOMAIN a.headers
      /\ "X-Amz-Security-Token" \in DOMAIN a.headers => k.token
  <2>1. SameBut(a, r, {"headers"}) /\ a.headers = Drop(r.headers, "Authorization")
    BY Dels
  <2> HIDE DEF a
  <2>2. Single(a.headers)
    BY <2>1, SinglesKept DEF HeadersFit
  <2> QED
    BY <2>1, <2>2 DEF HeadersFit, Drop
<1> HIDE DEF a
<1>2. /\ SameBut(d, r, {"headers"}) /\ Single(d.headers) /\ Dated(d.headers, t)
      /\ "Authorization" \notin DOMAIN d.headers
      /\ "X-Amz-Security-Token" \in DOMAIN d.headers => k.token
  <2>1. CASE "Date" \in DOMAIN a.headers
    <3> DEFINE p == Put(a, "Date", t)
    <3>1. /\ SameBut(p, r, {"headers"}) /\ p.headers = With(a.headers, "Date", <<t>>)
      BY <1>1, Puts DEF SameBut
    <3>2. Single(p.headers)
      BY <1>1, <3>1, SinglesKept
    <3>3. /\ SameBut(d, r, {"headers"}) /\ d.headers = Drop(p.headers, "X-Amz-Date")
      <4> HIDE DEF p
      <4>1. d = Del(p, "X-Amz-Date")
        BY <2>1 DEF DateHeaders, p
      <4> HIDE DEF d
      <4> QED
        BY <4>1, <3>1, Dels DEF SameBut
    <3> HIDE DEF d, p
    <3>4. Single(d.headers)
      BY <3>2, <3>3, SinglesKept
    <3> QED
      BY <1>1, <3>1, <3>3, <3>4 DEF Drop, With, Dated
  <2>2. CASE "Date" \notin DOMAIN a.headers
    <3>1. d = Put(a, "X-Amz-Date", t)
      BY <2>2 DEF DateHeaders
    <3> HIDE DEF d
    <3>2. SameBut(d, r, {"headers"}) /\ d.headers = With(a.headers, "X-Amz-Date", <<t>>)
      BY <1>1, <3>1, Puts DEF SameBut
    <3>3. Single(d.headers)
      BY <1>1, <3>2, SinglesKept
    <3> QED
      BY <1>1, <2>2, <3>2, <3>3 DEF With, Dated
  <2> QED
    BY <2>1, <2>2
<1> HIDE DEF d
<1>3. CASE k.token
  <2>1. b = Put(d, "X-Amz-Security-Token", k.gen)
    BY <1>3 DEF BeforeV4, d, a
  <2> HIDE DEF b
  <2>2. SameBut(b, r, {"headers"}) /\ b.headers = With(d.headers, "X-Amz-Security-Token", <<k.gen>>)
    BY <1>2, <2>1, Puts DEF SameBut
  <2>3. Single(b.headers)
    BY <1>2, <2>2, SinglesKept
  <2>4. Dated(b.headers, t) /\ "Authorization" \notin DOMAIN b.headers
    BY <1>2, <2>2 DEF With, Dated
  <2>5. Tokened(b.headers, k)
    <3>1. /\ "X-Amz-Security-Token" \in DOMAIN b.headers
          /\ b.headers["X-Amz-Security-Token"] = <<k.gen>>
      BY <2>2 DEF With
    <3> QED
      BY <1>3, <3>1, Zenon DEF Tokened
  <2> QED
    BY <2>2, <2>3, <2>4, <2>5 DEF b
<1>4. CASE ~k.token
  <2>1. b = d
    BY <1>4 DEF BeforeV4, d, a
  <2> QED
    BY <1>2, <1>4, <2>1 DEF Tokened
<1> QED
  BY <1>3, <1>4

\* Headers of one value each that carry the time and the token.
Stamped(H, k, t) == Single(H) /\ Dated(H, t) /\ Tokened(H, k)

\* A message that the server accepts, of credentials k and the time t.
Delivered(k, t, m) ==
  LET v2 == call.version = "v2"
      stamps == IF v2 THEN m.data ELSE m.headers
      dates == (IF v2 THEN {"Timestamp"} ELSE {"Date", "X-Amz-Date"}) \cap DOMAIN stamps
      token == IF v2 THEN "SecurityToken" ELSE "X-Amz-Security-Token"
  IN  /\ Signature(m) = Mac(k.gen, ServerOver(m))
      /\ {stamps[n] : n \in dates} = {t}
      /\ k.token <=> token \in DOMAIN stamps
      /\ k.token => stamps[token] = k.gen

\* A header of another name leaves the stamps.
LEMMA StampsKept ==
  ASSUME NEW H, NEW k, NEW t, Stamped(H, k, t), NEW v,
         NEW n, n \notin {"Date", "X-Amz-Date", "X-Amz-Security-Token"}
  PROVE  Stamped(With(H, n, <<v>>), k, t)
<1> DEFINE W == With(H, n, <<v>>)
<1>1. /\ \A d \in {"Date", "X-Amz-Date", "X-Amz-Security-Token"} :
           (d \in DOMAIN W <=> d \in DOMAIN H) /\ (d \in DOMAIN H => W[d] = H[d])
  BY DEF With
<1>2. Single(W)
  BY SinglesKept DEF Stamped
<1> HIDE DEF W
<1>3. Dated(W, t)
  BY <1>1 DEF Stamped, Dated
<1>4. Tokened(W, k)
  <2> DEFINE d == "X-Amz-Security-Token"
  <2>1. (d \in DOMAIN W <=> d \in DOMAIN H) /\ (d \in DOMAIN H => W[d] = H[d])
    BY <1>1
  <2> QED
    BY <2>1, Zenon DEF Stamped, Tokened
<1> QED
  BY <1>2, <1>3, <1>4 DEF Stamped, W

\* The stamps as they are sent.
LEMMA StampsSent ==
  ASSUME NEW H, NEW k, NEW t, Stamped(H, k, t)
  PROVE  LET P == [h \in DOMAIN H |-> Last(H[h])] IN
           /\ {P[n] : n \in {"Date", "X-Amz-Date"} \cap DOMAIN P} = {t}
           /\ k.token <=> "X-Amz-Security-Token" \in DOMAIN P
           /\ k.token => P["X-Amz-Security-Token"] = k.gen
<1> DEFINE P == [h \in DOMAIN H |-> Last(H[h])]
<1>1. Last(<<t>>) = t /\ Last(<<k.gen>>) = k.gen
  BY DEF Last
<1>2. DOMAIN P = DOMAIN H /\ \A h \in DOMAIN H : P[h] = Last(H[h])
  OBVIOUS
<1> HIDE DEF P
<1>3. {P[n] : n \in {"Date", "X-Amz-Date"} \cap DOMAIN P} = {t}
  BY <1>1, <1>2 DEF Stamped, Dated
<1>4. k.token <=> "X-Amz-Security-Token" \in DOMAIN P
  BY <1>2, Zenon DEF Stamped, Tokened
<1>5. k.token => P["X-Amz-Security-Token"] = k.gen
  <2> SUFFICES ASSUME k.token PROVE P["X-Amz-Security-Token"] = k.gen
    OBVIOUS
  <2>1. /\ "X-Amz-Security-Token" \in DOMAIN H
        /\ H["X-Amz-Security-Token"] = <<k.gen>>
    BY Zenon DEF Stamped, Tokened
  <2> QED
    BY <1>1, <1>2, <2>1
<1> QED
  BY <1>3, <1>4, <1>5 DEF P

\* The headers that are signed, as the server reads them.
LEMMA HeadersRead ==
  ASSUME NEW H, Single(H), "Authorization" \notin DOMAIN H, NEW v
  PROVE  LET W == With(H, "Authorization", <<v>>)
             P == [h \in DOMAIN W |-> Last(W[h])]
         IN  /\ [h \in DOMAIN P \ {"Authorization"} |-> <<P[h]>>] = H
             /\ P["Authorization"] = v
<1> DEFINE W == With(H, "Authorization", <<v>>)
           P == [h \in DOMAIN W |-> Last(W[h])]
<1>1. Last(<<v>>) = v
  BY DEF Last
<1>2. DOMAIN W = DOMAIN H \cup {"Authorization"} /\ W["Authorization"] = <<v>>
      /\ \A h \in DOMAIN H : W[h] = H[h]
  BY DEF With
<1> HIDE DEF W
<1>3. DOMAIN P \ {"Authorization"} = DOMAIN H /\ \A h \in DOMAIN H : P[h] = Last(H[h])
  BY <1>2
<1>4. P["Authorization"] = v
  BY <1>1, <1>2
<1> HIDE DEF P
<1>5. [h \in DOMAIN P \ {"Authorization"} |-> <<P[h]>>] = [h \in DOMAIN H |-> <<Last(H[h])>>]
  BY <1>3
<1> QED
  BY <1>4, <1>5 DEF Single, P, W

\* A request dated by versions 4, with its signature.
LEMMA AuthorizedV4 ==
  ASSUME call.version \in {"v4", "s3v4"}, NEW b, DOMAIN b = Fields, NEW k, NEW t,
         Stamped(b.headers, k, t), "Authorization" \notin DOMAIN b.headers
  PROVE  LET s == Put(b, "Authorization", Mac(k.gen, CanonicalRequest(b, t, "here"))) IN
           /\ Delivered(k, t, Prepare(s))
           /\ SameBut(s, b, {"headers"}) /\ HeadersFit(call, k, s.headers)
<1> DEFINE v == Mac(k.gen, CanonicalRequest(b, t, "here"))
           s == Put(b, "Authorization", v)
           m == Prepare(s)
           W == With(b.headers, "Authorization", <<v>>)
           P == [h \in DOMAIN W |-> Last(W[h])]
           single == [h \in DOMAIN P \ {"Authorization"} |-> <<P[h]>>]
<1> HIDE DEF v
<1>1. SameBut(s, b, {"headers"}) /\ s.headers = W
  BY Puts
<1>2. Stamped(W, k, t)
  BY StampsKept
<1>3. single = b.headers /\ P["Authorization"] = v
  BY HeadersRead DEF Stamped
<1>4. m.host = b.host /\ m.path = b.path /\ m.query = b.query /\ m.data = b.data /\ m.headers = P
  <2> HIDE DEF s
  <2> QED
    BY <1>1 DEF Prepare, SameBut, Fields
<1>5. HeadersFit(call, k, s.headers)
  BY <1>1, <1>2 DEF HeadersFit, Stamped, Tokened
<1>6. /\ {P[n] : n \in {"Date", "X-Amz-Date"} \cap DOMAIN P} = {t}
      /\ k.token <=> "X-Amz-Security-Token" \in DOMAIN P
      /\ k.token => P["X-Amz-Security-Token"] = k.gen
  BY <1>2, StampsSent
<1>7. (IF "Date" \in DOMAIN single THEN P["Date"] ELSE P["X-Amz-Date"]) = t
  <2>1. Last(<<t>>) = t
    BY DEF Last
  <2>2. \A d \in {"Date", "X-Amz-Date"} : d \in DOMAIN b.headers => P[d] = Last(b.headers[d])
    BY DEF With
  <2> HIDE DEF P, single
  <2> QED
    BY <1>3, <2>1, <2>2 DEF Stamped, Dated
<1>8. ServerOver(m) = CanonicalRequest(b, t, "here")
  <2> HIDE DEF s, P
  <2>1. m.headers = P
    BY <1>4
  <2>2. ServerOver(m) = CanonicalRequest([m EXCEPT !.headers = single],
                          IF "Date" \in DOMAIN single THEN P["Date"] ELSE P["X-Amz-Date"], "here")
    <3> HIDE DEF m
    <3> QED
      BY <2>1 DEF ServerOver
  <2>3. CanonicalRequest([m EXCEPT !.headers = b.headers], t, "here") = CanonicalRequest(b, t, "here")
    BY <1>4 DEF CanonicalRequest, Prepare
  <2> QED
    BY <1>3, <1>7, <2>2, <2>3
<1>9. Signature(m) = v
  <2> HIDE DEF m, P
  <2> QED
    BY <1>3, <1>4 DEF Signature
<1>10. Delivered(k, t, m)
  <2> HIDE DEF m, P, s
  <2>1. Signature(m) = Mac(k.gen, ServerOver(m))
    BY <1>8, <1>9 DEF v
  <2>2. call.version # "v2" /\ m.headers = P
    BY <1>4
  <2> QED
    BY <2>1, <2>2, <1>6, Zenon DEF Delivered
<1> QED
  BY <1>1, <1>5, <1>10 DEF v

\* Every signer but that of version 2 changes the headers alone.
LEMMA SignersKeep ==
  ASSUME NEW r, DOMAIN r = Fields, NEW k, NEW t
  PROVE  /\ SameBut(SignV3(r, k, t), r, {"headers"})
         /\ SameBut(SignV4(r, k, t), r, {"headers"})
         /\ SameBut(SignS3V4(r, k, t), r, {"headers"})
         /\ SameBut(SignHmacV1(r, k, t), r, {"headers"})
<1>1. ASSUME NEW q, SameBut(q, r, {"headers"}), NEW h, NEW v
      PROVE  SameBut(Put(q, h, v), r, {"headers"}) /\ SameBut(Del(q, h), r, {"headers"})
  <2>1. DOMAIN q = Fields
    BY <1>1 DEF SameBut
  <2>2. SameBut(Put(q, h, v), q, {"headers"}) /\ SameBut(Del(q, h), q, {"headers"})
    BY <2>1, Puts, Dels
  <2> QED
    BY <1>1, <2>2 DEF SameBut
<1>2. SameBut(r, r, {"headers"})
  BY DEF SameBut
<1>3. SameBut(BeforeV4(r, k, t), r, {"headers"})
  <2> DEFINE a == Del(r, "Authorization")
             d == DateHeaders(a, t)
  <2>1. SameBut(a, r, {"headers"})
    BY <1>1, <1>2
  <2> HIDE DEF a
  <2>2. SameBut(d, r, {"headers"})
    <3> DEFINE p == Put(a, "Date", t)
    <3>1. SameBut(p, r, {"headers"})
      BY <1>1, <2>1
    <3> HIDE DEF p
    <3>2. SameBut(Del(p, "X-Amz-Date"), r, {"headers"})
      BY <1>1, <3>1
    <3>3. SameBut(Put(a, "X-Amz-Date", t), r, {"headers"})
      BY <1>1, <2>1
    <3> QED
      BY <3>2, <3>3 DEF DateHeaders, p
  <2> HIDE DEF d
  <2>3. SameBut(Put(d, "X-Amz-Security-Token", k.gen), r, {"headers"})
    BY <1>1, <2>2
  <2> QED
    BY <2>2, <2>3 DEF BeforeV4, d, a
<1>4. SameBut(SignV4(r, k, t), r, {"headers"})
  BY <1>1, <1>3 DEF SignV4
<1>5. SameBut(SignS3V4(r, k, t), r, {"headers"})
  <2> DEFINE b == Put(BeforeV4(r, k, t), "X-Amz-Content-SHA256", r.data)
  <2>1. SameBut(b, r, {"headers"})
    BY <1>1, <1>3
  <2> HIDE DEF b
  <2>2. SameBut(Put(b, "Authorization", Mac(k.gen, CanonicalRequest(b, t, "here"))), r, {"headers"})
    BY <1>1, <2>1
  <2> QED
    BY <2>2 DEF SignS3V4, b
<1>6. SameBut(SignV3(r, k, t), r, {"headers"})
  <2> DEFINE dated == Put(r, "Date", t)
             full == IF k.token THEN Put(dated, "X-Amz-Security-Token", k.gen) ELSE dated
  <2>1. SameBut(dated, r, {"headers"})
    BY <1>1, <1>2
  <2> HIDE DEF dated
  <2>2. SameBut(full, r, {"headers"})
    BY <1>1, <2>1
  <2> HIDE DEF full
  <2>3. SameBut(Put(full, "X-Amzn-Authorization", Mac(k.gen, full.headers["Date"])), r, {"headers"})
    BY <1>1, <2>2
  <2> QED
    BY <2>3 DEF SignV3, full, dated
<1>7. SameBut(SignHmacV1(r, k, t), r, {"headers"})
  <2> DEFINE token == IF k.token THEN Put(r, "X-Amz-Security-Token", k.gen) ELSE r
             b == Put(token, "Date", t)
             v == Mac(k.gen, [date |-> b.headers["Date"], amz |-> XAmz(b.headers),
                              resource |-> Resource(b)])
  <2>1. SameBut(token, r, {"headers"})
    BY <1>1, <1>2
  <2> HIDE DEF token
  <2>2. SameBut(b, r, {"headers"})
    BY <1>1, <2>1
  <2> HIDE DEF b
  <2>3. SameBut(Put(b, "Authorization", v), r, {"headers"})
    BY <1>1, <2>2
  <2> QED
    BY <2>3 DEF SignHmacV1, b, token
<1> QED
  BY <1>4, <1>5, <1>6, <1>7

\* What the versions 4 sign.
LEMMA SentV4 ==
  ASSUME call.version \in {"v4", "s3v4"}, NEW r, DOMAIN r = Fields,
         NEW k, k.token \in BOOLEAN, NEW t, HeadersFit(call, k, r.headers),
         NEW s, s = IF call.version = "v4" THEN SignV4(r, k, t) ELSE SignS3V4(r, k, t)
  PROVE  Delivered(k, t, Prepare(s)) /\ HeadersFit(call, k, s.headers)
<1> DEFINE b == BeforeV4(r, k, t)
<1>1. /\ DOMAIN b = Fields /\ Stamped(b.headers, k, t)
      /\ "Authorization" \notin DOMAIN b.headers
  BY BeforeV4Is DEF SameBut, Stamped
<1> HIDE DEF b
<1>2. CASE call.version = "v4"
  <2>1. s = Put(b, "Authorization", Mac(k.gen, CanonicalRequest(b, t, "here")))
    BY <1>2 DEF SignV4, b
  <2> QED
    BY <2>1, <1>1, AuthorizedV4
<1>3. CASE call.version # "v4"
  <2> DEFINE d == Put(b, "X-Amz-Content-SHA256", r.data)
  <2>1. SameBut(d, b, {"headers"}) /\ d.headers = With(b.headers, "X-Amz-Content-SHA256", <<r.data>>)
    BY <1>1, Puts
  <2>2. s = Put(d, "Authorization", Mac(k.gen, CanonicalRequest(d, t, "here")))
    BY <1>3 DEF SignS3V4, b
  <2> HIDE DEF d
  <2>3. Stamped(d.headers, k, t)
    BY <2>1, <1>1, StampsKept
  <2>4. "Authorization" \notin DOMAIN d.headers /\ DOMAIN d = Fields
    BY <2>1, <1>1 DEF With, SameBut
  <2> QED
    BY <2>2, <2>3, <2>4, AuthorizedV4
<1> QED
  BY <1>2, <1>3

\* The date and the token of the other versions, in either order.
LEMMA StampedBy ==
  ASSUME NEW H, NEW k, k.token \in BOOLEAN, NEW t, Single(H), "X-Amz-Date" \notin DOMAIN H,
         "X-Amz-Security-Token" \in DOMAIN H => k.token
  PROVE  LET dated == With(H, "Date", <<t>>)
             token == With(H, "X-Amz-Security-Token", <<k.gen>>)
         IN  /\ Stamped(IF k.token THEN With(dated, "X-Amz-Security-Token", <<k.gen>>) ELSE dated, k, t)
             /\ Stamped(With(IF k.token THEN token ELSE H, "Date", <<t>>), k, t)
<1> DEFINE dated == With(H, "Date", <<t>>)
           token == With(H, "X-Amz-Security-Token", <<k.gen>>)
           one == With(dated, "X-Amz-Security-Token", <<k.gen>>)
           two == With(token, "Date", <<t>>)
<1>1. Single(dated) /\ Single(token)
  BY SinglesKept
<1>2. Single(one) /\ Single(two)
  <2> HIDE DEF dated, token
  <2> QED
    BY <1>1, SinglesKept
<1>3. Dated(dated, t) /\ Dated(one, t) /\ Dated(two, t)
  BY DEF Dated, With
<1>4. CASE k.token
  <2>1. /\ "X-Amz-Security-Token" \in DOMAIN one /\ one["X-Amz-Security-Token"] = <<k.gen>>
        /\ "X-Amz-Security-Token" \in DOMAIN two /\ two["X-Amz-Security-Token"] = <<k.gen>>
    BY DEF With
  <2> HIDE DEF one, two
  <2>2. Tokened(one, k) /\ Tokened(two, k)
    BY <1>4, <2>1, Zenon DEF Tokened
  <2> QED
    BY <1>2, <1>3, <1>4, <2>2 DEF Stamped, one, two
<1>5. CASE ~k.token
  <2>1. "X-Amz-Security-Token" \notin DOMAIN dated
    BY <1>5 DEF With
  <2> HIDE DEF dated
  <2>2. Tokened(dated, k)
    BY <1>5, <2>1, Zenon DEF Tokened
  <2> QED
    BY <1>1, <1>3, <1>5, <2>2 DEF Stamped, dated
<1> QED
  BY <1>4, <1>5

\* What version 3 signs.
LEMMA SentV3 ==
  ASSUME call.version = "v3", NEW r, DOMAIN r = Fields, NEW k, k.token \in BOOLEAN, NEW t,
         HeadersFit(call, k, r.headers)
  PROVE  LET s == SignV3(r, k, t) IN
           Delivered(k, t, Prepare(s)) /\ HeadersFit(call, k, s.headers)
<1> DEFINE dated == Put(r, "Date", t)
           full == IF k.token THEN Put(dated, "X-Amz-Security-Token", k.gen) ELSE dated
           v == Mac(k.gen, full.headers["Date"])
           s == Put(full, "X-Amzn-Authorization", v)
           W == With(full.headers, "X-Amzn-Authorization", <<v>>)
           P == [h \in DOMAIN W |-> Last(W[h])]
<1>1. SameBut(dated, r, {"headers"}) /\ dated.headers = With(r.headers, "Date", <<t>>)
  BY Puts
<1>2. /\ DOMAIN full = Fields
      /\ full.headers = IF k.token THEN With(dated.headers, "X-Amz-Security-Token", <<k.gen>>)
                        ELSE dated.headers
  <2> HIDE DEF dated
  <2> QED
    BY <1>1, Puts DEF SameBut
<1>3. Stamped(full.headers, k, t)
  <2> HIDE DEF full, dated
  <2> QED
    BY <1>1, <1>2, StampedBy DEF HeadersFit
<1>4. "X-Amz-Date" \notin DOMAIN full.headers /\ "Date" \in DOMAIN full.headers
  <2> HIDE DEF full, dated
  <2> QED
    BY <1>1, <1>2 DEF HeadersFit, With
<1> HIDE DEF full
<1>5. s.headers = W
  BY <1>2, Puts
<1>6. Stamped(W, k, t) /\ "X-Amz-Date" \notin DOMAIN W
  <2>1. Stamped(W, k, t)
    BY <1>3, StampsKept
  <2> QED
    BY <2>1, <1>4 DEF With
<1>7. HeadersFit(call, k, s.headers)
  BY <1>5, <1>6 DEF HeadersFit, Stamped, Tokened
<1>8. P["X-Amzn-Authorization"] = v /\ <<P["Date"]>> = full.headers["Date"] /\ "Date" \in DOMAIN P
  <2>1. Last(<<v>>) = v /\ Last(<<t>>) = t
    BY DEF Last
  <2>2. W["X-Amzn-Authorization"] = <<v>> /\ W["Date"] = full.headers["Date"]
        /\ "X-Amzn-Authorization" \in DOMAIN W /\ "Date" \in DOMAIN W
    BY <1>4 DEF With
  <2>3. full.headers["Date"] = <<t>>
    BY <1>3, <1>4 DEF Stamped, Dated
  <2> HIDE DEF W, v
  <2> QED
    BY <2>1, <2>2, <2>3
<1>9. /\ {P[n] : n \in {"Date", "X-Amz-Date"} \cap DOMAIN P} = {t}
      /\ k.token <=> "X-Amz-Security-Token" \in DOMAIN P
      /\ k.token => P["X-Amz-Security-Token"] = k.gen
  BY <1>6, StampsSent
<1>10. Prepare(s).headers = P
  <2> HIDE DEF s
  <2> QED
    BY <1>5 DEF Prepare
<1>11. Delivered(k, t, Prepare(s))
  <2> DEFINE m == Prepare(s)
             single == [h \in DOMAIN P \ {"Authorization"} |-> <<P[h]>>]
  <2>1. m.headers = P
    BY <1>10
  <2> HIDE DEF m, P
  <2>2. Signature(m) = v
    BY <2>1, <1>8 DEF Signature
  <2>3. ServerOver(m) = single["Date"]
    BY <2>1 DEF ServerOver
  <2>4. single["Date"] = full.headers["Date"]
    BY <1>8
  <2>5. Signature(m) = Mac(k.gen, ServerOver(m))
    BY <2>2, <2>3, <2>4 DEF v
  <2>6. call.version # "v2"
    OBVIOUS
  <2> QED
    BY <2>1, <2>5, <2>6, <1>9, Zenon DEF Delivered, m
<1> QED
  BY <1>7, <1>11 DEF SignV3, full

\* Where the parts of a path are: in the path, or the bucket in the host, and
\* the path to sign set or not.
Placed(r) ==
  \/ r.host = call.host /\ r.path = call.path /\ r.auth \in {None, call.path}
  \/ /\ r.host = <<Head(call.path), "s3">>
     /\ r.auth = <<Head(call.path)>> \o r.path
     /\ r.auth # None

\* A path is its first segment and the rest.
LEMMA PathParts ==
  ASSUME NEW S, NEW p \in Seq(S), p # << >>, NEW e
  PROVE  /\ Len(p) \in Nat \ {0}
         /\ p = <<Head(p)>> \o Tail(p)
         /\ Len(p) = 1 => Append(p, e) = <<Head(p)>> \o <<e>>
<1>1. Len(p) \in Nat \ {0}
  BY EmptySeq
<1> DEFINE T == S \cup {e}
<1>0. p \in Seq(T)
  <2>1. Len(p) \in Nat /\ p \in [1..Len(p) -> S]
    BY LenProperties
  <2>2. p \in [1..Len(p) -> T]
    BY <2>1
  <2> HIDE DEF T
  <2> QED
    BY <2>1, <2>2
<1>e. e \in T
  OBVIOUS
<1> HIDE DEF T
<1> DEFINE h == Head(p)
           rest == Tail(p)
           one == <<h>>
<1>2. h \in T /\ rest \in Seq(T) /\ Len(rest) = Len(p) - 1 /\ \A i \in 1..Len(rest) : rest[i] = p[i + 1]
  BY <1>0, HeadTailProperties
<1>3. h = p[1]
  BY <1>1
<1> HIDE DEF h, rest
<1>4. one \in Seq(T) /\ Len(one) = 1 /\ one[1] = p[1]
  BY <1>2, <1>3
<1> HIDE DEF one
<1>5. p = one \o rest
  <2> DEFINE q == one \o rest
  <2>1. /\ q \in Seq(T) /\ Len(q) = Len(one) + Len(rest)
        /\ \A i \in 1..Len(one) + Len(rest) : q[i] = IF i <= Len(one) THEN one[i] ELSE rest[i - Len(one)]
    <3>1. one \in Seq(T) /\ rest \in Seq(T)
      BY <1>2, <1>4
    <3>2. q \in Seq(T) /\ Len(q) = Len(one) + Len(rest)
      BY <3>1, ConcatProperties
    <3>3. ASSUME NEW i \in 1..Len(one) + Len(rest)
          PROVE  q[i] = IF i <= Len(one) THEN one[i] ELSE rest[i - Len(one)]
      BY <3>1, ConcatProperties
    <3> QED
      BY <3>2, <3>3
  <2> HIDE DEF q
  <2>2. Len(q) = Len(p) /\ \A i \in 1..Len(p) : p[i] = q[i]
    BY <1>0, <1>1, <1>2, <1>4, <2>1
  <2> QED
    BY <1>0, <2>1, <2>2, SeqEqual DEF q
<1>6. ASSUME Len(p) = 1 PROVE Append(p, e) = one \o <<e>>
  <2> DEFINE two == <<e>>
             q == one \o two
             a == Append(p, e)
  <2>1. two \in Seq(T) /\ Len(two) = 1 /\ two[1] = e
    BY <1>e
  <2> HIDE DEF two
  <2>2. /\ q \in Seq(T) /\ Len(q) = Len(one) + Len(two)
        /\ \A i \in 1..Len(one) + Len(two) : q[i] = IF i <= Len(one) THEN one[i] ELSE two[i - Len(one)]
    BY <1>4, <2>1, ConcatProperties
  <2> HIDE DEF q
  <2>3. Len(q) = 2 /\ q[1] = p[1] /\ q[2] = e
    BY <1>4, <2>1, <2>2
  <2>4. a \in Seq(T) /\ Len(a) = 2 /\ a[1] = p[1] /\ a[2] = e
    <3>1. /\ a \in Seq(T) /\ Len(a) = Len(p) + 1 /\ a[Len(p) + 1] = e
          /\ \A i \in 1..Len(p) : a[i] = p[i]
      BY <1>0, <1>e, AppendProperties
    <3> HIDE DEF a
    <3> QED
      BY <1>6, <3>1
  <2> HIDE DEF a
  <2>5. \A i \in 1..Len(a) : a[i] = q[i]
    BY <2>3, <2>4
  <2> QED
    BY <2>2, <2>3, <2>4, <2>5, SeqEqual DEF q, a, two
<1> QED
  BY <1>1, <1>5, <1>6 DEF one, h, rest

LEMMA MovedAlone ==
  ASSUME NEW c, NEW r, DOMAIN r = Fields
  PROVE  SameBut(FixS3Host(r, c), r, {"host", "path", "auth"})
  BY DEF FixS3Host, SameBut, Fields

LEMMA Moved ==
  ASSUME CallShape(call), NEW r, DOMAIN r = Fields, Placed(r)
  PROVE  LET f == FixS3Host(r, call) IN Placed(f) /\ SameBut(f, r, {"host", "path", "auth"})
<1> DEFINE f == FixS3Host(r, call)
           p == call.path
<1>1. CASE r.auth # None \/ call.location
  BY <1>1 DEF FixS3Host, SameBut
<1>2. CASE r.auth = None /\ ~call.location
  <2>1. r.host = call.host /\ r.path = p
    BY <1>2 DEF Placed
  <2>2. p \in Seq(STRING) /\ p # << >> /\ Len(p) \in Nat \ {0} /\ None # p /\ None # Append(p, "")
    <3>1. p \in Seq(STRING) /\ p # << >> /\ None \notin {p, Append(p, "")}
      BY DEF CallShape
    <3> HIDE DEF p
    <3> QED
      BY <3>1, PathParts
  <2>3. CASE call.version # "s3" \/ ~call.dns
    <3>1. f = [r EXCEPT !.auth = r.path]
      BY <1>2, <2>3 DEF FixS3Host
    <3> HIDE DEF f
    <3> QED
      BY <3>1, <2>1 DEF SameBut, Placed, Fields, f
  <2>4. CASE ~(call.version # "s3" \/ ~call.dns)
    <3>1. f = [r EXCEPT !.auth = IF Len(p) = 1 THEN Append(p, "") ELSE p,
                        !.host = <<Head(p), "s3">>,
                        !.path = IF Len(p) = 1 THEN <<"">> ELSE Tail(p)]
      BY <1>2, <2>1, <2>4, Zenon DEF FixS3Host
    <3> HIDE DEF f
    <3>2. f.host = <<Head(p), "s3">> /\ f.auth # None /\ SameBut(f, r, {"host", "path", "auth"})
      BY <3>1, <2>2 DEF SameBut, Fields
    <3>3. f.auth = <<Head(p)>> \o f.path
      <4>1. /\ f.auth = IF Len(p) = 1 THEN Append(p, "") ELSE p
            /\ f.path = IF Len(p) = 1 THEN <<"">> ELSE Tail(p)
        BY <3>1, Zenon DEF Fields
      <4> HIDE DEF p
      <4>2. Len(p) = 1 => Append(p, "") = <<Head(p)>> \o <<"">>
        BY <2>2, PathParts
      <4>3. p = <<Head(p)>> \o Tail(p)
        BY <2>2, PathParts
      <4> QED
        BY <4>1, <4>2, <4>3
    <3> QED
      BY <3>2, <3>3 DEF Placed, f
  <2> QED
    BY <2>3, <2>4
<1> QED
  BY <1>1, <1>2

\* The resource that is signed is the one that the server finds.
LEMMA ResourceRead ==
  ASSUME CallShape(call), NEW r, Placed(r)
  PROVE  Resource(r) = IF r.host = call.host THEN r.path ELSE <<Head(r.host)>> \o r.path
<1>1. CASE r.host = call.host /\ r.path = call.path /\ r.auth \in {None, call.path}
  BY <1>1 DEF Resource
<1>2. CASE /\ r.host = <<Head(call.path), "s3">>
           /\ r.auth = <<Head(call.path)>> \o r.path
           /\ r.auth # None
  <2>1. r.host # call.host
    BY <1>2 DEF CallShape
  <2>2. Head(r.host) = Head(call.path)
    BY <1>2
  <2> QED
    BY <1>2, <2>1, <2>2 DEF Resource
<1> QED
  BY <1>1, <1>2 DEF Placed

\* What S3 signs.
LEMMA SentS3 ==
  ASSUME call.version = "s3", CallShape(call), NEW r, DOMAIN r = Fields, Placed(r),
         NEW k, k.token \in BOOLEAN, NEW t, HeadersFit(call, k, r.headers)
  PROVE  LET s == SignHmacV1(r, k, t) IN
           Delivered(k, t, Prepare(s)) /\ HeadersFit(call, k, s.headers)
<1> DEFINE token == IF k.token THEN Put(r, "X-Amz-Security-Token", k.gen) ELSE r
           b == Put(token, "Date", t)
           v == Mac(k.gen, [date |-> b.headers["Date"], amz |-> XAmz(b.headers),
                            resource |-> Resource(b)])
           s == Put(b, "Authorization", v)
           W == With(b.headers, "Authorization", <<v>>)
           P == [h \in DOMAIN W |-> Last(W[h])]
           single == [h \in DOMAIN P \ {"Authorization"} |-> <<P[h]>>]
           m == Prepare(s)
<1>1. /\ SameBut(token, r, {"headers"})
      /\ token.headers = IF k.token THEN With(r.headers, "X-Amz-Security-Token", <<k.gen>>)
                         ELSE r.headers
  BY Puts DEF SameBut
<1>2. SameBut(b, r, {"headers"}) /\ b.headers = With(token.headers, "Date", <<t>>)
  <2> HIDE DEF token
  <2> QED
    BY <1>1, Puts DEF SameBut
<1>3. Stamped(b.headers, k, t)
  <2> DEFINE H == r.headers
             one == With(H, "X-Amz-Security-Token", <<k.gen>>)
  <2>1. Stamped(With(IF k.token THEN one ELSE H, "Date", <<t>>), k, t)
    BY StampedBy DEF HeadersFit
  <2> HIDE DEF b, token
  <2> QED
    BY <1>1, <1>2, <2>1
<1>4. "X-Amz-Date" \notin DOMAIN b.headers /\ "Date" \in DOMAIN b.headers
  <2> HIDE DEF b, token
  <2> QED
    BY <1>1, <1>2 DEF HeadersFit, With
<1> HIDE DEF b
<1>5. s.headers = W /\ SameBut(s, r, {"headers"})
  BY <1>2, Puts DEF SameBut
<1>6. Stamped(W, k, t) /\ "X-Amz-Date" \notin DOMAIN W
  <2>1. Stamped(W, k, t)
    BY <1>3, StampsKept
  <2> QED
    BY <2>1, <1>4 DEF With
<1>7. HeadersFit(call, k, s.headers)
  BY <1>5, <1>6 DEF HeadersFit, Stamped, Tokened
<1>8. /\ {P[n] : n \in {"Date", "X-Amz-Date"} \cap DOMAIN P} = {t}
      /\ k.token <=> "X-Amz-Security-Token" \in DOMAIN P
      /\ k.token => P["X-Amz-Security-Token"] = k.gen
  BY <1>6, StampsSent
<1>9. P["Authorization"] = v /\ DOMAIN W = DOMAIN b.headers \cup {"Authorization"}
  <2>1. Last(<<v>>) = v
    BY DEF Last
  <2>2. DOMAIN W = DOMAIN b.headers \cup {"Authorization"} /\ W["Authorization"] = <<v>>
    BY DEF With
  <2> HIDE DEF W, v
  <2> QED
    BY <2>1, <2>2
<1>10. \A h \in DOMAIN b.headers \ {"Authorization"} : single[h] = b.headers[h]
  <2>1. \A h \in DOMAIN b.headers : b.headers[h] = <<Last(b.headers[h])>>
    BY <1>3, Zenon DEF Stamped, Single
  <2>2. \A h \in DOMAIN b.headers \ {"Authorization"} : h \in DOMAIN W /\ W[h] = b.headers[h]
    BY DEF With
  <2> HIDE DEF W
  <2> QED
    BY <2>1, <2>2
<1>11. DOMAIN single = DOMAIN b.headers \ {"Authorization"}
  <2> HIDE DEF W
  <2> QED
    BY <1>9
<1>12. single["Date"] = b.headers["Date"] /\ XAmz(single) = XAmz(b.headers)
  <2> HIDE DEF single
  <2> QED
    BY <1>4, <1>10, <1>11 DEF XAmz
<1>13. m.headers = P /\ m.host = r.host /\ m.path = r.path
  <2> HIDE DEF s
  <2> QED
    BY <1>5 DEF Prepare, SameBut, Fields
<1>14. Resource(b) = IF m.host = call.host THEN m.path ELSE <<Head(m.host)>> \o m.path
  <2>1. Resource(b) = Resource(r)
    BY <1>2 DEF Resource, SameBut, Fields
  <2> HIDE DEF m
  <2> QED
    BY <2>1, <1>13, ResourceRead
<1>15. Delivered(k, t, m)
  <2> HIDE DEF m, P
  <2>1. Signature(m) = v
    BY <1>13, <1>9 DEF Signature
  <2>2. ServerOver(m) = [date |-> single["Date"], amz |-> XAmz(single),
                         resource |-> IF m.host = call.host THEN m.path
                                      ELSE <<Head(m.host)>> \o m.path]
    BY <1>13 DEF ServerOver
  <2> HIDE DEF single
  <2>3. Signature(m) = Mac(k.gen, ServerOver(m))
    BY <2>1, <2>2, <1>12, <1>14 DEF v
  <2>4. call.version # "v2"
    OBVIOUS
  <2> QED
    BY <1>13, <2>3, <2>4, <1>8, Zenon DEF Delivered
<1> QED
  BY <1>7, <1>15 DEF SignHmacV1, b

\* What version 2 signs: the body keeps all but the stamps and the signature.
BodyKept(D, E) ==
  \A n : n \notin BodyStamps => (n \in DOMAIN E <=> n \in DOMAIN D) /\ (n \in DOMAIN D => E[n] = D[n])

LEMMA SentV2 ==
  ASSUME NEW r, DOMAIN r = Fields, NEW k, k.token \in BOOLEAN, NEW t,
         "SecurityToken" \in DOMAIN r.data => k.token
  PROVE  LET s == SignV2(r, k, t) IN
           /\ call.version = "v2" => Delivered(k, t, Prepare(s))
           /\ SameBut(s, r, {"data"}) /\ BodyKept(r.data, s.data)
           /\ "SecurityToken" \in DOMAIN s.data => k.token
<1> DEFINE dated == With(With(r.data, "JCSAccessKeyId", k.gen), "Timestamp", t)
           full == IF k.token THEN With(dated, "SecurityToken", k.gen) ELSE dated
           stamped == [r EXCEPT !.data = full]
           v == Mac(k.gen, V2Over(stamped))
           s == SignV2(r, k, t)
           m == Prepare(s)
<1>1. /\ full["Timestamp"] = t /\ "Timestamp" \in DOMAIN full
      /\ k.token <=> "SecurityToken" \in DOMAIN full
      /\ k.token => full["SecurityToken"] = k.gen
  <2>1. CASE k.token
    BY <2>1 DEF With
  <2>2. CASE ~k.token
    BY <2>2 DEF With
  <2> QED
    BY <2>1, <2>2
<1>2. BodyKept(r.data, full)
  BY DEF BodyKept, BodyStamps, With
<1>3. SameBut(stamped, r, {"data"}) /\ stamped.data = full
  <2> HIDE DEF full
  <2> QED
    BY DEF SameBut, Fields
<1>4. s = [stamped EXCEPT !.data = With(@, "Signature", v)]
  BY Zenon DEF SignV2
<1> HIDE DEF full, v
<1>5. SameBut(s, r, {"data"}) /\ s.data = With(full, "Signature", v)
  <2> HIDE DEF stamped, s
  <2> QED
    BY <1>3, <1>4 DEF SameBut, Fields
<1> HIDE DEF s
<1>6. BodyKept(r.data, s.data) /\ ("SecurityToken" \in DOMAIN s.data => k.token)
  BY <1>1, <1>2, <1>5 DEF BodyKept, BodyStamps, With
<1>7. ASSUME call.version = "v2" PROVE Delivered(k, t, m)
  <2>1. m.data = s.data /\ m.host = r.host /\ m.path = r.path
    BY <1>5 DEF Prepare, SameBut, Fields
  <2> HIDE DEF m
  <2>2. Signature(m) = v
    BY <1>7, <2>1, <1>5 DEF Signature, With
  <2>3. Drop(m.data, "Signature") = Drop(full, "Signature")
    BY <2>1, <1>5, DropWith
  <2>4. ServerOver(m) = V2Over(stamped)
    <3> HIDE DEF stamped
    <3>1. ServerOver(m) = V2Over(m)
      BY <1>7 DEF ServerOver
    <3>2. stamped.host = r.host /\ stamped.path = r.path
      BY <1>3 DEF SameBut, Fields
    <3> QED
      BY <3>1, <3>2, <2>1, <2>3, <1>3 DEF V2Over
  <2>5. /\ {m.data[n] : n \in {"Timestamp"} \cap DOMAIN m.data} = {t}
        /\ k.token <=> "SecurityToken" \in DOMAIN m.data
        /\ k.token => m.data["SecurityToken"] = k.gen
    <3>1. /\ "Timestamp" \in DOMAIN m.data /\ m.data["Timestamp"] = t
          /\ "SecurityToken" \in DOMAIN m.data <=> "SecurityToken" \in DOMAIN full
          /\ "SecurityToken" \in DOMAIN full => m.data["SecurityToken"] = full["SecurityToken"]
      BY <2>1, <1>1, <1>5 DEF With
    <3>2. {m.data[n] : n \in {"Timestamp"} \cap DOMAIN m.data} = {t}
      BY <3>1
    <3> QED
      BY <3>1, <3>2, <1>1, Zenon
  <2>6. Signature(m) = Mac(k.gen, ServerOver(m))
    BY <2>2, <2>4 DEF v
  <2> QED
    BY <1>7, <2>5, <2>6, Zenon DEF Delivered
<1> QED
  BY <1>5, <1>6, <1>7 DEF s

\* A request that a signer may be given, with credentials k.
Fits(k, r) ==
  /\ DOMAIN r = Fields
  /\ Placed(r)
  /\ HeadersFit(call, k, r.headers)
  /\ "SecurityToken" \in DOMAIN r.data => k.token

\* Signing writes the stamps and nothing else into the body.
LEMMA SignedBody ==
  ASSUME NEW c, c.version \in Versions, NEW r, DOMAIN r = Fields, NEW k, k.token \in BOOLEAN,
         NEW t, "SecurityToken" \in DOMAIN r.data => k.token
  PROVE  LET s == Sign(r, c, k, t) IN
           /\ DOMAIN s = Fields /\ s.query = r.query /\ BodyKept(r.data, s.data)
           /\ c.version # "v2" => s.data = r.data
           /\ "SecurityToken" \in DOMAIN s.data => k.token
<1> DEFINE f == IF c.version \in {"s3", "s3v4"} THEN FixS3Host(r, c) ELSE r
           s == Sign(r, c, k, t)
<1>1. SameBut(f, r, {"host", "path", "auth"})
  BY MovedAlone DEF SameBut
<1>2. DOMAIN f = Fields /\ f.data = r.data /\ f.query = r.query
  <2> HIDE DEF f
  <2> QED
    BY <1>1 DEF SameBut, Fields
<1>3. CASE c.version = "v2"
  <2>1. s = SignV2(f, k, t)
    BY <1>3 DEF Sign
  <2> HIDE DEF f, s
  <2>2. SameBut(s, f, {"data"}) /\ BodyKept(f.data, s.data)
        /\ ("SecurityToken" \in DOMAIN s.data => k.token)
    BY <2>1, <1>2, SentV2
  <2> QED
    BY <2>2, <1>2, <1>3 DEF SameBut, Fields, s
<1>4. CASE c.version # "v2"
  <2>1. s \in {SignV3(f, k, t), SignV4(f, k, t), SignS3V4(f, k, t), SignHmacV1(f, k, t), f}
    BY <1>4 DEF Sign, Versions
  <2> HIDE DEF f, s
  <2>2. SameBut(f, f, {"headers"})
    BY <1>2 DEF SameBut
  <2>3. SameBut(s, f, {"headers"})
    BY <2>1, <2>2, <1>2, SignersKeep
  <2>4. s.data = r.data /\ s.query = r.query /\ DOMAIN s = Fields
    BY <2>3, <1>2 DEF SameBut, Fields
  <2>5. BodyKept(r.data, s.data)
    BY <2>4 DEF BodyKept
  <2> QED
    BY <2>4, <2>5, <1>4 DEF s
<1> QED
  BY <1>3, <1>4

\* What is signed is accepted, and can be signed again.
LEMMA Signs ==
  ASSUME CallShape(call), NEW k, k.token \in BOOLEAN, NEW t, NEW r, Fits(k, r)
  PROVE  LET s == Sign(r, call, k, t) IN
           /\ Fits(k, s)
           /\ call.version # "unsigned" => Delivered(k, t, Prepare(s))
<1> DEFINE f == IF call.version \in {"s3", "s3v4"} THEN FixS3Host(r, call) ELSE r
           s == Sign(r, call, k, t)
<1>1. call.version \in Versions
  BY DEF CallShape
<1>2. Placed(f) /\ SameBut(f, r, {"host", "path", "auth"})
  BY Moved DEF Fits, SameBut
<1>3. DOMAIN f = Fields /\ HeadersFit(call, k, f.headers)
      /\ ("SecurityToken" \in DOMAIN f.data => k.token)
  <2> HIDE DEF f
  <2>1. DOMAIN f = Fields /\ f.headers = r.headers /\ f.data = r.data
    BY <1>2 DEF SameBut, Fields
  <2> QED
    BY <2>1 DEF Fits
<1>4. /\ call.version = "v2" => s = SignV2(f, k, t)
      /\ call.version = "v3" => s = SignV3(f, k, t)
      /\ call.version = "v4" => s = SignV4(f, k, t)
      /\ call.version = "s3" => s = SignHmacV1(f, k, t)
      /\ call.version = "s3v4" => s = SignS3V4(f, k, t)
      /\ call.version = "unsigned" => s = f
  BY DEF Sign
<1>5. DOMAIN s = Fields /\ ("SecurityToken" \in DOMAIN s.data => k.token)
  BY <1>1, SignedBody DEF Fits
<1> HIDE DEF f, s
<1>6. ASSUME SameBut(s, f, {"headers", "data"}) PROVE Placed(s)
  <2>1. s.host = f.host /\ s.path = f.path /\ s.auth = f.auth
    BY <1>6 DEF SameBut, Fields
  <2> QED
    BY <2>1, <1>2 DEF Placed
<1>7. ASSUME SameBut(s, f, {"headers"}) PROVE SameBut(s, f, {"headers", "data"})
  BY <1>7 DEF SameBut
<1>8. CASE call.version = "v2"
  <2>1. SameBut(s, f, {"data"}) /\ Delivered(k, t, Prepare(s))
    BY <1>3, <1>4, <1>8, SentV2
  <2>2. SameBut(s, f, {"headers", "data"}) /\ s.headers = f.headers
    BY <2>1 DEF SameBut, Fields
  <2> QED
    BY <2>1, <2>2, <1>3, <1>5, <1>6 DEF Fits, s
<1>9. CASE call.version \in {"v4", "s3v4"}
  <2>1. Delivered(k, t, Prepare(s)) /\ HeadersFit(call, k, s.headers)
    BY <1>3, <1>4, <1>9, SentV4
  <2>2. SameBut(s, f, {"headers"})
    BY <1>3, <1>4, <1>9, SignersKeep
  <2> QED
    BY <2>1, <2>2, <1>5, <1>6, <1>7 DEF Fits, s
<1>10. CASE call.version = "v3"
  <2>1. Delivered(k, t, Prepare(s)) /\ HeadersFit(call, k, s.headers)
    BY <1>3, <1>4, <1>10, SentV3
  <2>2. SameBut(s, f, {"headers"})
    BY <1>3, <1>4, <1>10, SignersKeep
  <2> QED
    BY <2>1, <2>2, <1>5, <1>6, <1>7 DEF Fits, s
<1>11. CASE call.version = "s3"
  <2>1. Delivered(k, t, Prepare(s)) /\ HeadersFit(call, k, s.headers)
    BY <1>2, <1>3, <1>4, <1>11, SentS3
  <2>2. SameBut(s, f, {"headers"})
    BY <1>3, <1>4, <1>11, SignersKeep
  <2> QED
    BY <2>1, <2>2, <1>5, <1>6, <1>7 DEF Fits, s
<1>12. CASE call.version = "unsigned"
  <2>1. s = f
    BY <1>4, <1>12
  <2> QED
    BY <2>1, <1>2, <1>3, <1>12 DEF Fits, s
<1> QED
  BY <1>1, <1>8, <1>9, <1>10, <1>11, <1>12 DEF Versions

\* Parameters that were encoded once.
Encoded(c, D) ==
  /\ "UserData" \in DOMAIN c.data =>
       "UserData" \in DOMAIN D /\ D["UserData"] = c.data["UserData"] + 1
  /\ "SSECustomerKey" \in DOMAIN c.data =>
       /\ {"SSECustomerKey", "SSECustomerKeyMD5"} \subseteq DOMAIN D
       /\ IF "SSECustomerKeyMD5" \in DOMAIN c.data
          THEN \A n \in {"SSECustomerKey", "SSECustomerKeyMD5"} : D[n] = c.data[n]
          ELSE /\ D["SSECustomerKey"] = c.data["SSECustomerKey"] + 1
               /\ D["SSECustomerKeyMD5"] = c.data["SSECustomerKey"]

LEMMA EncodedKept ==
  ASSUME NEW c, NEW D, Encoded(c, D), NEW E,
         \A n \in {"UserData", "SSECustomerKey", "SSECustomerKeyMD5"} :
           n \in DOMAIN D => n \in DOMAIN E /\ E[n] = D[n]
  PROVE  Encoded(c, E)
  BY DEF Encoded

LEMMA Builds ==
  ASSUME NEW c
  PROVE  LET D == BuildParameters(c.data) IN
           /\ Encoded(c, D)
           /\ \A n : n # "SSECustomerKeyMD5" => (n \in DOMAIN D <=> n \in DOMAIN c.data)
<1> DEFINE p == c.data
           user == IF "UserData" \in DOMAIN p THEN [p EXCEPT !["UserData"] = @ + 1] ELSE p
           sse == IF "SSECustomerKey" \in DOMAIN p /\ "SSECustomerKeyMD5" \notin DOMAIN p
                  THEN With([user EXCEPT !["SSECustomerKey"] = @ + 1],
                            "SSECustomerKeyMD5", p["SSECustomerKey"])
                  ELSE user
           D == BuildParameters(p)
<1> HIDE DEF p
<1>1. /\ DOMAIN user = DOMAIN p
      /\ "UserData" \in DOMAIN p => user["UserData"] = p["UserData"] + 1
      /\ \A n \in DOMAIN p : n # "UserData" => user[n] = p[n]
  OBVIOUS
<1> HIDE DEF user
<1>2. /\ \A n : n # "SSECustomerKeyMD5" => (n \in DOMAIN sse <=> n \in DOMAIN p)
      /\ "UserData" \in DOMAIN p => sse["UserData"] = user["UserData"]
      /\ "SSECustomerKey" \in DOMAIN p =>
           /\ "SSECustomerKeyMD5" \in DOMAIN sse
           /\ IF "SSECustomerKeyMD5" \in DOMAIN p
              THEN \A n \in {"SSECustomerKey", "SSECustomerKeyMD5"} : sse[n] = p[n]
              ELSE /\ sse["SSECustomerKey"] = p["SSECustomerKey"] + 1
                   /\ sse["SSECustomerKeyMD5"] = p["SSECustomerKey"]
  <2>1. CASE "SSECustomerKey" \in DOMAIN p /\ "SSECustomerKeyMD5" \notin DOMAIN p
    BY <2>1, <1>1 DEF With
  <2>2. CASE ~("SSECustomerKey" \in DOMAIN p /\ "SSECustomerKeyMD5" \notin DOMAIN p)
    BY <2>2, <1>1
  <2> QED
    BY <2>1, <2>2
<1>3. D = IF "accountId" \in DOMAIN p /\ p["accountId"] = None THEN [sse EXCEPT !["accountId"] = "-"]
          ELSE sse
  BY Zenon DEF BuildParameters, user
<1> HIDE DEF sse, D
<1>4. /\ DOMAIN D = DOMAIN sse
      /\ \A n \in DOMAIN sse : n # "accountId" => D[n] = sse[n]
  BY <1>3
<1>5. Encoded(c, D)
  BY <1>1, <1>2, <1>4 DEF Encoded, p
<1> QED
  BY <1>2, <1>4, <1>5 DEF D, p

\* The url of a copy says what it was signed with.
LEMMA UrlVerifies ==
  ASSUME NEW r, DOMAIN r = Fields, r.query = << >>, UrlStamps \cap DOMAIN r.data = {},
         NEW k, NEW t, NEW region
  PROVE  LET url == SignQuery(r, k, t, region)
             bare == [url EXCEPT !.query = Drop(@, "X-Amz-Signature")]
         IN  /\ url.host = r.host
             /\ DOMAIN url.query \ UrlStamps = DOMAIN r.data
             /\ \A n \in DOMAIN r.data : url.query[n] = r.data[n]
             /\ url.query["X-Amz-Signature"] =
                  Mac(url.query["X-Amz-Credential"],
                      CanonicalRequest(bare, url.query["X-Amz-Date"], region))
<1> DEFINE all == [n \in DOMAIN r.query \cup DOMAIN r.data |->
                     IF n \in DOMAIN r.data THEN r.data[n] ELSE r.query[n]]
           dated == With(With(all, "X-Amz-Credential", k.gen), "X-Amz-Date", t)
           full == IF k.token THEN With(dated, "X-Amz-Security-Token", k.gen) ELSE dated
           signed == [r EXCEPT !.headers = << >>, !.data = << >>, !.query = full]
           v == Mac(k.gen, CanonicalRequest(signed, t, region))
           url == SignQuery(r, k, t, region)
           bare == [url EXCEPT !.query = Drop(@, "X-Amz-Signature")]
<1>1. /\ "X-Amz-Signature" \notin DOMAIN all
      /\ DOMAIN all = DOMAIN r.data /\ \A n \in DOMAIN r.data : all[n] = r.data[n]
  <2>1. DOMAIN r.query = {}
    OBVIOUS
  <2> QED
    BY <2>1 DEF UrlStamps
<1> HIDE DEF all
<1>2. /\ "X-Amz-Signature" \notin DOMAIN dated /\ dated = [n \in DOMAIN dated |-> dated[n]]
      /\ {"X-Amz-Credential", "X-Amz-Date"} \subseteq DOMAIN dated
      /\ dated["X-Amz-Credential"] = k.gen /\ dated["X-Amz-Date"] = t
      /\ DOMAIN dated = DOMAIN all \cup {"X-Amz-Credential", "X-Amz-Date"}
      /\ \A n \in DOMAIN all \ UrlStamps : dated[n] = all[n]
  BY <1>1 DEF With, UrlStamps
<1> HIDE DEF dated
<1>3. /\ "X-Amz-Signature" \notin DOMAIN full /\ full = [n \in DOMAIN full |-> full[n]]
      /\ {"X-Amz-Credential", "X-Amz-Date"} \subseteq DOMAIN full
      /\ full["X-Amz-Credential"] = k.gen /\ full["X-Amz-Date"] = t
      /\ DOMAIN all \subseteq DOMAIN full /\ DOMAIN full \subseteq DOMAIN all \cup UrlStamps
      /\ \A n \in DOMAIN all \ UrlStamps : full[n] = all[n]
  BY <1>2 DEF With, UrlStamps
<1>4. url = [signed EXCEPT !.query = With(@, "X-Amz-Signature", v)]
  BY Zenon DEF SignQuery, dated, all
<1> HIDE DEF full, v, url
<1>5. /\ signed.query = full /\ signed.host = r.host
      /\ DOMAIN signed = Fields
  BY DEF Fields
<1> HIDE DEF signed
<1>6. /\ SameBut(url, signed, {"query"}) /\ url.query = With(full, "X-Amz-Signature", v)
  BY <1>4, <1>5 DEF SameBut, Fields
<1>7. Drop(url.query, "X-Amz-Signature") = full
  <2>1. DOMAIN full \ {"X-Amz-Signature"} = DOMAIN full
    BY <1>3
  <2>2. Drop(full, "X-Amz-Signature") = full
    BY <2>1, <1>3, Zenon DEF Drop
  <2> QED
    BY <2>2, <1>6, DropWith
<1>8. SameBut(bare, signed, {})
  BY <1>5, <1>6, <1>7 DEF SameBut, Fields
<1> HIDE DEF bare
<1>9. CanonicalRequest(bare, t, region) = CanonicalRequest(signed, t, region)
  BY <1>8 DEF SameBut, Fields, CanonicalRequest
<1>10. /\ url.query["X-Amz-Signature"] = v /\ url.query["X-Amz-Credential"] = k.gen
       /\ url.query["X-Amz-Date"] = t
  BY <1>3, <1>6 DEF With
<1>11. url.host = r.host
  BY <1>5, <1>6 DEF SameBut, Fields
<1>12. /\ DOMAIN url.query \ UrlStamps = DOMAIN r.data
       /\ \A n \in DOMAIN r.data : url.query[n] = r.data[n]
  <2>1. /\ DOMAIN url.query = DOMAIN full \cup {"X-Amz-Signature"}
        /\ \A n \in DOMAIN full \ {"X-Amz-Signature"} : url.query[n] = full[n]
    BY <1>6 DEF With
  <2>2. DOMAIN r.data \cap UrlStamps = {} /\ "X-Amz-Signature" \in UrlStamps
    BY DEF UrlStamps
  <2> QED
    BY <1>1, <1>3, <2>1, <2>2
<1> QED
  BY <1>9, <1>10, <1>11, <1>12 DEF url, v, bare

\* The inductive invariant: what the request dict holds of the call, and what
\* the last message was signed with.
CallInv ==
  /\ creds = [gen |-> creds.gen, token |-> creds.token] /\ creds.token \in BOOLEAN
  /\ call = None => ~Sent
  /\ call # None =>
       /\ call \in Calls
       /\ dict = [data |-> dict.data, headers |-> call.headers]
       /\ "SecurityToken" \in DOMAIN dict.data => creds.token
       /\ Encoded(call, dict.data)
       /\ Sent => Encoded(call, wire.data)
       /\ Sent /\ call.version # "unsigned" =>
            Delivered([gen |-> signedAt.gen, token |-> creds.token], signedAt.time, wire)
  /\ PresignedUrlVerifies

\* The properties, of the last message.
LEMMA CallInvImplies ==
  ASSUME CallInv
  PROVE  EveryAttemptVerifies /\ AttemptsLeaveNoTrace
<1> DEFINE k == [gen |-> signedAt.gen, token |-> creds.token]
<1> SUFFICES ASSUME Sent PROVE EveryAttemptVerifies /\ AttemptsLeaveNoTrace
  BY DEF EveryAttemptVerifies, AttemptsLeaveNoTrace, EveryAttemptIsFresh, EncodedOnce
<1>1. Encoded(call, wire.data)
  BY DEF CallInv
<1>2. ASSUME call.version # "unsigned" PROVE Delivered(k, signedAt.time, wire)
  BY <1>2 DEF CallInv
<1>3. k.gen = signedAt.gen /\ k.token = creds.token
  OBVIOUS
<1> HIDE DEF k
<1>4. EncodedOnce
  BY <1>1 DEF EncodedOnce, Encoded
<1>5. ASSUME call.version # "unsigned"
      PROVE  /\ Signature(wire) = Mac(k.gen, ServerOver(wire))
             /\ Signature(wire).gen = signedAt.gen
  <2>1. Signature(wire) = Mac(k.gen, ServerOver(wire))
    BY <1>2, <1>5, Zenon DEF Delivered
  <2> QED
    BY <2>1, <1>3 DEF Mac
<1>6. EveryAttemptVerifies
  BY <1>3, <1>5 DEF EveryAttemptVerifies
<1>7. EveryAttemptIsFresh
  BY <1>2, <1>3, <1>5, Zenon DEF EveryAttemptIsFresh, Delivered
<1> QED
  BY <1>4, <1>6, <1>7 DEF AttemptsLeaveNoTrace

LEMMA CallInvInit == SigningInit => CallInv
<1> SUFFICES ASSUME SigningInit PROVE CallInv
  OBVIOUS
<1>1. dict.data = << >> /\ call = None /\ wire = NoMessage
  BY DEF SigningInit
<1>2. creds = [gen |-> creds.gen, token |-> creds.token] /\ creds.token \in BOOLEAN
  BY DEF SigningInit
<1>3. "PresignedUrl" \notin DOMAIN dict.data
  <2>1. DOMAIN dict.data = {}
    BY <1>1
  <2> QED
    BY <2>1
<1> QED
  BY <1>1, <1>2, <1>3 DEF CallInv, Sent, PresignedUrlVerifies

\* The request made of a dict fits its call.
LEMMA RequestFits ==
  ASSUME CallInv, call # None, NEW k, k.token = creds.token
  PROVE  Fits(k, RequestObject(call, dict)) /\ RequestObject(call, dict).data = dict.data
<1> DEFINE r == RequestObject(call, dict)
<1>1. CallShape(call) /\ dict.headers = call.headers
  BY SigningAssumption DEF CallInv
<1>2. /\ DOMAIN r = Fields /\ r.data = dict.data
      /\ r.headers = [h \in DOMAIN call.headers |-> <<call.headers[h]>>]
      /\ r.host = call.host /\ r.path = call.path /\ r.auth = None
  BY <1>1 DEF RequestObject, Fields
<1> HIDE DEF r
<1>3. Single(r.headers)
  <2>1. \A h \in DOMAIN call.headers : Last(<<call.headers[h]>>) = call.headers[h]
    BY DEF Last
  <2> QED
    BY <1>2, <2>1 DEF Single
<1>4. HeadersFit(call, k, r.headers)
  BY <1>1, <1>2, <1>3 DEF HeadersFit, CallShape
<1>5. Placed(r)
  BY <1>2 DEF Placed
<1>6. "SecurityToken" \in DOMAIN r.data => k.token
  BY <1>2 DEF CallInv
<1> QED
  BY <1>2, <1>4, <1>5, <1>6 DEF Fits, r

\* What is said of a message is the same after a step that keeps the call.
LEMMA SaidAgain ==
  ASSUME call' = call, NEW k, NEW t, NEW m, Delivered(k, t, m)
  PROVE  Delivered(k, t, m)'
<1>1. ServerOver(m)' = ServerOver(m) /\ Signature(m)' = Signature(m)
  BY DEF ServerOver, Signature
<1> QED
  BY <1>1 DEF Delivered

LEMMA EncodedAfter ==
  ASSUME NEW c, NEW D, Encoded(c, D), NEW E, BodyKept(D, E)
  PROVE  Encoded(c, E)
  BY EncodedKept DEF BodyKept, BodyStamps

\* A call starts with its parameters encoded, and the url of a copy signed.
LEMMA StartCallKeeps ==
  ASSUME CallInv, NEW c \in Calls, StartCall(c)
  PROVE  CallInv'
<1> DEFINE d == [data |-> BuildParameters(c.data), headers |-> c.headers]
           e == CopySnapshot(c, d, creds, clock)
<1>1. CallShape(c) /\ ~Sent /\ creds.token \in BOOLEAN
  BY SigningAssumption DEF StartCall, CallInv
<1>2. /\ Encoded(c, d.data)
      /\ \A n : n # "SSECustomerKeyMD5" => (n \in DOMAIN d.data <=> n \in DOMAIN c.data)
  BY Builds
<1>3. d = [data |-> d.data, headers |-> c.headers]
  OBVIOUS
<1>4. call' = c /\ dict' = (IF c.copy THEN e ELSE d) /\ UNCHANGED <<creds, wire, signedAt>>
  BY DEF StartCall
<1> HIDE DEF d
<1>5. /\ (BodyStamps \cup UrlStamps) \cap DOMAIN d.data = {}
      /\ "PresignedUrl" \in DOMAIN d.data => "PresignedUrl" \in DOMAIN c.data
  BY <1>1, <1>2 DEF CallShape, BodyStamps, UrlStamps
<1>6. ASSUME "PresignedUrl" \notin DOMAIN d.data
      PROVE  /\ e = [data |-> e.data, headers |-> c.headers]
             /\ "SecurityToken" \in DOMAIN e.data => creds.token
             /\ Encoded(c, e.data)
             /\ LET url == e.data["PresignedUrl"]
                    bare == [url EXCEPT !.query = Drop(@, "X-Amz-Signature")]
                    asked == DOMAIN e.data \ (BodyStamps \cup {"PresignedUrl"})
                IN  /\ url.host = <<"source">>
                    /\ asked = DOMAIN url.query \ UrlStamps
                    /\ \A n \in asked : url.query[n] = e.data[n]
                    /\ url.query["X-Amz-Signature"] =
                         Mac(url.query["X-Amz-Credential"],
                             CanonicalRequest(bare, url.query["X-Amz-Date"], "there"))
  <2> DEFINE asked == [d EXCEPT !.data = With(@, "DestinationRegion", "here")]
             o == RequestObject(c, asked)
             from == [o EXCEPT !.host = <<"source">>]
             url == SignQuery(from, creds, clock, "there")
  <2>1. asked = [data |-> With(d.data, "DestinationRegion", "here"), headers |-> c.headers]
    BY <1>3
  <2> HIDE DEF asked
  <2>2. /\ Encoded(c, asked.data)
        /\ (BodyStamps \cup UrlStamps \cup {"PresignedUrl"}) \cap DOMAIN asked.data = {}
    <3>1. asked.data = With(d.data, "DestinationRegion", "here")
      BY <2>1
    <3>2. \A n \in {"UserData", "SSECustomerKey", "SSECustomerKeyMD5"} :
            n \in DOMAIN d.data => n \in DOMAIN asked.data /\ asked.data[n] = d.data[n]
      BY <3>1 DEF With
    <3>3. (BodyStamps \cup UrlStamps \cup {"PresignedUrl"}) \cap DOMAIN asked.data = {}
      BY <1>6, <3>1, <1>5 DEF With, BodyStamps, UrlStamps
    <3> QED
      BY <3>2, <3>3, <1>2, EncodedKept
  <2>3. DOMAIN o = Fields /\ o.query = << >> /\ o.data = asked.data
    BY DEF RequestObject, Fields
  <2> HIDE DEF o
  <2>4. /\ DOMAIN from = Fields /\ from.query = << >> /\ from.data = asked.data
        /\ from.host = <<"source">>
    BY <2>3 DEF Fields
  <2> HIDE DEF from
  <2>5. LET bare == [url EXCEPT !.query = Drop(@, "X-Amz-Signature")]
        IN  /\ url.host = <<"source">>
            /\ DOMAIN url.query \ UrlStamps = DOMAIN asked.data
            /\ \A n \in DOMAIN asked.data : url.query[n] = asked.data[n]
            /\ url.query["X-Amz-Signature"] =
                 Mac(url.query["X-Amz-Credential"],
                     CanonicalRequest(bare, url.query["X-Amz-Date"], "there"))
    BY <2>2, <2>4, UrlVerifies
  <2>6. e = [asked EXCEPT !.data = With(@, "PresignedUrl", url)]
    BY <1>6, Zenon DEF CopySnapshot, asked, o, from
  <2> HIDE DEF url
  <2>7. e = [data |-> With(asked.data, "PresignedUrl", url), headers |-> c.headers]
    BY <2>1, <2>6
  <2> HIDE DEF e
  <2>8. e.data = With(asked.data, "PresignedUrl", url) /\ e = [data |-> e.data, headers |-> c.headers]
    BY <2>7
  <2>9. /\ e.data["PresignedUrl"] = url
        /\ DOMAIN e.data = DOMAIN asked.data \cup {"PresignedUrl"}
        /\ \A n \in DOMAIN asked.data \ {"PresignedUrl"} : e.data[n] = asked.data[n]
    BY <2>8 DEF With
  <2>10. Encoded(c, e.data) /\ "SecurityToken" \notin DOMAIN e.data
    BY <2>2, <2>9, EncodedKept DEF BodyStamps
  <2>11. /\ DOMAIN e.data \ (BodyStamps \cup {"PresignedUrl"}) = DOMAIN asked.data
         /\ \A n \in DOMAIN asked.data : url.query[n] = e.data[n]
    BY <2>2, <2>5, <2>9
  <2> QED
    BY <2>5, <2>8, <2>9, <2>10, <2>11
<1>7. ASSUME "PresignedUrl" \in DOMAIN d.data PROVE e = d
  BY <1>7 DEF CopySnapshot
<1> HIDE DEF e
<1>8. /\ dict' = [data |-> dict'.data, headers |-> c.headers]
      /\ "SecurityToken" \in DOMAIN dict'.data => creds.token
      /\ Encoded(c, dict'.data)
      /\ "PresignedUrl" \in DOMAIN dict'.data /\ "PresignedUrl" \notin DOMAIN c.data =>
           c.copy /\ "PresignedUrl" \notin DOMAIN d.data /\ dict' = e
  <2>1. CASE c.copy /\ "PresignedUrl" \notin DOMAIN d.data
    BY <2>1, <1>4, <1>6
  <2>2. CASE ~(c.copy /\ "PresignedUrl" \notin DOMAIN d.data)
    <3>1. dict' = d
      BY <2>2, <1>4, <1>7
    <3> QED
      BY <3>1, <1>2, <1>3, <1>5 DEF BodyStamps
  <2> QED
    BY <2>1, <2>2
<1>9. PresignedUrlVerifies'
  BY <1>4, <1>6, <1>8 DEF PresignedUrlVerifies
<1>10. ~Sent'
  BY <1>1, <1>4 DEF Sent
<1>11. call' # None =>
       /\ call' \in Calls
       /\ dict' = [data |-> dict'.data, headers |-> call'.headers]
       /\ "SecurityToken" \in DOMAIN dict'.data => creds'.token
       /\ Encoded(call', dict'.data)
  BY <1>4, <1>8
<1> QED
  BY <1>4, <1>9, <1>10, <1>11 DEF CallInv

\* An attempt is accepted, and leaves in the body what it found but for stamps.
LEMMA AttemptKeeps ==
  ASSUME CallInv, NEW again \in BOOLEAN, Attempt(again)
  PROVE  CallInv'
<1> DEFINE old == [creds EXCEPT !.gen = signedAt.gen]
           o == RequestObject(call, dict)
           once == Sign(o, call, old, clock)
           r == IF again THEN once ELSE o
           s == Sign(r, call, creds, clock)
           m == Prepare(s)
           k == [gen |-> creds.gen, token |-> creds.token]
<1>1. /\ call # None /\ call \in Calls /\ CallShape(call) /\ call.version \in Versions
      /\ creds = k /\ creds.token \in BOOLEAN
  BY SigningAssumption DEF Attempt, CallInv, CallShape
<1>2. /\ UNCHANGED <<call, creds>> /\ wire' = m
      /\ signedAt' = [time |-> clock, gen |-> creds.gen]
      /\ dict' = IF call.version = "v2" THEN [dict EXCEPT !.data = s.data] ELSE dict
  BY DEF Attempt
<1>3. old.token = creds.token
  <2>1. [k EXCEPT !.gen = signedAt.gen].token = creds.token
    OBVIOUS
  <2> HIDE DEF k
  <2> QED
    BY <1>1, <2>1
<1> HIDE DEF old
<1>4. Fits(creds, o) /\ Fits(old, o) /\ o.data = dict.data
  BY <1>1, <1>3, RequestFits
<1> HIDE DEF o
<1>5. Fits(old, once) /\ BodyKept(o.data, once.data) /\ (call.version # "v2" => once.data = o.data)
  <2>1. Fits(old, once)
    BY <1>1, <1>3, <1>4, Signs
  <2>2. BodyKept(o.data, once.data) /\ (call.version # "v2" => once.data = o.data)
    BY <1>1, <1>3, <1>4, SignedBody DEF Fits
  <2> QED
    BY <2>1, <2>2
<1> HIDE DEF once
<1>6. Fits(creds, once)
  BY <1>3, <1>5 DEF Fits, HeadersFit
<1>7. Fits(creds, r) /\ BodyKept(o.data, r.data) /\ (call.version # "v2" => r.data = o.data)
  BY <1>4, <1>5, <1>6 DEF BodyKept
<1> HIDE DEF r
<1>8. Fits(creds, s) /\ (call.version # "unsigned" => Delivered(creds, clock, m))
  BY <1>1, <1>7, Signs
<1>9. BodyKept(r.data, s.data) /\ (call.version # "v2" => s.data = r.data)
  BY <1>1, <1>7, SignedBody DEF Fits
<1> HIDE DEF s
<1>10. BodyKept(dict.data, s.data) /\ m.data = s.data
  BY <1>4, <1>7, <1>9 DEF BodyKept, Prepare
<1>11. Encoded(call, m.data)
  BY <1>1, <1>10, EncodedAfter DEF CallInv
<1>12. /\ dict' = [data |-> dict'.data, headers |-> call.headers]
       /\ dict'.data = s.data \/ dict'.data = dict.data
  <2>1. dict = [data |-> dict.data, headers |-> call.headers]
    BY <1>1 DEF CallInv
  <2> QED
    BY <1>2, <2>1
<1>13. /\ "SecurityToken" \in DOMAIN dict'.data => creds.token
       /\ Encoded(call, dict'.data)
       /\ BodyKept(dict.data, dict'.data)
  <2>1. "SecurityToken" \in DOMAIN s.data => creds.token
    BY <1>8 DEF Fits
  <2>2. /\ "SecurityToken" \in DOMAIN dict.data => creds.token
        /\ Encoded(call, dict.data)
    BY <1>1 DEF CallInv
  <2>3. BodyKept(dict.data, dict.data)
    BY DEF BodyKept
  <2> QED
    BY <1>10, <1>11, <1>12, <2>1, <2>2, <2>3
<1>14. PresignedUrlVerifies'
  <2>1. /\ "PresignedUrl" \in DOMAIN dict'.data => "PresignedUrl" \in DOMAIN dict.data
        /\ "PresignedUrl" \in DOMAIN dict.data => dict'.data["PresignedUrl"] = dict.data["PresignedUrl"]
        /\ DOMAIN dict'.data \ (BodyStamps \cup {"PresignedUrl"})
             = DOMAIN dict.data \ (BodyStamps \cup {"PresignedUrl"})
        /\ \A n \in DOMAIN dict.data \ (BodyStamps \cup {"PresignedUrl"}) :
             dict'.data[n] = dict.data[n]
    BY <1>13 DEF BodyKept, BodyStamps
  <2> QED
    BY <1>2, <2>1 DEF CallInv, PresignedUrlVerifies
<1> HIDE DEF k
<1>15. ASSUME call.version # "unsigned"
       PROVE  Delivered([gen |-> signedAt.gen, token |-> creds.token], signedAt.time, wire)'
  <2>1. PICK K, T, M : K = creds /\ T = clock /\ M = m
    OBVIOUS
  <2>2. Delivered(K, T, M)'
    BY <1>2, <1>8, <1>15, <2>1, SaidAgain
  <2>3. [gen |-> signedAt'.gen, token |-> creds'.token] = K /\ signedAt'.time = T /\ wire' = M
    BY <1>1, <1>2, <2>1 DEF k
  <2> QED
    BY <2>2, <2>3
<1>16. creds' = [gen |-> creds'.gen, token |-> creds'.token] /\ creds'.token \in BOOLEAN
  BY <1>1, <1>2 DEF k
<1> HIDE DEF m
<1>17. call' # None /\ call' \in Calls
  BY <1>1, <1>2
<1>18. /\ dict' = [data |-> dict'.data, headers |-> call'.headers]
       /\ "SecurityToken" \in DOMAIN dict'.data => creds'.token
       /\ Encoded(call', dict'.data)
       /\ Encoded(call', wire'.data)
  BY <1>2, <1>11, <1>12, <1>13
<1>19. Sent' /\ call'.version # "unsigned" =>
         Delivered([gen |-> signedAt.gen, token |-> creds.token], signedAt.time, wire)'
  BY <1>2, <1>15
<1> QED
  BY <1>14, <1>16, <1>17, <1>18, <1>19 DEF CallInv

\* Time and new credentials leave the token, the message and the body.
LEMMA RestKeeps ==
  ASSUME CallInv, TimePasses \/ UNCHANGED signingVars
  PROVE  CallInv'
<1>1. UNCHANGED <<call, dict, wire, signedAt>>
  BY DEF TimePasses, signingVars
<1>2. creds' = [gen |-> creds'.gen, token |-> creds'.token] /\ creds'.token = creds.token
  <2>1. creds = [gen |-> creds.gen, token |-> creds.token]
    BY DEF CallInv
  <2>2. creds' = creds \/ creds' = [creds EXCEPT !.gen = clock + 1]
    BY DEF TimePasses, signingVars
  <2> QED
    BY <2>1, <2>2
<1>3. ASSUME NEW K, NEW T, NEW M, Delivered(K, T, M) PROVE Delivered(K, T, M)'
  BY <1>1, <1>3, SaidAgain
<1>4. ASSUME Sent, call.version # "unsigned", call # None
      PROVE  Delivered([gen |-> signedAt.gen, token |-> creds.token], signedAt.time, wire)'
  <2>1. PICK K, T, M : /\ K = [gen |-> signedAt.gen, token |-> creds.token]
                       /\ T = signedAt.time /\ M = wire
    OBVIOUS
  <2>2. Delivered(K, T, M)'
    BY <1>3, <1>4, <2>1 DEF CallInv
  <2>3. K = [gen |-> signedAt'.gen, token |-> creds'.token] /\ T = signedAt'.time /\ M = wire'
    BY <1>1, <1>2, <2>1
  <2> QED
    BY <2>2, <2>3
<1>5. PresignedUrlVerifies'
  BY <1>1 DEF CallInv, PresignedUrlVerifies
<1>6. Sent' <=> Sent
  BY <1>1 DEF Sent
<1> QED
  BY <1>1, <1>2, <1>4, <1>5, <1>6 DEF CallInv

LEMMA CallInvAlways == SigningSpec => []CallInv
<1>1. CallInv /\ [SigningNext]_signingVars => CallInv'
  BY StartCallKeeps, AttemptKeeps, RestKeeps DEF SigningNext
<1> QED
  BY <1>1, CallInvInit, PTL DEF SigningSpec

\* The server accepts every attempt of every call, whatever was signed before it in the
\* same body (signers.py 47-132, auth.py 62-603).
THEOREM AttemptsVerify == SigningSpec => []EveryAttemptVerifies
<1>1. CallInv => EveryAttemptVerifies
  BY CallInvImplies
<1> QED
  BY <1>1, CallInvAlways, PTL

\* Every attempt carries its own time, key and token and parameters encoded once,
\* and nothing of the attempts before it (endpoint.py 170-219).
THEOREM AttemptsAreFresh == SigningSpec => []AttemptsLeaveNoTrace
<1>1. CallInv => AttemptsLeaveNoTrace
  BY CallInvImplies
<1> QED
  BY <1>1, CallInvAlways, PTL

\* The url of a copy stays valid while the body that holds it is signed again
\* (handlers.py 297-335).
THEOREM CopiesStayPresigned == SigningSpec => []PresignedUrlVerifies
<1>1. CallInv => PresignedUrlVerifies
  BY DEF CallInv
<1> QED
  BY <1>1, CallInvAlways, PTL
=============================================================================
