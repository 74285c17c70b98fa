---------------------------- MODULE Credentials ----------------------------
(***************************************************************************)
(* Credentials of an IAM role, shared by the threads that sign with them:  *)
(* RefreshableCredentials of src/botocore/credentials.py, the metadata     *)
(* fetcher of utils.py and the order in which the signers of auth.py read  *)
(* the credentials.                                                        *)
(*                                                                         *)
(* Every read of a key or of the token first refreshes the credentials if  *)
(* they expire soon; nothing holds a lock, and a signature takes several   *)
(* reads.  The metadata service is external: it hands out generations of   *)
(* credentials, and replaces a generation at least Renewal time units      *)
(* before it expires.  A key stands for the generation it belongs to.      *)
(*                                                                         *)
(* Time passes while threads wait: between signatures and in requests to   *)
(* the metadata service.  The code between two waits takes no time, but    *)
(* other threads may run at any point of it.                               *)
(***************************************************************************)
EXTENDS Integers, Sequences

CONSTANTS
  Thread,         \* threads that sign with the credentials
  RefreshTimeout, \* refresh_timeout, in units of time
  Lifetime,       \* time from issue to expiry of a generation
  Renewal,        \* the service renews a generation this long before it expires
  NumAttempts,    \* attempts of a metadata request
  MaxGeneration   \* bound on the generations issued

ASSUME CredentialsAssumption ==
  /\ RefreshTimeout \in Nat \ {0}
  /\ Renewal \in Nat \ {0} /\ Lifetime \in Nat /\ Lifetime > Renewal
  /\ NumAttempts \in Nat \ {0} /\ MaxGeneration \in Nat

VARIABLES
  now,        \* the time
  issued,     \* time of issue of each generation
  current,    \* the generation the service hands out
  stored,     \* the generation of each attribute of the credentials
  phase,      \* what a thread does next
  order,      \* the reads of a thread's signature
  pos,        \* the read it is at
  tries,      \* attempts of its metadata request
  fetched,    \* the generation of the metadata it refreshes from
  put,        \* the attribute it sets next
  fetches,    \* history: how often it fetched metadata for this signature, up to 2
  late,       \* history: some of that metadata was to expire within RefreshTimeout
  overlapped  \* history: two threads were setting attributes from different metadata

service == <<now, issued, current>>
reading == <<order, pos>>
history == <<fetches, late, overlapped>>
vars == <<now, issued, current, stored, phase, order, pos, tries, fetched, put,
          fetches, late, overlapped>>

Generation == 0..MaxGeneration
SetOrder == <<"access_key", "secret_key", "token", "expiry_time">>
Attribute == {SetOrder[i] : i \in 1..4}

\* The reads of a signature: SigV2 and presigned SigV4, and the other signers (SigV4,
\* SigV3 and HMAC).  The token of a role is never empty.
SignatureReads ==
  {<<"access_key", "token", "token", "secret_key">>,
   <<"token", "token", "secret_key", "access_key">>}

Expiry(g) == issued[g] + Lifetime

TypeOK ==
  /\ now \in Nat
  /\ current \in Generation
  /\ issued \in [Generation -> 0..now]
  /\ stored \in [Attribute -> 0..current]
  /\ phase \in [Thread -> {"idle", "read", "list", "document", "set", "return"}]
  /\ order \in [Thread -> SignatureReads]
  /\ pos \in [Thread -> 1..4]
  /\ tries \in [Thread -> 1..NumAttempts]
  /\ fetched \in [Thread -> 0..current]
  /\ put \in [Thread -> 1..4]
  /\ fetches \in [Thread -> 0..2]
  /\ late \in [Thread -> BOOLEAN]
  /\ overlapped \in BOOLEAN
-----------------------------------------------------------------------------
\* InstanceMetadataProvider.load has fetched the first generation.
Init ==
  /\ now = 0 /\ current = 0
  /\ issued = [g \in Generation |-> 0]
  /\ stored = [a \in Attribute |-> 0]
  /\ phase = [t \in Thread |-> "idle"]
  /\ order \in [Thread -> SignatureReads]
  /\ pos = [t \in Thread |-> 1]
  /\ tries = [t \in Thread |-> 1]
  /\ fetched = [t \in Thread |-> 0]
  /\ put = [t \in Thread |-> 1]
  /\ fetches = [t \in Thread |-> 0]
  /\ late = [t \in Thread |-> FALSE]
  /\ overlapped = FALSE

\* Mutant of RefreshNeeded: the credentials are refreshed when they have expired.
RefreshNeeded_Expired == Expiry(stored["expiry_time"]) - now < 0

\* refresh_needed
RefreshNeeded == Expiry(stored["expiry_time"]) - now < RefreshTimeout

Waiting(t) == phase[t] \in {"idle", "list", "document"}

\* The service renews the credentials in time.
Tick ==
  /\ \A t \in Thread : Waiting(t)
  /\ now + 1 <= Expiry(current) - Renewal
  /\ now' = now + 1
  /\ UNCHANGED <<issued, current, stored, phase, tries, fetched, put, reading, history>>

Renew ==
  /\ current < MaxGeneration
  /\ current' = current + 1
  /\ issued' = [issued EXCEPT ![current + 1] = now]
  /\ UNCHANGED <<now, stored, phase, tries, fetched, put, reading, history>>

\* add_auth; the variables of the thread are as EndSign left them.
StartSign(t) ==
  /\ phase[t] = "idle"
  /\ phase' = [phase EXCEPT ![t] = "read"]
  /\ UNCHANGED <<service, stored, tries, fetched, put, reading, history>>

\* The properties access_key, secret_key and token begin with _refresh.
Refresh(t) ==
  /\ phase[t] = "read"
  /\ IF RefreshNeeded
     THEN /\ phase' = [phase EXCEPT ![t] = "list"]
          /\ tries' = [tries EXCEPT ![t] = 1]
     ELSE phase' = [phase EXCEPT ![t] = "return"] /\ UNCHANGED tries
  /\ UNCHANGED <<service, stored, fetched, put, reading, history>>

\* _get_request: an attempt that fails is repeated.
RequestAgain(t) ==
  /\ phase[t] \in {"list", "document"}
  /\ tries[t] < NumAttempts
  /\ tries' = [tries EXCEPT ![t] = @ + 1]
  /\ UNCHANGED <<service, stored, phase, fetched, put, reading, history>>

\* The list of roles, of which there is one.
ListRoles(t) ==
  /\ phase[t] = "list"
  /\ phase' = [phase EXCEPT ![t] = "document"]
  /\ tries' = [tries EXCEPT ![t] = 1]
  /\ UNCHANGED <<service, stored, fetched, put, reading, history>>

\* The credentials of the role.
FetchDocument(t) ==
  /\ phase[t] = "document"
  /\ phase' = [phase EXCEPT ![t] = "set"]
  /\ fetched' = [fetched EXCEPT ![t] = current]
  /\ tries' = [tries EXCEPT ![t] = 1]
  /\ fetches' = [fetches EXCEPT ![t] = IF @ < 2 THEN @ + 1 ELSE 2]
  /\ late' = [late EXCEPT ![t] = @ \/ Expiry(current) - now < RefreshTimeout]
  /\ UNCHANGED <<service, stored, put, reading, overlapped>>

EndSign(t) ==
  /\ phase' = [phase EXCEPT ![t] = "idle"]
  /\ pos' = [pos EXCEPT ![t] = 1]
  /\ tries' = [tries EXCEPT ![t] = 1]
  /\ fetched' = [fetched EXCEPT ![t] = 0]
  /\ fetches' = [fetches EXCEPT ![t] = 0]
  /\ late' = [late EXCEPT ![t] = FALSE]

\* The last attempt fails, or an answer is empty or cannot be read: _set_from_data
\* meets an empty dict, or the error leaves the fetcher.  No signature is made, and
\* the stored credentials stay, even if they are still valid.
FetchFails(t) ==
  /\ phase[t] \in {"list", "document"}
  /\ EndSign(t)
  /\ UNCHANGED <<service, stored, order, put, overlapped>>

\* Mutant of StoreAt: expiry_time is set before the keys.
StoreAt_ExpiryFirst(t) ==
  [stored EXCEPT ![<<"expiry_time", "access_key", "secret_key", "token">>[put[t]]] = fetched[t]]

\* Mutant of StoreAt: expiry_time stays that of the first metadata.
StoreAt_KeepExpiry(t) ==
  IF SetOrder[put[t]] = "expiry_time" THEN stored ELSE [stored EXCEPT ![SetOrder[put[t]]] = fetched[t]]

StoreAt(t) == [stored EXCEPT ![SetOrder[put[t]]] = fetched[t]]

\* Mutant of SetNext: the read begins again with _refresh.
SetNext_Again(t) ==
  /\ phase[t] = "set"
  /\ stored' = StoreAt(t)
  /\ overlapped' = (overlapped \/ \E u \in Thread : phase[u] = "set" /\ fetched[u] # fetched[t])
  /\ IF put[t] < 4
     THEN put' = [put EXCEPT ![t] = @ + 1] /\ UNCHANGED phase
     ELSE /\ put' = [put EXCEPT ![t] = 1]
          /\ phase' = [phase EXCEPT ![t] = "read"]
  /\ UNCHANGED <<service, tries, fetched, reading, fetches, late>>

\* _set_from_data sets the attributes one by one.
SetNext(t) ==
  /\ phase[t] = "set"
  /\ stored' = StoreAt(t)
  /\ overlapped' = (overlapped \/ \E u \in Thread : phase[u] = "set" /\ fetched[u] # fetched[t])
  /\ IF put[t] < 4
     THEN put' = [put EXCEPT ![t] = @ + 1] /\ UNCHANGED phase
     ELSE /\ put' = [put EXCEPT ![t] = 1]
          /\ phase' = [phase EXCEPT ![t] = "return"]
  /\ UNCHANGED <<service, tries, fetched, reading, fetches, late>>

\* The property returns; after the last read the request is signed.
Return(t) ==
  /\ phase[t] = "return"
  /\ IF pos[t] < 4
     THEN /\ phase' = [phase EXCEPT ![t] = "read"]
          /\ pos' = [pos EXCEPT ![t] = @ + 1]
          /\ UNCHANGED <<tries, fetched, fetches, late>>
     ELSE EndSign(t)
  /\ UNCHANGED <<service, stored, order, put, overlapped>>

Step(t) ==
  \/ StartSign(t) \/ Refresh(t)
  \/ RequestAgain(t) \/ ListRoles(t) \/ FetchDocument(t) \/ FetchFails(t)
  \/ SetNext(t) \/ Return(t)

Next == Tick \/ Renew \/ \E t \in Thread : Step(t)

Spec == Init /\ [][Next]_vars
\* Threads are scheduled and metadata requests have a time-out.
FairSpec == Spec /\ \A t \in Thread : WF_vars(Step(t))
-----------------------------------------------------------------------------
\* The attributes are of one generation whenever no thread is setting them, and
\* expiry_time is never ahead of the keys it speaks of (credentials.py 210-214), as
\* long as no two threads refreshed from different metadata at once.
Coherent ==
  ~overlapped =>
    /\ \A a \in Attribute : stored[a] >= stored["expiry_time"]
    /\ (\A t \in Thread : phase[t] # "set") => \A a \in Attribute : stored[a] = stored["expiry_time"]

\* A read returns a key that has not expired (credentials.py 154-174), although
\* refreshing takes time and other threads set the attributes meanwhile.
FreshWhenRead ==
  \A t \in Thread :
    phase[t] = "return" /\ ~overlapped => Expiry(stored[order[t][pos[t]]]) > now

\* A signature fetches metadata more than once only if the service was late to renew
\* it: what is fetched then is refreshed again by the next read (credentials.py 191).
OneFetchPerSignature ==
  \A t \in Thread : fetches[t] > 1 /\ ~overlapped => late[t]

\* Every signature is made or fails: a failing service holds no thread up.
EverySignEnds == \A t \in Thread : phase[t] # "idle" ~> phase[t] = "idle"
=============================================================================
