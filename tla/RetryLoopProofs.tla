-------------------------- MODULE RetryLoopProofs --------------------------
(***************************************************************************)
(* The request loop implements RetryContract, for every set of policies,   *)
(* in whatever order the dict yields them, every bound on the attempts and *)
(* every server.                                                           *)
(*                                                                         *)
(* The contract speaks of the class of the last outcome, the loop of a     *)
(* verdict reached by the first checker that decides.  VerdictRight shows  *)
(* that the order does not matter to the contract; LoopInv carries the     *)
(* verdict from _needs_retry to the step that acts on it.                  *)
(***************************************************************************)
EXTENDS RetryLoop, FiniteSetTheorems, WellFoundedInduction, TLAPS

\* A non-empty set of indices has a least element: < is well founded on the naturals.
LEMMA LeastIndex ==
  ASSUME NEW n \in Nat, NEW T \in SUBSET (1..n), T # {}
  PROVE  \E m \in T : \A k \in T : m <= k
<1> DEFINE Less == {p \in Nat \X Nat : p[1] < p[2]}
<1>1. IsWellFoundedOn(Less, Nat)
  BY NatLessThanWellFounded DEF OpToRel
<1>2. T \subseteq Nat
  OBVIOUS
<1>3. PICK m \in T : \A k \in T : ~ (<<k, m>> \in Less)
  <2> HIDE DEF Less
  <2> QED BY <1>1, <1>2, WFMin, Zenon
<1>4. \A k \in T : ~ (k < m)
  BY <1>2, <1>3
<1> QED
  BY <1>2, <1>4

Exceptions == {"ConnectionError", "EndpointConnectionError", "OtherError",
               "UnseekableStreamError", "TooManyRedirects"}

\* What _get_response may return.
Reply == [status : Nat, code : STRING, parsed : STRING \cup {"none"}, crc : STRING]
Seen == [exception : Exceptions] \cup Reply

LoopInv ==
  /\ attempts \in 1..MaxAttempts
  /\ checkers \in Orders
  /\ phase \in {"create", "send", "parse", "retry?", "rewind", "finish", "done"}
  /\ phase = "done" <=> result # "none"
  /\ phase \in {"create", "send"} => outcome = Pending
  /\ phase \in {"parse", "retry?", "rewind", "finish"} => outcome \in Seen
  /\ phase \in {"rewind", "finish"} => outcome = Checked200(outcome)
  /\ phase = "rewind" => attempts < MaxAttempts /\ Transient(outcome)
  /\ phase = "finish" => attempts = MaxAttempts \/ ~Transient(outcome)
-----------------------------------------------------------------------------
\* An exception is not a response, and neither is pending.
LEMMA Kinds ==
  /\ ~IsException(Pending) /\ ~IsResponse(Pending)
  /\ \A o \in Seen : o # Pending /\ (IsException(o) <=> ~IsResponse(o))
  /\ \A o \in Seen : IsException(o) => o.exception \in Exceptions
  /\ \A o \in Seen : IsResponse(o) => o \in Reply
<1>1. DOMAIN Pending = {"pending"}
  BY DEF Pending
<1>2. \A o \in [exception : Exceptions] : DOMAIN o = {"exception"} /\ o.exception \in Exceptions
  OBVIOUS
<1>3. \A o \in Reply :
        DOMAIN o = {"status", "code", "parsed", "crc"}
  BY DEF Reply
<1> QED
  BY <1>1, <1>2, <1>3 DEF Seen, IsException, IsResponse

\* check_for_200_error keeps exceptions and, done twice, does what it does once.
LEMMA Checked ==
  ASSUME NEW o \in Seen
  PROVE  /\ Checked200(o) \in Seen
         /\ Checked200(Checked200(o)) = Checked200(o)
         /\ IsException(o) <=> IsException(Checked200(o))
         /\ IsException(o) => Checked200(o) = o
<1>1. CASE ~EmbeddedError(o)
  BY <1>1 DEF Checked200
<1>2. CASE EmbeddedError(o)
  <2>1. IsResponse(o) /\ o \in Reply
    BY <1>2, Kinds DEF EmbeddedError
  <2>2. Checked200(o) = [o EXCEPT !.status = 500]
    BY <1>2 DEF Checked200
  <2>3. /\ Checked200(o) \in Reply
        /\ Checked200(o).status = 500
    BY <2>1, <2>2 DEF Reply
  <2>4. ~EmbeddedError(Checked200(o))
    BY <2>3 DEF EmbeddedError
  <2>5. Checked200(o) \in Seen
    BY <2>3 DEF Seen
  <2>6. IsResponse(Checked200(o))
    BY <2>3 DEF IsResponse, Reply
  <2> QED
    BY <2>1, <2>4, <2>5, <2>6, Kinds DEF Checked200
<1> QED
  BY <1>1, <1>2

\* The verdict of all checkers: some checker gave it, and if any decides, one does.
LEMMA MultiRight ==
  ASSUME NEW order \in Orders, NEW o \in Seen
  PROVE  /\ MultiVerdict(order, o) \in {"no", "retry", "raise"}
         /\ MultiVerdict(order, o) = "no" <=> \A c \in Policy : Verdict(c, o) = "no"
         /\ MultiVerdict(order, o) # "no" => \E c \in Policy : Verdict(c, o) = MultiVerdict(order, o)
<1> DEFINE n == Cardinality(Policy)
           deciding == {i \in DOMAIN order : Verdict(order[i], o) # "no"}
           first == CHOOSE i \in deciding : \A j \in deciding : i <= j
<1>1. n \in Nat /\ order \in [1..n -> Policy] /\ \A i, j \in 1..n : order[i] = order[j] => i = j
  BY RetryAssumption, FS_CardinalityType DEF Orders
<1>2. \A c \in Policy : Verdict(c, o) \in {"no", "retry", "raise"}
  BY RetryAssumption DEF Verdict
<1>3. \A c \in Policy : \E i \in 1..n : order[i] = c
  <2>1. order \in Injection(1..n, Policy)
    BY <1>1 DEF Injection, IsInjective
  <2>2. Cardinality(1..n) = n
    BY <1>1, FS_Interval
  <2>3. order \in Surjection(1..n, Policy)
    BY <2>1, <2>2, RetryAssumption, FS_Injection
  <2> QED
    BY <2>3 DEF Surjection
<1>4. CASE deciding = {}
  <2>1. MultiVerdict(order, o) = "no"
    BY <1>4 DEF MultiVerdict
  <2>2. \A i \in 1..n : Verdict(order[i], o) = "no"
    BY <1>1, <1>4
  <2> QED
    BY <2>1, <2>2, <1>3
<1>5. CASE deciding # {}
  <2>1. deciding \in SUBSET (1..n)
    BY <1>1
  <2>2. \E i \in deciding : \A j \in deciding : i <= j
    <3> HIDE DEF deciding, n
    <3> QED
      BY <1>1, <1>5, <2>1, LeastIndex
  <2>3. first \in deciding
    BY <2>2
  <2>4. MultiVerdict(order, o) = Verdict(order[first], o)
    BY <1>5 DEF MultiVerdict
  <2>5. order[first] \in Policy /\ Verdict(order[first], o) # "no"
    BY <1>1, <2>1, <2>3
  <2> HIDE DEF first, deciding
  <2> QED
    BY <1>2, <2>4, <2>5
<1> QED
  BY <1>4, <1>5

\* The exceptions that checkers raise for one outcome are the same, and one that a
\* response provokes can be retried.
LEMMA RaisedSame ==
  ASSUME NEW o \in Seen, NEW c \in Policy, Verdict(c, o) = "raise"
  PROVE  /\ IsException(o) => \A d \in Policy : Verdict(d, o) # "retry"
         /\ IsException(o) => Raised(o) \in Exceptions
         /\ ~IsException(o) => Raised(o) = "ChecksumError" /\ Raised(o) \in RetryableExceptions
<1>1. IsException(o) => ~IsResponse(o)
  BY Kinds
<1>2. \A d \in Policy : d.when \in {"socket", "status", "code", "crc"}
  BY RetryAssumption
<1>3. IsException(o) => \A d \in Policy : Verdict(d, o) # "retry"
  BY <1>1, <1>2 DEF Verdict
<1>4. IsException(o) => Raised(o) \in Exceptions
  BY Kinds DEF Raised
<1>5. ASSUME ~IsException(o)
      PROVE  Raised(o) = "ChecksumError" /\ Raised(o) \in RetryableExceptions
  <2>1. c.when = "crc"
    BY <1>2, <1>5 DEF Verdict
  <2> QED
    BY <1>5, <2>1 DEF Raised, RetryableExceptions
<1> QED
  BY <1>3, <1>4, <1>5

\* The retry handler is right: it retries while attempts are left if and only if the
\* outcome is transient, and otherwise raises or refuses.
LEMMA VerdictRight ==
  ASSUME NEW order \in Orders, NEW o \in Seen, NEW n \in 1..MaxAttempts
  PROVE  /\ MaxAttemptsVerdict(order, o, n) \in {"retry", "no", "raise"}
         /\ MaxAttemptsVerdict(order, o, n) = "retry" => n < MaxAttempts /\ Transient(o)
         /\ MaxAttemptsVerdict(order, o, n) # "retry" => n = MaxAttempts \/ ~Transient(o)
         /\ MaxAttemptsVerdict(order, o, n) = "raise" => Raised(o) \in Exceptions \cup {"ChecksumError"}
<1> DEFINE v == MultiVerdict(order, o)
<1>0. n \in Int /\ MaxAttempts \in Int /\ (n < MaxAttempts \/ n = MaxAttempts)
  BY RetryAssumption
<1>1. v \in {"no", "retry", "raise"}
  BY MultiRight
<1>2. CASE v = "no"
  <2>1. \A c \in Policy : Verdict(c, o) = "no"
    BY <1>2, MultiRight
  <2> QED
    BY <1>2, <2>1 DEF MaxAttemptsVerdict, Transient
<1>3. CASE v = "retry"
  <2>1. Transient(o)
    BY <1>3, MultiRight DEF Transient
  <2> QED
    BY <1>0, <1>3, <2>1 DEF MaxAttemptsVerdict
<1>4. CASE v = "raise"
  <2>1. PICK c \in Policy : Verdict(c, o) = "raise"
    BY <1>4, MultiRight
  <2>2. Raised(o) \in Exceptions \cup {"ChecksumError"}
    BY <2>1, RaisedSame
  <2>3. CASE Raised(o) \in RetryableExceptions
    <3>1. Transient(o)
      BY <2>1, <2>3 DEF Transient
    <3> QED
      BY <1>0, <1>4, <2>2, <2>3, <3>1 DEF MaxAttemptsVerdict
  <2>4. CASE Raised(o) \notin RetryableExceptions
    <3>1. ~Transient(o)
      BY <2>1, <2>4, RaisedSame DEF Transient
    <3> QED
      BY <1>0, <1>4, <2>2, <2>4, <3>1 DEF MaxAttemptsVerdict
  <2> QED
    BY <2>3, <2>4
<1> QED
  BY <1>1, <1>2, <1>3, <1>4
-----------------------------------------------------------------------------
\* What Send records is an outcome.
LEMMA Outcomes ==
  /\ \A r \in Response : Parsed(r) \in Seen
  /\ \A f \in Failure : Caught(f) \in Seen
  /\ \A e \in Exceptions : Exception(e) \in Seen
<1>1. ASSUME NEW r \in Response
      PROVE  Parsed(r) \in Seen
  <2>1. r \in Reply
    BY RetryAssumption DEF Reply
  <2>2. CASE r.status >= 301
    <3>1. Parsed(r) = [r EXCEPT !.parsed = r.code] /\ r.code \in STRING
      BY <2>1, <2>2 DEF Parsed, Reply
    <3> QED
      BY <2>1, <3>1 DEF Seen, Reply
  <2>3. CASE ~(r.status >= 301)
    <3>1. Parsed(r) = [r EXCEPT !.parsed = "none"]
      BY <2>3 DEF Parsed
    <3> QED
      BY <2>1, <3>1 DEF Seen, Reply
  <2> QED
    BY <2>2, <2>3
<1>2. \A e \in Exceptions : Exception(e) \in Seen
  BY DEF Exception, Seen
<1>3. ASSUME NEW f \in Failure
      PROVE  Caught(f) \in Seen
  <2>1. f = "connection" \/ f = "dns" \/ f = "other"
    BY RetryAssumption DEF Failures
  <2> QED
    BY <1>2, <2>1 DEF Caught, Exceptions
<1> QED
  BY <1>1, <1>2, <1>3

LEMMA InitLoop == Init => LoopInv
BY RetryAssumption DEF Init, LoopInv

\* Every step keeps the invariant.
LEMMA StepLoop == LoopInv /\ [Next]_vars => LoopInv'
<1> SUFFICES ASSUME LoopInv, [Next]_vars
             PROVE  LoopInv'
  OBVIOUS
<1>1. CASE CreateRequest
  BY <1>1 DEF CreateRequest, End, LoopInv
<1>2. CASE Send
  <2>1. outcome' \in Seen /\ phase' \in {"parse", "retry?"}
    BY <1>2, Outcomes DEF Send
  <2>2. UNCHANGED <<checkers, attempts, result>> /\ phase = "send"
    BY <1>2 DEF Send
  <2> QED
    BY <2>1, <2>2 DEF LoopInv
<1>3. CASE Redirect
  <2>1. \/ phase' = "send" /\ outcome' = outcome
        \/ phase' = "retry?" /\ outcome' \in Seen
    BY <1>3, Outcomes DEF Redirect, Exceptions
  <2>2. UNCHANGED <<checkers, attempts, result>> /\ phase = "send"
    BY <1>3 DEF Redirect
  <2> QED
    BY <2>1, <2>2 DEF LoopInv
<1>4. CASE Parse
  BY <1>4 DEF Parse, End, LoopInv
<1>5. CASE NeedsRetry
  <2> DEFINE o == Checked200(outcome)
             verdict == MaxAttemptsVerdict(checkers, o, attempts)
  <2>1. phase = "retry?" /\ outcome \in Seen /\ outcome' = o
    BY <1>5 DEF NeedsRetry, LoopInv
  <2>2. o \in Seen /\ Checked200(o) = o
    BY <2>1, Checked
  <2>3. UNCHANGED <<checkers, attempts>> /\ checkers \in Orders /\ attempts \in 1..MaxAttempts /\ result = "none"
    BY <1>5, <2>1 DEF NeedsRetry, LoopInv
  <2>4. Raised(outcome) \in Exceptions \cup {"ChecksumError"} \/ verdict # "raise"
    <3>1. Raised(o) = Raised(outcome)
      BY <2>1, Checked DEF Raised
    <3> HIDE DEF o
    <3> QED
      BY <2>2, <2>3, <3>1, VerdictRight
  <2>5. /\ verdict = "retry" => attempts < MaxAttempts /\ Transient(o)
        /\ verdict # "retry" => attempts = MaxAttempts \/ ~Transient(o)
    <3> HIDE DEF o
    <3> QED
      BY <2>2, <2>3, VerdictRight
  <2>6. \/ phase' = "done" /\ result' \in Exceptions \cup {"ChecksumError", "XMLError"}
        \/ phase' = "rewind" /\ verdict = "retry" /\ result' = result
        \/ phase' = "finish" /\ verdict = "no" /\ result' = result
    <3> HIDE DEF verdict
    <3> QED
      BY <1>5, <2>4 DEF NeedsRetry, End, verdict
  <2>7. Transient(outcome)' = Transient(o)
    BY <2>1 DEF Transient
  <2>8. Checked200(outcome)' = Checked200(o)
    BY <2>1 DEF Checked200, EmbeddedError
  <2> HIDE DEF o, verdict
  <2>9. phase' = "rewind" => attempts' < MaxAttempts /\ Transient(outcome)'
    BY <2>3, <2>5, <2>6, <2>7
  <2>10. phase' = "finish" => attempts' = MaxAttempts \/ ~Transient(outcome)'
    BY <2>3, <2>5, <2>6, <2>7
  <2>11. phase' = "done" <=> result' # "none"
    BY <2>3, <2>6 DEF Exceptions
  <2> QED
    BY <2>1, <2>2, <2>3, <2>6, <2>8, <2>9, <2>10, <2>11 DEF LoopInv
<1>6. CASE Rewind
  <2>1. attempts + 1 \in 1..MaxAttempts
    BY <1>6, RetryAssumption DEF Rewind, LoopInv
  <2> QED
    BY <1>6, <2>1 DEF Rewind, End, LoopInv
<1>7. CASE Finish
  <2>1. phase' = "done" /\ result' # "none"
    <3>1. CASE IsException(outcome)
      BY <1>7, <3>1, Kinds DEF Finish, End, LoopInv, Exceptions
    <3>2. CASE ~IsException(outcome)
      BY <1>7, <3>2, Kinds DEF Finish, End, LoopInv
    <3> QED
      BY <3>1, <3>2
  <2> QED
    BY <1>7, <2>1 DEF Finish, LoopInv
<1>8. CASE Done \/ UNCHANGED vars
  <2>1. UNCHANGED vars
    BY <1>8 DEF Done
  <2> QED
    BY <2>1 DEF vars, LoopInv, Transient, Checked200, EmbeddedError
<1> QED
  BY <1>1, <1>2, <1>3, <1>4, <1>5, <1>6, <1>7, <1>8 DEF Next
-----------------------------------------------------------------------------
\* The variables of the contract.
made == IF outcome = Pending THEN attempts - 1 ELSE attempts
last == IF outcome = Pending
        THEN IF attempts = 1 THEN "none" ELSE "transient"
        ELSE IF Transient(Checked200(outcome)) THEN "transient" ELSE "final"
ended == IF result = "none" THEN "no"
         ELSE IF result \in {"SigningError", "ParserError", "XMLError", "UnseekableStreamError"}
         THEN "broken off" ELSE "delivered"

\* A step of the contract, in these names.
LEMMA ContractStep ==
  ASSUME
    \/ /\ ended = "no" /\ made < MaxAttempts /\ last # "final"
       /\ made' = made + 1 /\ last' \in {"transient", "final"} /\ ended' = ended
    \/ /\ ended = "no" /\ (last = "final" \/ (last = "transient" /\ made = MaxAttempts))
       /\ ended' = "delivered" /\ made' = made /\ last' = last
    \/ /\ ended = "no" /\ ended' = "broken off" /\ made' = made /\ last' = last
    \/ made' = made /\ last' = last /\ ended' = ended
  PROVE  [Contract!Next]_(Contract!vars)
BY DEF made, last, ended, Contract!Next, Contract!Attempt, Contract!Deliver, Contract!BreakOff,
       Contract!vars

\* A request and its outcome are an attempt of the contract.
LEMMA OutcomeStep ==
  ASSUME LoopInv, phase = "send", outcome' \in Seen, UNCHANGED <<attempts, result>>
  PROVE  [Contract!Next]_(Contract!vars)
<1>1. outcome = Pending /\ result = "none" /\ attempts \in 1..MaxAttempts /\ MaxAttempts \in Nat
  BY RetryAssumption DEF LoopInv
<1>2. outcome' # Pending
  BY Kinds
<1>3. made = attempts - 1 /\ made' = attempts
  BY <1>1, <1>2 DEF made, Pending
<1>4. last # "final" /\ last' \in {"transient", "final"}
  BY <1>1, <1>2 DEF last, Pending
<1>5. ended = "no" /\ ended' = ended
  BY <1>1 DEF ended
<1>6. made < MaxAttempts /\ made' = made + 1
  BY <1>1, <1>3
<1> QED
  BY <1>4, <1>5, <1>6, ContractStep

\* Every step is one of the contract or changes nothing in it.
LEMMA StepContract == LoopInv /\ [Next]_vars => [Contract!Next]_(Contract!vars)
<1> SUFFICES ASSUME LoopInv, [Next]_vars
             PROVE  [Contract!Next]_(Contract!vars)
  OBVIOUS
<1>0. phase # "done" => result = "none" /\ ended = "no"
  BY DEF LoopInv, ended
<1>1. CASE CreateRequest
  <2>1. UNCHANGED <<outcome, attempts>> /\ phase = "create"
    BY <1>1 DEF CreateRequest, LoopInv
  <2>2. made' = made /\ last' = last
    BY <2>1 DEF made, last, Pending, Transient, Checked200, EmbeddedError
  <2>3. result' = result \/ result' = "SigningError"
    BY <1>1 DEF CreateRequest, End
  <2>4. ended' = ended \/ ended' = "broken off"
    BY <2>3 DEF ended
  <2> QED
    BY <1>0, <2>1, <2>2, <2>4, ContractStep
<1>2. CASE Send
  <2>1. outcome' \in Seen
    BY <1>2, Outcomes DEF Send
  <2> QED
    BY <1>2, <2>1, OutcomeStep DEF Send
<1>3. CASE Redirect
  <2>1. outcome' = outcome \/ outcome' \in Seen
    BY <1>3, Outcomes DEF Redirect, Exceptions
  <2>2. UNCHANGED <<attempts, result>> /\ phase = "send"
    BY <1>3 DEF Redirect
  <2>3. CASE outcome' = outcome
    <3>1. made' = made /\ last' = last /\ ended' = ended
      BY <2>2, <2>3 DEF made, last, ended, Pending, Transient, Checked200, EmbeddedError
    <3> QED
      BY <3>1, ContractStep
  <2> QED
    BY <2>1, <2>2, <2>3, OutcomeStep
<1>4. CASE Parse
  <2>1. UNCHANGED <<outcome, attempts>> /\ phase = "parse"
    BY <1>4 DEF Parse
  <2>2. made' = made /\ last' = last
    BY <2>1 DEF made, last, Pending, Transient, Checked200, EmbeddedError
  <2>3. result' = result \/ result' = "ParserError"
    BY <1>4 DEF Parse, End
  <2>4. ended' = ended \/ ended' = "broken off"
    BY <2>3 DEF ended
  <2> QED
    BY <1>0, <2>1, <2>2, <2>4, ContractStep
<1>5. CASE NeedsRetry
  <2> DEFINE o == Checked200(outcome)
             verdict == MaxAttemptsVerdict(checkers, o, attempts)
  <2>1. phase = "retry?" /\ outcome \in Seen /\ outcome' = o
    BY <1>5 DEF NeedsRetry, LoopInv
  <2>2. o \in Seen /\ Checked200(o) = o /\ o # Pending /\ outcome # Pending /\ Raised(o) = Raised(outcome)
    BY <2>1, Checked, Kinds DEF Raised
  <2>3. UNCHANGED attempts /\ checkers \in Orders /\ attempts \in 1..MaxAttempts
    BY <1>5, <2>1 DEF NeedsRetry, LoopInv
  <2>4. made = attempts /\ last = IF Transient(o) THEN "transient" ELSE "final"
    BY <2>2 DEF made, last
  <2>5. made' = attempts'
    BY <2>1, <2>2 DEF made, Pending
  <2>6. last' = IF Transient(o) THEN "transient" ELSE "final"
    <3>1. Checked200(outcome)' = Checked200(o)
      BY <2>1 DEF Checked200, EmbeddedError
    <3>2. Transient(Checked200(outcome))' = Transient(o)
      BY <2>2, <3>1 DEF Transient
    <3> QED
      BY <2>1, <2>2, <3>2 DEF last, Pending
  <2>7. /\ verdict # "retry" => attempts = MaxAttempts \/ ~Transient(o)
        /\ verdict = "raise" => Raised(o) \in Exceptions \cup {"ChecksumError"}
    <3> HIDE DEF o
    <3> QED
      BY <2>2, <2>3, VerdictRight
  <2>8. \/ result' = result
        \/ result' = "XMLError"
        \/ verdict = "raise" /\ result' = Raised(outcome)
    <3> HIDE DEF verdict
    <3> QED
      BY <1>5 DEF NeedsRetry, End, verdict
  <2> HIDE DEF o, verdict
  <2>9. CASE result' = result \/ result' = "XMLError"
    <3>1. ended' = ended \/ ended' = "broken off"
      BY <2>9 DEF ended
    <3> QED
      BY <1>0, <2>1, <2>3, <2>4, <2>5, <2>6, <3>1, ContractStep
  <2>10. CASE verdict = "raise" /\ result' = Raised(outcome)
    <3>1. result' \in Exceptions \cup {"ChecksumError"}
      BY <2>2, <2>7, <2>10
    <3>2. ended' = "delivered" \/ ended' = "broken off"
      BY <3>1 DEF ended, Exceptions
    <3>3. last = "final" \/ (last = "transient" /\ made = MaxAttempts)
      BY <2>4, <2>7, <2>10
    <3> QED
      BY <1>0, <2>1, <2>3, <2>4, <2>5, <2>6, <3>2, <3>3, ContractStep
  <2> QED
    BY <2>8, <2>9, <2>10
<1>6. CASE Rewind
  <2>1. /\ outcome \in Seen /\ outcome # Pending /\ Transient(Checked200(outcome))
        /\ attempts \in 1..MaxAttempts /\ phase = "rewind" /\ outcome' = Pending /\ attempts' = attempts + 1
    BY <1>6, Kinds DEF Rewind, LoopInv
  <2>2. made = attempts /\ last = "transient"
    BY <2>1 DEF made, last
  <2>3. made' = attempts /\ last' = "transient"
    BY <2>1 DEF made, last, Pending
  <2>4. result' = result \/ result' = "UnseekableStreamError"
    BY <1>6 DEF Rewind, End
  <2>5. ended' = ended \/ ended' = "broken off"
    BY <2>4 DEF ended
  <2> QED
    BY <1>0, <2>1, <2>2, <2>3, <2>5, ContractStep
<1>7. CASE Finish
  <2>1. /\ outcome \in Seen /\ outcome # Pending /\ outcome = Checked200(outcome)
        /\ attempts = MaxAttempts \/ ~Transient(outcome)
        /\ UNCHANGED <<outcome, attempts>> /\ phase = "finish"
    BY <1>7, Kinds DEF Finish, LoopInv
  <2>2. made' = made /\ last' = last
    BY <2>1 DEF made, last, Pending, Transient, Checked200, EmbeddedError
  <2>3. last = "final" \/ (last = "transient" /\ made = MaxAttempts)
    BY <2>1 DEF made, last
  <2>4. result' \in Exceptions \cup {"parsed", "ClientError", "KeyError"}
    <3>1. CASE IsException(outcome)
      BY <1>7, <2>1, <3>1, Kinds DEF Finish, End
    <3>2. CASE ~IsException(outcome)
      BY <1>7, <2>1, <3>2, Kinds DEF Finish, End
    <3> QED
      BY <3>1, <3>2
  <2>5. ended' = "delivered" \/ ended' = "broken off"
    BY <2>4 DEF ended, Exceptions
  <2> QED
    BY <1>0, <2>1, <2>2, <2>3, <2>5, ContractStep
<1>8. CASE Done \/ UNCHANGED vars
  <2>1. UNCHANGED vars
    BY <1>8 DEF Done
  <2>2. made' = made /\ last' = last /\ ended' = ended
    BY <2>1 DEF vars, made, last, ended, Pending, Transient, Checked200, EmbeddedError
  <2> QED
    BY <2>2, ContractStep
<1> QED
  BY <1>1, <1>2, <1>3, <1>4, <1>5, <1>6, <1>7, <1>8 DEF Next

\* The loop keeps the contract, for every set of policies, order of the checkers, bound
\* on the attempts and behaviour of the server (endpoint.py 198-219,
\* retryhandler.py 233-273).
THEOREM LoopKeepsContract == Spec => KeepsContract
<1>1. Init => Contract!Init
  BY DEF Init, Contract!Init
<1> QED
  BY <1>1, InitLoop, StepLoop, StepContract, PTL DEF Spec, KeepsContract, Contract!Spec
-----------------------------------------------------------------------------
\* Where the body stream stands: a request is sent with a moved stream only after a
\* redirect, and only if the stream cannot seek.
BodyInv ==
  /\ body \in Body
  /\ moved \in BOOLEAN /\ bodyless \in BOOLEAN /\ short \in BOOLEAN
  /\ redirects \in 0..MaxRedirects
  /\ result \in Results
  /\ phase = "create" => ~moved /\ ~short
  /\ phase = "send" => (moved => body = "pipe" /\ redirects > 0)
  /\ short => body = "pipe" /\ redirects > 0

LEMMA InitBody == Init => BodyInv
<1> SUFFICES ASSUME Init
             PROVE  BodyInv
  OBVIOUS
<1>1. redirects \in 0..MaxRedirects
  BY RetryAssumption DEF Init
<1>2. /\ moved = FALSE /\ bodyless = FALSE /\ short = FALSE
      /\ body \in Body /\ result \in Results /\ phase # "send"
  BY DEF Init, Results
<1> QED
  BY <1>1, <1>2, Zenon DEF BodyInv

LEMMA StepBody == LoopInv /\ BodyInv /\ [Next]_vars => BodyInv'
<1> SUFFICES ASSUME LoopInv, BodyInv, [Next]_vars
             PROVE  BodyInv'
  OBVIOUS
<1> USE RetryAssumption
<1>1. CASE CreateRequest
  <2>1. phase = "create" /\ (phase' = "send" \/ phase' = "done") /\ result' \in Results
    BY <1>1 DEF CreateRequest, End, BodyInv, Results
  <2>2. redirects' = 0 /\ bodyless' = FALSE /\ UNCHANGED <<body, moved, short>>
    BY <1>1 DEF CreateRequest
  <2>3. 0 \in 0..MaxRedirects
    OBVIOUS
  <2> QED
    BY <2>1, <2>2, <2>3, Zenon DEF BodyInv
<1>2. CASE Send
  <2>1. phase' # "create" /\ phase' # "send" /\ phase = "send"
    BY <1>2 DEF Send
  <2>2. UNCHANGED <<body, redirects, bodyless, result>>
    BY <1>2 DEF Send
  <2>3. short' \in BOOLEAN /\ moved' \in BOOLEAN /\ (short' => short \/ moved)
    BY <1>2 DEF Send, ReadBody, BodyInv
  <2> QED
    BY <2>1, <2>2, <2>3, Zenon DEF BodyInv
<1>3. CASE Redirect
  <2>1. /\ phase = "send" /\ phase' # "create" /\ UNCHANGED <<body, result>>
        /\ short' \in BOOLEAN /\ (short' => short \/ moved)
    BY <1>3 DEF Redirect, BodyInv
  <2>2. moved' \in BOOLEAN /\ bodyless' \in BOOLEAN
    BY <1>3, Zenon DEF Redirect, BodyInv
  <2>3. redirects' \in 0..MaxRedirects /\ (redirects' = redirects \/ redirects' = redirects + 1)
    BY <1>3 DEF Redirect, BodyInv
  <2>4. redirects > 0 => redirects' > 0
    BY <2>3 DEF BodyInv
  <2>5. phase' = "send" => moved' = (body = "pipe") /\ redirects' = redirects + 1
    BY <1>3 DEF Redirect
  <2>6. phase' = "send" => redirects' > 0
    BY <2>3, <2>5 DEF BodyInv
  <2> QED
    BY <2>1, <2>2, <2>3, <2>4, <2>5, <2>6, Zenon DEF BodyInv
<1>4. CASE Parse
  BY <1>4 DEF Parse, End, BodyInv, Results
<1>5. CASE NeedsRetry
  <2> DEFINE o == Checked200(outcome)
             verdict == MaxAttemptsVerdict(checkers, o, attempts)
  <2>1. /\ outcome \in Seen /\ checkers \in Orders /\ attempts \in 1..MaxAttempts
        /\ o \in Seen /\ Raised(o) = Raised(outcome)
    <3>1. outcome \in Seen /\ checkers \in Orders /\ attempts \in 1..MaxAttempts
      BY <1>5 DEF NeedsRetry, LoopInv
    <3> QED
      BY <3>1, Checked DEF Raised
  <2>2. verdict = "raise" => Raised(outcome) \in Results
    <3> HIDE DEF o
    <3>1. verdict = "raise" => Raised(o) \in Exceptions \cup {"ChecksumError"}
      BY <2>1, VerdictRight
    <3> QED
      BY <2>1, <3>1 DEF Exceptions, Results
  <2>3. phase' \in {"rewind", "finish", "done"} /\ result' \in Results
    <3> HIDE DEF verdict
    <3> QED
      BY <1>5, <2>2 DEF NeedsRetry, End, BodyInv, Results, verdict
  <2>4. UNCHANGED <<body, moved, redirects, bodyless, short>>
    BY <1>5 DEF NeedsRetry
  <2> HIDE DEF o, verdict
  <2> QED
    BY <2>3, <2>4 DEF BodyInv
<1>6. CASE Rewind
  BY <1>6 DEF Rewind, End, BodyInv, Results
<1>7. CASE Finish
  <2>1. phase' = "done" /\ result' \in Results
    <3>1. outcome \in Seen
      BY <1>7 DEF Finish, LoopInv
    <3>2. CASE IsException(outcome)
      BY <1>7, <3>1, <3>2, Kinds DEF Finish, End, Exceptions, Results
    <3>3. CASE ~IsException(outcome)
      BY <1>7, <3>1, <3>3, Kinds DEF Finish, End, Results
    <3> QED
      BY <3>2, <3>3
  <2> QED
    BY <1>7, <2>1 DEF Finish, BodyInv
<1>8. CASE Done \/ UNCHANGED vars
  BY <1>8 DEF Done, vars, BodyInv
<1> QED
  BY <1>1, <1>2, <1>3, <1>4, <1>5, <1>6, <1>7, <1>8 DEF Next

\* No request is sent with the rest of a body only, for every server and bound on the
\* redirects: the stream is rewound by the hook on redirects, by reset_stream between
\* attempts (endpoint.py 206-210, awsrequest.py 317-340).
THEOREM BodiesAreWhole == Spec => []WholeBodySent
<1>1. BodyInv => WholeBodySent
  BY DEF BodyInv, WholeBodySent
<1> QED
  BY <1>1, InitLoop, InitBody, StepLoop, StepBody, PTL DEF Spec

\* Every state is of its type; the invariants above are what makes it so.
THEOREM TypesHold == Spec => []TypeOK
<1>1. LoopInv /\ BodyInv => TypeOK
  BY Kinds DEF LoopInv, BodyInv, TypeOK
<1> QED
  BY <1>1, InitLoop, InitBody, StepLoop, StepBody, PTL DEF Spec

\* Once a call has delivered a parsed response, that response is a success.
LEMMA StepSuccess == LoopInv /\ SuccessIsReal /\ [Next]_vars => SuccessIsReal'
<1> SUFFICES ASSUME LoopInv, SuccessIsReal, [Next]_vars, result' = "parsed"
             PROVE  IsResponse(outcome') /\ outcome'.status < 300 /\ ~EmbeddedError(outcome')
  BY DEF SuccessIsReal, EmbeddedError, IsResponse
<1>1. CASE Finish
  <2>1. outcome \in Seen /\ outcome = Checked200(outcome) /\ outcome' = outcome
    BY <1>1 DEF Finish, LoopInv
  <2>2. IsResponse(outcome) /\ outcome \in Reply /\ outcome.status < 300
    <3>1. CASE IsException(outcome)
      BY <1>1, <2>1, <3>1, Kinds DEF Finish, End, Exceptions
    <3>2. CASE ~IsException(outcome)
      BY <1>1, <2>1, <3>2, Kinds DEF Finish, End
    <3> QED
      BY <3>1, <3>2
  <2>3. ~EmbeddedError(outcome)
    <3>1. ASSUME EmbeddedError(outcome)
          PROVE  FALSE
      <4>1. outcome = [outcome EXCEPT !.status = 500]
        BY <2>1, <3>1 DEF Checked200
      <4>2. outcome.status = 500
        BY <2>2, <4>1 DEF Reply
      <4> QED
        BY <3>1, <4>2 DEF EmbeddedError
    <3> QED
      BY <3>1
  <2> QED
    BY <2>1, <2>2, <2>3
<1>2. CASE Done \/ UNCHANGED vars
  BY <1>2 DEF Done, vars, SuccessIsReal
<1>3. CASE NeedsRetry
  <2> DEFINE o == Checked200(outcome)
             verdict == MaxAttemptsVerdict(checkers, o, attempts)
  <2>1. /\ outcome \in Seen /\ checkers \in Orders /\ attempts \in 1..MaxAttempts /\ result = "none"
        /\ o \in Seen /\ Raised(o) = Raised(outcome)
    <3>1. outcome \in Seen /\ checkers \in Orders /\ attempts \in 1..MaxAttempts /\ result = "none"
      BY <1>3 DEF NeedsRetry, LoopInv
    <3> QED
      BY <3>1, Checked DEF Raised
  <2>2. verdict = "raise" => Raised(outcome) # "parsed"
    <3> HIDE DEF o
    <3>1. verdict = "raise" => Raised(o) \in Exceptions \cup {"ChecksumError"}
      BY <2>1, VerdictRight
    <3> QED
      BY <2>1, <3>1 DEF Exceptions
  <2>3. result' # "parsed"
    <3> HIDE DEF verdict
    <3> QED
      BY <1>3, <2>1, <2>2 DEF NeedsRetry, End, verdict
  <2> QED
    BY <2>3
<1>4. CASE CreateRequest \/ Send \/ Redirect \/ Parse \/ Rewind
  <2>1. result = "none" /\ result' # "parsed"
    BY <1>4 DEF CreateRequest, Send, Redirect, Parse, Rewind, End, LoopInv
  <2> QED
    BY <2>1
<1> QED
  BY <1>1, <1>2, <1>3, <1>4 DEF Next

\* A caller that gets a parsed response has a success: no status from 300 on, and no
\* error inside a 200 (handlers.py 56-60, client.py 245-248).
THEOREM SuccessesAreReal == Spec => []SuccessIsReal
<1>1. Init => SuccessIsReal
  BY DEF Init, SuccessIsReal
<1> QED
  BY <1>1, InitLoop, StepLoop, StepSuccess, PTL DEF Spec
=============================================================================
