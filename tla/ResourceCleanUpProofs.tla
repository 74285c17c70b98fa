------------------------ MODULE ResourceCleanUpProofs ------------------------
(***************************************************************************)
(* Whatever fails, the clean-up of the functional tests forgets nothing.   *)
(*                                                                         *)
(* LeaksAreReported is not inductive: that a resource is in the cloud says *)
(* nothing of who will delete it.  Accounted does: it is in a trash bin,   *)
(* on its way out while something waits for it, reported, or trusted to go *)
(* without a wait.  When the bins are empty and nothing is waited for, the *)
(* last two remain.  Bound says that a bound root volume has its server.   *)
(***************************************************************************)
EXTENDS ResourceCleanUp, WellFoundedInduction, TLAPS

\* A non-empty set of indices has a least element: < is well founded on the naturals.
LEMMA LeastIndex ==
  ASSUME NEW n \in Nat, NEW T \in SUBSET (1..n), T # {}
  PROVE  \E m \in T : \A k \in T : m <= k
<1> DEFINE Less == {p \in Nat \X Nat : p[1] < p[2]}
<1>1. IsWellFoundedOn(Less, Nat)
  BY NatLessThanWellFounded DEF OpToRel
<1>2. T \subseteq Nat
  OBVIOUS
<1>3. PICK m \in T : \A k \in T : ~ (<<k, m>> \in Less)
  <2> HIDE DEF Less
  <2> QED BY <1>1, <1>2, WFMin, Zenon
<1>4. \A k \in T : ~ (k < m)
  BY <1>2, <1>3
<1> QED
  BY <1>2, <1>4

Kept(r) == \E l \in Level : \E k \in DOMAIN bin[l] : bin[l][k] = r

Leaving(r) == wait # NoWait /\ wait.goal = "gone" /\ wait.of = r

\* Bins are functions whose keys were counted.
Trash ==
  /\ bin = [l \in Level |-> bin[l]] /\ sequence \in [Level -> Int]
  /\ \A l \in Level : /\ sequence[l] >= -1
                      /\ DOMAIN bin[l] \subseteq 0..sequence[l]
                      /\ \A k \in DOMAIN bin[l] : bin[l][k] \in Resource

\* Which bins may hold something when.
Shape ==
  /\ phase = "over" => DOMAIN bin["class"] = {}
  /\ phase \notin {"test", "tearDown"} => DOMAIN bin["test"] = {}
  /\ phase \notin {"tearDown", "tearDownClass"} => failures = {}

\* A wait belongs to a test that runs, or to the clean-up whose turn it is.
Waiting ==
  wait # NoWait =>
    /\ phase \in {"setUpClass", "test", "tearDown", "tearDownClass"}
    /\ wait.seen = "gone" => cloud[wait.of] = "gone"
    /\ \A l \in Level : phase = Emptying[l] =>
         /\ DOMAIN bin[l] # {} /\ wait.of = bin[l][NextKey(l)] /\ wait.goal = "gone"

Reported(r) == r \in reports \cup failures \cup trusted

Accounted ==
  \A r \in Resource : cloud[r] \in Alive => Kept(r) \/ Reported(r) \/ Leaving(r)

Bound == \A r \in Resource : volume[r] = "bound" => cloud[r] \in Alive

\* Nothing is older than what it lives in, in a bin or between the two.
NeedsFirst ==
  \A r \in Resource : cloud[r] # "none" => \A n \in Needs[r] : cloud[n] # "none"
KeptOnce == \A l \in Level : \A k \in DOMAIN bin[l] : cloud[bin[l][k]] # "none"
KeysAscend ==
  \A l \in Level : \A j, k \in DOMAIN bin[l] : bin[l][j] \in Needs[bin[l][k]] => j < k
ClassFirst ==
  \A k \in DOMAIN bin["class"], j \in DOMAIN bin["test"] :
    bin["test"][j] \notin Needs[bin["class"][k]]
Ordered == NeedsFirst /\ KeptOnce /\ KeysAscend /\ ClassFirst

Others == /\ cloud \in [Resource -> Status]
          /\ phase \in {"over", "idle", "setUpClass", "test", "tearDown", "tearDownClass"}
          /\ classes \in 0..MaxClasses
          /\ wait \in Wait
          /\ failures \subseteq Resource /\ reports \subseteq Resource /\ trusted \subseteq Resource
          /\ volume \in [Resource -> {"none", "kept", "bound"}]

IInv == Trash /\ Others /\ Shape /\ Waiting /\ Accounted /\ Bound /\ Ordered
-----------------------------------------------------------------------------
LEMMA Phases ==
  /\ Filling["class"] = "setUpClass" /\ Filling["test"] = "test"
  /\ Emptying["class"] = "tearDownClass" /\ Emptying["test"] = "tearDown"
  /\ DOMAIN Filling = Level /\ DOMAIN Emptying = Level
  /\ Range(Filling) = {"setUpClass", "test"} /\ Range(Emptying) = {"tearDownClass", "tearDown"}
<1>1. /\ Filling["class"] = "setUpClass" /\ Filling["test"] = "test"
      /\ Emptying["class"] = "tearDownClass" /\ Emptying["test"] = "tearDown"
      /\ DOMAIN Filling = {"class", "test"} /\ DOMAIN Emptying = {"class", "test"}
  BY DEF Filling, Emptying
<1>2. QED BY <1>1 DEF Level, Range

\* A bin that is not empty has a last key.
LEMMA LastKey ==
  ASSUME NEW n \in Nat, NEW S \in SUBSET (0..n), S # {}
  PROVE  Max(S) \in S /\ \A k \in S : Max(S) >= k
<1> DEFINE T == {n + 1 - k : k \in S}
<1>1. T \in SUBSET (1..(n + 1)) /\ T # {} /\ n + 1 \in Nat
  OBVIOUS
<1>2. PICK m \in T : \A k \in T : m <= k
  <2> HIDE DEF T
  <2> QED BY <1>1, LeastIndex
<1>3. PICK x \in S : m = n + 1 - x
  BY <1>2
<1>4. \A k \in S : x >= k
  <2>1. TAKE k \in S
  <2>2. n + 1 - k \in T
    OBVIOUS
  <2>3. m <= n + 1 - k
    BY <1>2, <2>2
  <2>4. QED BY <2>3, <1>3
<1>5. QED BY <1>4 DEF Max

LEMMA NextKeyIsLast ==
  ASSUME Trash, NEW l \in Level, DOMAIN bin[l] # {}
  PROVE  NextKey(l) \in DOMAIN bin[l] /\ \A k \in DOMAIN bin[l] : NextKey(l) >= k
<1>1. DOMAIN bin[l] \in SUBSET (0..sequence[l]) /\ sequence[l] \in Int
  BY DEF Trash
<1>2. sequence[l] \in Nat
  BY <1>1
<1>3. QED BY <1>1, <1>2, LastKey DEF NextKey
-----------------------------------------------------------------------------
\* What a step does to the trash bins.
Added(l, r) ==
  /\ Created(r) /\ cloud[r] = "none" /\ phase = Filling[l] /\ wait = NoWait
  /\ AddResourceCleanUp(l, r)
  /\ UNCHANGED <<runner, wait, failures, reports>>
Dropped(l, k) ==
  /\ bin' = [bin EXCEPT ![l] = Drop(@, k)] /\ UNCHANGED sequence
Recounted ==
  /\ phase = "over" /\ UNCHANGED <<bin, cloud>> /\ sequence' = [sequence EXCEPT !["class"] = -1]
Emptied ==
  /\ phase \in {"setUpClass", "idle"} /\ UNCHANGED cloud
  /\ bin' = [bin EXCEPT !["test"] = EmptyBin] /\ sequence' = [sequence EXCEPT !["test"] = -1]

TrashStep ==
  \/ UNCHANGED trash
  \/ \E l \in Level, r \in Resource : Added(l, r)
  \/ \E l \in Level : \E k \in DOMAIN bin[l] : Dropped(l, k)
  \/ Recounted
  \/ Emptied

\* What it does to the cloud: what is gone stays so.
CloudStep ==
  \/ UNCHANGED cloud
  \/ \E r \in Resource : Created(r) /\ cloud[r] = "none"
  \/ \E r \in Resource, s \in Status \ {"none"} :
       cloud[r] \notin {"none", "gone"} /\ cloud' = [cloud EXCEPT ![r] = s]

LEMMA DeletedStep ==
  ASSUME NEW r \in Resource, Deleted(r)
  PROVE  CloudStep
BY DEF Deleted, CloudStep, Alive, Status

LEMMA CloudSteps ==
  ASSUME Next, Trash
  PROVE  CloudStep
<1>1. ASSUME NEW l \in Level, NEW r \in Resource, Create(l, r) PROVE CloudStep
  BY <1>1 DEF Create, CloudStep
<1>2. ASSUME NEW r \in Resource, Delete(r) PROVE CloudStep
  BY <1>2, DeletedStep DEF Delete, CloudStep
<1>3. ASSUME NEW r \in Resource, Progress(r) PROVE CloudStep
  BY <1>3 DEF Progress, CloudStep, Status, Alive
<1>4. ASSUME NEW l \in Level, CleanUpItem(l) PROVE CloudStep
  <2>1. bin[l][NextKey(l)] \in Resource
    BY <1>4, NextKeyIsLast DEF CleanUpItem, Trash
  <2>2. QED BY <1>4, <2>1, DeletedStep DEF CleanUpItem, CloudStep
<1>5. QED BY <1>1, <1>2, <1>3, <1>4
    DEF Next, CleanUp, CleanedUp, Poll, Ask, Answer, BeginClass, SetUp, TearDown, TearDownClass, WaitAvailable,
        SetDeleteOnTermination, CloudStep

LEMMA Disposed ==
  ASSUME Trash, NEW l \in Level, DOMAIN bin[l] # {}, Dispose(l)
  PROVE  \E k \in DOMAIN bin[l] : Dropped(l, k)
BY NextKeyIsLast DEF Dispose, Dropped

LEMMA TrashSteps ==
  ASSUME Next, Trash, Waiting
  PROVE  TrashStep
<1>1. ASSUME NEW l \in Level, NEW r \in Resource, Create(l, r) PROVE TrashStep
  <2>1. Added(l, r) \/ UNCHANGED trash
    BY <1>1 DEF Create, Added, trash
  <2>2. QED BY <2>1 DEF TrashStep
<1>2. ASSUME NEW r \in Resource, Delete(r) PROVE TrashStep
  <2>1. UNCHANGED trash \/ \E k \in DOMAIN bin["test"] : Dropped("test", k)
    BY <1>2 DEF Delete, Dropped, trash
  <2>2. QED BY <2>1 DEF TrashStep, Level
<1>3. ASSUME NEW l \in Level, CleanUpItem(l) PROVE TrashStep
  <2>1. UNCHANGED trash \/ Dispose(l)
    BY <1>3 DEF CleanUpItem
  <2>2. QED BY <1>3, <2>1, Disposed DEF TrashStep, CleanUpItem
<1>4. ASSUME Answer PROVE TrashStep
  <2>1. UNCHANGED trash \/ \E l \in Level : phase = Emptying[l] /\ Dispose(l)
    BY <1>4 DEF Answer, WaitEnds, WaitFails
  <2>2. \A l \in Level : phase = Emptying[l] => DOMAIN bin[l] # {}
    BY <1>4 DEF Answer, Waiting
  <2>3. QED BY <2>1, <2>2, Disposed DEF TrashStep
<1>5. CASE BeginClass
  BY <1>5 DEF BeginClass, TrashStep, Recounted
<1>6. CASE SetUp
  BY <1>6 DEF SetUp, TrashStep, Emptied
<1>7. ASSUME NEW l \in Level, NEW r \in Resource, WaitAvailable(l, r) \/ SetDeleteOnTermination(l, r)
      PROVE  TrashStep
  BY <1>7 DEF WaitAvailable, SetDeleteOnTermination, TrashStep
<1>8. QED BY <1>1, <1>2, <1>3, <1>4, <1>5, <1>6, <1>7
    DEF Next, CleanUp, CleanedUp, Poll, Ask, Progress, TearDown, TearDownClass, TrashStep

LEMMA TrashKept ==
  ASSUME Trash, Shape, TrashStep
  PROVE  Trash'
<1>1. CASE UNCHANGED trash
  BY <1>1 DEF Trash, trash
<1>2. ASSUME NEW l \in Level, NEW r \in Resource, Added(l, r) PROVE Trash'
  <2> DEFINE n == sequence[l] + 1
  <2>1. sequence' = [sequence EXCEPT ![l] = n] /\ bin' = [bin EXCEPT ![l] = Put(bin[l], n, r)]
    BY <1>2 DEF Added, AddResourceCleanUp
  <2>2. sequence[l] \in Int /\ sequence[l] >= -1 /\ DOMAIN bin[l] \subseteq 0..sequence[l]
    BY DEF Trash
  <2>3. bin' = [x \in Level |-> bin'[x]] /\ sequence' \in [Level -> Int]
    BY <2>1, <2>2 DEF Trash
  <2>4. ASSUME NEW x \in Level
        PROVE  /\ sequence'[x] >= -1 /\ DOMAIN bin'[x] \subseteq 0..sequence'[x]
               /\ \A k \in DOMAIN bin'[x] : bin'[x][k] \in Resource
    <3>1. CASE x = l
      <4>1. bin'[x] = Put(bin[l], n, r) /\ sequence'[x] = n
        BY <2>1, <3>1 DEF Trash
      <4>2. DOMAIN bin'[x] = DOMAIN bin[l] \cup {n}
        BY <4>1 DEF Put
      <4>3. \A k \in DOMAIN bin'[x] : bin'[x][k] \in Resource
        BY <4>1 DEF Put, Trash
      <4>4. QED BY <2>2, <4>1, <4>2, <4>3
    <3>2. CASE x # l
      BY <2>1, <3>2 DEF Trash
    <3>3. QED BY <3>1, <3>2
  <2>5. QED BY <2>3, <2>4 DEF Trash
<1>3. ASSUME NEW l \in Level, NEW k \in DOMAIN bin[l], Dropped(l, k) PROVE Trash'
  <2>1. bin' = [bin EXCEPT ![l] = Drop(bin[l], k)] /\ sequence' = sequence
    BY <1>3 DEF Dropped
  <2>2. ASSUME NEW x \in Level
        PROVE  /\ DOMAIN bin'[x] \subseteq DOMAIN bin[x]
               /\ \A j \in DOMAIN bin'[x] : bin'[x][j] = bin[x][j]
    <3>1. CASE x = l
      <4>1. bin'[x] = Drop(bin[l], k)
        BY <2>1, <3>1 DEF Trash
      <4>2. QED BY <4>1, <3>1 DEF Drop, Restrict
    <3>2. CASE x # l
      BY <2>1, <3>2 DEF Trash
    <3>3. QED BY <3>1, <3>2
  <2>3. bin' = [x \in Level |-> bin'[x]]
    BY <2>1 DEF Trash
  <2>4. QED BY <2>1, <2>2, <2>3 DEF Trash
<1>4. CASE Recounted
  <2>1. DOMAIN bin["class"] = {} /\ "class" \in Level
    BY <1>4 DEF Recounted, Shape, Level
  <2>2. QED BY <1>4, <2>1 DEF Recounted, Trash
<1>5. CASE Emptied
  <2>1. DOMAIN EmptyBin = {} /\ "test" \in Level
    BY DEF EmptyBin, Level
  <2>2. QED BY <1>5, <2>1 DEF Emptied, Trash
<1>6. QED BY <1>1, <1>2, <1>3, <1>4, <1>5 DEF TrashStep

\* The action property: a key that is counted anew was not in use.
LEMMA NothingOverwritten ==
  ASSUME Trash, Shape, TrashStep
  PROVE  \A l \in Level : \A k \in DOMAIN bin[l] \cap DOMAIN bin'[l] : bin'[l][k] = bin[l][k]
<1> SUFFICES ASSUME NEW x \in Level, NEW j \in DOMAIN bin[x] \cap DOMAIN bin'[x]
             PROVE  bin'[x][j] = bin[x][j]
  OBVIOUS
<1>1. CASE UNCHANGED trash \/ Recounted
  BY <1>1 DEF trash, Recounted
<1>2. ASSUME NEW l \in Level, NEW r \in Resource, Added(l, r) PROVE bin'[x][j] = bin[x][j]
  <2>1. CASE x = l
    <3>1. bin'[x] = Put(bin[x], sequence[x] + 1, r)
      BY <1>2, <2>1 DEF Added, AddResourceCleanUp, Trash
    <3>2. j # sequence[x] + 1
      BY DEF Trash
    <3>3. QED BY <3>1, <3>2 DEF Put
  <2>2. CASE x # l
    BY <1>2, <2>2 DEF Added, AddResourceCleanUp, Trash
  <2>3. QED BY <2>1, <2>2
<1>3. ASSUME NEW l \in Level, NEW k \in DOMAIN bin[l], Dropped(l, k) PROVE bin'[x][j] = bin[x][j]
  <2>1. CASE x = l
    <3>1. bin'[x] = Drop(bin[x], k)
      BY <1>3, <2>1 DEF Dropped, Trash
    <3>2. QED BY <3>1, <2>1 DEF Drop, Restrict
  <2>2. CASE x # l
    BY <1>3, <2>2 DEF Dropped, Trash
  <2>3. QED BY <2>1, <2>2
<1>4. CASE Emptied
  <2>1. CASE x = "test"
    BY <1>4, <2>1 DEF Emptied, Shape
  <2>2. CASE x # "test"
    BY <1>4, <2>2 DEF Emptied, Trash
  <2>3. QED BY <2>1, <2>2
<1>5. QED BY <1>1, <1>2, <1>3, <1>4 DEF TrashStep
-----------------------------------------------------------------------------
\* Types.

LEMMA CloudTyped ==
  ASSUME cloud \in [Resource -> Status], CloudStep
  PROVE  cloud' \in [Resource -> Status]
BY DEF CloudStep, Created, Status, Alive

LEMMA StartWaitTyped ==
  ASSUME NEW r \in Resource
  PROVE  \A goal \in {"up", "works", "gone"} : StartWait(goal, r) \in Wait
BY CleanUpAssumption DEF StartWait, Wait, NoWait, Status

LEMMA FailedTyped ==
  ASSUME NEW r \in Resource, Others, Failed(r)
  PROVE  /\ phase' \in {"tearDown", "tearDownClass"} /\ classes' \in 0..MaxClasses /\ wait' \in Wait
         /\ failures' \subseteq Resource /\ reports' \subseteq Resource
BY DEF Failed, Others, Wait

LEMMA WaitTyped ==
  ASSUME Others, wait # NoWait
  PROVE  /\ wait \in [goal : {"up", "works", "gone"}, of : Resource, interval : Nat,
                     elapsed : Nat, seen : Status \cup {"", "raised"}]
         /\ wait.of \in Resource /\ wait.interval \in Nat /\ wait.elapsed \in Nat
         /\ wait.goal \in {"up", "works", "gone"} /\ wait.seen \in Status \cup {"", "raised"}
BY DEF Others, Wait

\* What a step does to the root volumes.
VolumeStep ==
  \/ UNCHANGED volume
  \/ \E r \in Resource : Created(r)
  \/ \E r \in Resource : /\ cloud[r] \in Alive /\ UNCHANGED cloud
                         /\ volume' = [volume EXCEPT ![r] = "bound"]
  \/ \E r \in Resource : Progress(r)

LEMMA VolumeSteps ==
  ASSUME Next
  PROVE  VolumeStep
<1>1. ASSUME NEW l \in Level, NEW r \in Resource, Create(l, r) PROVE VolumeStep
  BY <1>1 DEF Create, VolumeStep
<1>2. ASSUME NEW l \in Level, NEW r \in Resource, SetDeleteOnTermination(l, r) PROVE VolumeStep
  BY <1>2 DEF SetDeleteOnTermination, VolumeStep
<1>3. QED BY <1>1, <1>2
    DEF Next, CleanUp, CleanUpItem, CleanedUp, Poll, Ask, Answer, BeginClass, SetUp, TearDown, TearDownClass,
        WaitAvailable, Delete, VolumeStep

LEMMA VolumesTyped ==
  ASSUME Others, Next
  PROVE  volume' \in [Resource -> {"none", "kept", "bound"}]
<1>1. ASSUME NEW r \in Resource, Created(r) PROVE volume' \in [Resource -> {"none", "kept", "bound"}]
  BY <1>1 DEF Created, Others
<1>2. ASSUME NEW r \in Resource, Progress(r) PROVE volume' \in [Resource -> {"none", "kept", "bound"}]
  BY <1>2 DEF Progress, Others
<1>3. QED BY <1>1, <1>2, VolumeSteps DEF VolumeStep, Others

\* A root volume is bound to a server that is there, and goes with it.
LEMMA BoundKept ==
  ASSUME Trash, Others, Bound, Next
  PROVE  Bound'
<1> SUFFICES ASSUME NEW r \in Resource, volume'[r] = "bound" PROVE cloud'[r] \in Alive
  BY DEF Bound
<1>1. ASSUME volume[r] = "bound", cloud[r] \in Alive, cloud'[r] \notin Alive PROVE FALSE
  <2>1. ASSUME NEW q \in Resource, Progress(q) PROVE FALSE
    BY <1>1, <2>1 DEF Progress, Others, Alive
  <2>2. ASSUME NEW q \in Resource, Deleted(q) PROVE FALSE
    BY <1>1, <2>2 DEF Deleted, Others, Alive
  <2>3. ASSUME NEW q \in Resource, Created(q) PROVE FALSE
    BY <1>1, <2>3 DEF Created, Others, Alive
  <2>4. ASSUME NEW l \in Level, NEW q \in Resource, Create(l, q) PROVE FALSE
    BY <1>1, <2>3, <2>4 DEF Create
  <2>5. ASSUME NEW q \in Resource, Delete(q) PROVE FALSE
    BY <1>1, <2>2, <2>5 DEF Delete
  <2>6. ASSUME NEW l \in Level, CleanUpItem(l) PROVE FALSE
    <3>1. bin[l][NextKey(l)] \in Resource
      BY <2>6, NextKeyIsLast DEF CleanUpItem, Trash
    <3>2. QED BY <1>1, <2>2, <2>6, <3>1 DEF CleanUpItem
  <2>7. QED BY <1>1, <2>1, <2>4, <2>5, <2>6
      DEF Next, CleanUp, CleanedUp, Poll, Ask, Answer, BeginClass, SetUp, TearDown, TearDownClass, WaitAvailable,
          SetDeleteOnTermination
<1>2. CASE volume[r] = "bound"
  BY <1>1, <1>2 DEF Bound
<1>3. CASE volume[r] # "bound"
  <2>1. ASSUME NEW q \in Resource, Created(q) PROVE FALSE
    BY <1>3, <2>1 DEF Created, Others
  <2>2. ASSUME NEW q \in Resource, Progress(q) PROVE FALSE
    BY <1>3, <2>2 DEF Progress, Others
  <2>3. ASSUME NEW q \in Resource, cloud[q] \in Alive, UNCHANGED cloud,
               volume' = [volume EXCEPT ![q] = "bound"]
        PROVE  cloud'[r] \in Alive
    BY <1>3, <2>3 DEF Others
  <2>4. QED BY <1>3, <2>1, <2>2, <2>3, VolumeSteps DEF VolumeStep
<1>4. QED BY <1>2, <1>3

LEMMA TrustTyped ==
  ASSUME Trash, Others, Next
  PROVE  trusted' \subseteq Resource
<1>1. ASSUME NEW r \in Resource, Delete(r) PROVE trusted' \subseteq Resource
  BY <1>1 DEF Delete, Others
<1>2. ASSUME NEW l \in Level, CleanUpItem(l) PROVE trusted' \subseteq Resource
  <2>1. bin[l][NextKey(l)] \in Resource
    BY <1>2, NextKeyIsLast DEF CleanUpItem, Trash
  <2>2. QED BY <1>2, <2>1 DEF CleanUpItem, Others
<1>3. ASSUME NEW l \in Level, NEW r \in Resource, Create(l, r) PROVE trusted' \subseteq Resource
  BY <1>3 DEF Create, Others
<1>4. QED BY <1>1, <1>2, <1>3
    DEF Next, CleanUp, CleanedUp, Poll, Ask, Answer, Progress, BeginClass, SetUp, TearDown, TearDownClass,
        WaitAvailable, SetDeleteOnTermination, Others

LEMMA OthersKept ==
  ASSUME Trash, Others, Next
  PROVE  Others'
<1> DEFINE Goal == /\ phase' \in {"over", "idle", "setUpClass", "test", "tearDown", "tearDownClass"}
                   /\ classes' \in 0..MaxClasses /\ wait' \in Wait
                   /\ failures' \subseteq Resource /\ reports' \subseteq Resource
<1>1. ASSUME NEW l \in Level, NEW r \in Resource, Create(l, r) PROVE Goal
  <2>1. Failed(r) \/ UNCHANGED <<runner, wait, failures, reports>>
    BY <1>1 DEF Create
  <2>2. QED BY <2>1, FailedTyped DEF Others, runner
<1>2. ASSUME NEW r \in Resource, Delete(r) PROVE Goal
  <2>1. \/ Failed(r)
        \/ /\ UNCHANGED <<runner, failures, reports>>
           /\ wait' \in {StartWait("gone", r), NoWait}
    BY <1>2 DEF Delete
  <2>2. StartWait("gone", r) \in Wait /\ NoWait \in Wait
    BY StartWaitTyped DEF Wait
  <2>3. QED BY <2>1, <2>2, FailedTyped DEF Others, runner
<1>3. ASSUME NEW l \in Level, CleanUpItem(l) PROVE Goal
  <2>1. bin[l][NextKey(l)] \in Resource
    BY <1>3, NextKeyIsLast DEF CleanUpItem, Trash
  <2>2. StartWait("gone", bin[l][NextKey(l)]) \in Wait
    BY <2>1, StartWaitTyped
  <2>3. QED BY <1>3, <2>1, <2>2 DEF CleanUpItem, Others, runner
<1>4. ASSUME Answer PROVE Goal
  <2>1. wait # NoWait
    BY <1>4 DEF Answer
  <2>2. PICK delay \in 0..Delay :
          \/ WaitEnds \/ WaitFails
          \/ /\ wait' = [wait EXCEPT !.elapsed = wait.elapsed + delay + wait.interval,
                                     !.interval = @ + Interval, !.seen = ""]
             /\ UNCHANGED <<trash, runner, failures, reports>>
    BY <1>4 DEF Answer
  <2>3. CASE WaitEnds
    BY <2>3 DEF WaitEnds, Others, runner, Wait
  <2>4. CASE WaitFails
    <3>1. Failed(wait.of) \/ (wait' = NoWait /\ failures' = failures \cup {wait.of}
                              /\ UNCHANGED <<runner, reports>>)
      BY <2>4 DEF WaitFails
    <3>2. QED BY <3>1, <2>1, WaitTyped, FailedTyped DEF Others, runner, Wait
  <2>5. CASE /\ wait' = [wait EXCEPT !.elapsed = wait.elapsed + delay + wait.interval,
                                     !.interval = @ + Interval, !.seen = ""]
             /\ UNCHANGED <<trash, runner, failures, reports>>
    <3>1. wait.elapsed + delay + wait.interval \in Nat /\ wait.interval + Interval \in Nat
      <4>1. wait.elapsed \in Nat /\ wait.interval \in Nat
        BY <2>1, WaitTyped, Zenon
      <4>2. Interval \in Nat /\ delay \in Nat
        BY CleanUpAssumption
      <4>3. QED BY <4>1, <4>2
    <3>2. wait' \in Wait
      BY <2>1, <2>5, <3>1, WaitTyped DEF Wait
    <3>3. QED BY <2>5, <3>2 DEF Others, runner
  <2>6. QED BY <2>2, <2>3, <2>4, <2>5
<1>5. ASSUME Ask PROVE Goal
  <2>1. wait # NoWait /\ \E s \in {cloud[wait.of], "raised"} : wait' = [wait EXCEPT !.seen = s]
    BY <1>5 DEF Ask
  <2>2. cloud[wait.of] \in Status
    BY <2>1, WaitTyped DEF Others
  <2>3. wait' \in Wait
    BY <2>1, <2>2, WaitTyped DEF Wait
  <2>4. QED BY <1>5, <2>3 DEF Ask, Others, runner
<1>6. ASSUME NEW l \in Level, NEW r \in Resource, WaitAvailable(l, r) PROVE Goal
  BY <1>6, StartWaitTyped DEF WaitAvailable, Others, runner
<1>7. ASSUME NEW l \in Level, CleanedUp(l) PROVE Goal
  BY <1>7 DEF CleanedUp, Others
<1>8. ASSUME BeginClass PROVE Goal
  BY <1>8, CleanUpAssumption DEF BeginClass, Others
<1>9. ASSUME SetUp \/ TearDown \/ TearDownClass PROVE Goal
  BY <1>9 DEF SetUp, TearDown, TearDownClass, Others
<1>10. ASSUME NEW r \in Resource, Progress(r) PROVE Goal
  BY <1>10 DEF Progress, Others, runner
<1>11. ASSUME NEW l \in Level, NEW r \in Resource, SetDeleteOnTermination(l, r) PROVE Goal
  <2>1. Failed(r) \/ UNCHANGED <<runner, wait, failures, reports>>
    BY <1>11 DEF SetDeleteOnTermination
  <2>2. QED BY <2>1, FailedTyped DEF Others, runner
<1>12. Goal
  <2> HIDE DEF Goal
  <2> QED BY <1>1, <1>2, <1>3, <1>4, <1>5, <1>6, <1>7, <1>8, <1>9, <1>10, <1>11 DEF Next, CleanUp, Poll
<1>13. cloud' \in [Resource -> Status]
  BY CloudSteps, CloudTyped DEF Others
<1>14. volume' \in [Resource -> {"none", "kept", "bound"}]
  BY VolumesTyped
<1>15. trusted' \subseteq Resource
  BY TrustTyped
<1>16. QED BY <1>12, <1>13, <1>14, <1>15 DEF Others
-----------------------------------------------------------------------------
\* The test runner goes from phase to phase.
PhaseStep ==
  \/ phase' = phase /\ (failures' = failures \/ phase \in {"tearDown", "tearDownClass"})
  \/ phase = "over" /\ phase' = "setUpClass" /\ failures' = failures
  \/ phase \in {"setUpClass", "idle"} /\ phase' \in {"test", "tearDownClass"} /\ failures' = failures
  \/ phase = "test" /\ phase' = "tearDown" /\ failures' = failures
  \/ \E l \in Level : CleanedUp(l)

LEMMA FailedPhase ==
  ASSUME NEW r, Failed(r), phase \in {"setUpClass", "test"}
  PROVE  PhaseStep
BY DEF Failed, PhaseStep

LEMMA PhaseSteps ==
  ASSUME Next
  PROVE  PhaseStep
<1>1. ASSUME NEW l \in Level, NEW r \in Resource, Create(l, r) PROVE PhaseStep
  <2>1. phase \in {"setUpClass", "test"}
    BY <1>1, Phases DEF Create, Level
  <2>2. QED BY <1>1, <2>1, FailedPhase DEF Create, PhaseStep, runner
<1>2. ASSUME NEW r \in Resource, Delete(r) PROVE PhaseStep
  BY <1>2, FailedPhase DEF Delete, PhaseStep, runner
<1>3. ASSUME NEW l \in Level, CleanUpItem(l) PROVE PhaseStep
  <2>1. phase \in {"tearDown", "tearDownClass"} /\ phase' = phase
    BY <1>3, Phases DEF CleanUpItem, Level, runner
  <2>2. QED BY <2>1 DEF PhaseStep
<1>4. ASSUME Answer PROVE PhaseStep
  <2>1. WaitEnds \/ WaitFails \/ UNCHANGED <<trash, runner, failures, reports>>
    BY <1>4 DEF Answer
  <2>2. CASE WaitFails
    <3>1. CASE \E l \in Level : phase = Emptying[l]
      <4>1. phase \in {"tearDown", "tearDownClass"}
        BY <3>1, Phases DEF Level
      <4>2. phase' = phase
        BY <2>2, <4>1, Phases DEF WaitFails, runner
      <4>3. QED BY <4>1, <4>2 DEF PhaseStep
    <3>2. CASE ~ \E l \in Level : phase = Emptying[l]
      BY <2>2, <3>2, FailedPhase, Phases DEF WaitFails
    <3>3. QED BY <3>1, <3>2
  <2>3. QED BY <2>1, <2>2 DEF WaitEnds, PhaseStep, runner
<1>5. ASSUME NEW l \in Level, NEW r \in Resource, WaitAvailable(l, r) PROVE PhaseStep
  BY <1>5 DEF WaitAvailable, PhaseStep, runner
<1>6. CASE BeginClass \/ SetUp \/ TearDown \/ TearDownClass
  BY <1>6 DEF BeginClass, SetUp, TearDown, TearDownClass, PhaseStep
<1>7. ASSUME NEW r \in Resource, Progress(r) PROVE PhaseStep
  BY <1>7 DEF Progress, PhaseStep, runner
<1>8. CASE Ask
  BY <1>8 DEF Ask, PhaseStep, runner
<1>9. ASSUME NEW l \in Level, NEW r \in Resource, SetDeleteOnTermination(l, r) PROVE PhaseStep
  <2>1. phase \in {"setUpClass", "test"}
    BY <1>9, Phases DEF SetDeleteOnTermination, Level
  <2>2. QED BY <1>9, <2>1, FailedPhase DEF SetDeleteOnTermination, PhaseStep, runner
<1>10. QED BY <1>1, <1>2, <1>3, <1>4, <1>5, <1>6, <1>7, <1>8, <1>9 DEF Next, CleanUp, Poll, PhaseStep

\* Only a create call puts something into an empty bin.
LEMMA StaysEmpty ==
  ASSUME Trash, TrashStep, NEW x \in Level, DOMAIN bin[x] = {}, phase # Filling[x]
  PROVE  DOMAIN bin'[x] = {}
<1>1. ASSUME NEW l \in Level, NEW r \in Resource, Added(l, r) PROVE DOMAIN bin'[x] = {}
  BY <1>1 DEF Added, AddResourceCleanUp, Trash
<1>2. ASSUME NEW l \in Level, NEW k \in DOMAIN bin[l], Dropped(l, k) PROVE DOMAIN bin'[x] = {}
  BY <1>2 DEF Dropped, Trash
<1>3. CASE Emptied
  <2>1. DOMAIN EmptyBin = {}
    BY DEF EmptyBin
  <2>2. QED BY <1>3, <2>1 DEF Emptied, Trash
<1>4. QED BY <1>1, <1>2, <1>3 DEF TrashStep, Recounted, trash

LEMMA ShapeKept ==
  ASSUME Trash, Shape, TrashStep, PhaseStep
  PROVE  Shape'
<1>1. CASE \E l \in Level : CleanedUp(l)
  <2>1. PICK l \in Level : CleanedUp(l)
    BY <1>1
  <2>2. CASE l = "test"
    BY <2>1, <2>2, Phases DEF CleanedUp, Shape, trash
  <2>3. CASE l = "class"
    BY <2>1, <2>3, Phases DEF CleanedUp, Shape, trash
  <2>4. QED BY <2>2, <2>3 DEF Level
<1>2. CASE ~ \E l \in Level : CleanedUp(l)
  <2>1. phase' = "over" => DOMAIN bin'["class"] = {}
    BY <1>2, StaysEmpty, Phases DEF PhaseStep, Shape, Level
  <2>2. phase' \notin {"test", "tearDown"} => DOMAIN bin'["test"] = {}
    BY <1>2, StaysEmpty, Phases DEF PhaseStep, Shape, Level
  <2>3. phase' \notin {"tearDown", "tearDownClass"} => failures' = {}
    BY <1>2 DEF PhaseStep, Shape
  <2>4. QED BY <2>1, <2>2, <2>3 DEF Shape
<1>3. QED BY <1>1, <1>2
-----------------------------------------------------------------------------
LEMMA StartWaitSeen ==
  \A goal, r : /\ StartWait(goal, r).seen = "" /\ StartWait(goal, r).of = r
               /\ StartWait(goal, r).goal = goal
BY DEF StartWait

LEMMA FillingWaits ==
  ASSUME NEW goal, NEW r, wait' = StartWait(goal, r), phase' \in {"setUpClass", "test"}
  PROVE  Waiting'
<1>1. wait'.seen = ""
  BY StartWaitSeen
<1>2. \A l \in Level : phase' # Emptying[l]
  BY Phases DEF Level
<1>3. QED BY <1>1, <1>2 DEF Waiting

LEMMA EmptyingWaits ==
  ASSUME NEW l \in Level, phase' = phase, bin' = bin, phase = Emptying[l], DOMAIN bin[l] # {},
         wait' = StartWait("gone", bin[l][NextKey(l)])
  PROVE  Waiting'
<1>1. wait'.seen = "" /\ wait'.of = bin[l][NextKey(l)] /\ wait'.goal = "gone"
  BY StartWaitSeen
<1>2. phase' \in {"tearDown", "tearDownClass"} /\ \A x \in Level : phase' = Emptying[x] => x = l
  BY Phases DEF Level
<1>3. NextKey(l)' = NextKey(l)
  BY DEF NextKey
<1>4. QED BY <1>1, <1>2, <1>3 DEF Waiting

\* The wait goes on: the state it has seen, if any, is the one of now.
LEMMA WaitGoesOn ==
  ASSUME Waiting, wait # NoWait, phase' = phase, bin' = bin,
         wait'.of = wait.of, wait'.goal = wait.goal,
         wait'.seen = "gone" => cloud'[wait.of] = "gone"
  PROVE  Waiting'
<1>1. \A l \in Level : NextKey(l)' = NextKey(l)
  BY DEF NextKey
<1>2. QED BY <1>1 DEF Waiting

LEMMA WaitingKept ==
  ASSUME Trash, Others, Waiting, Next
  PROVE  Waiting'
<1>0. wait' = NoWait => Waiting'
  BY DEF Waiting
<1>1. ASSUME NEW l \in Level, NEW r \in Resource, Create(l, r) \/ SetDeleteOnTermination(l, r)
      PROVE  Waiting'
  <2>1. wait' = NoWait
    BY <1>1 DEF Create, SetDeleteOnTermination, Failed
  <2>2. QED BY <2>1, <1>0
<1>2. ASSUME NEW r \in Resource, Delete(r) PROVE Waiting'
  <2>1. wait' = NoWait \/ (wait' = StartWait("gone", r) /\ phase' = "test")
    BY <1>2 DEF Delete, Failed, runner
  <2>2. QED BY <2>1, <1>0, FillingWaits
<1>3. ASSUME NEW l \in Level, CleanUpItem(l) PROVE Waiting'
  <2>1. \/ wait' = NoWait
        \/ wait' = StartWait("gone", bin[l][NextKey(l)]) /\ bin' = bin /\ phase' = phase
    BY <1>3 DEF CleanUpItem, trash, runner
  <2>2. phase = Emptying[l] /\ DOMAIN bin[l] # {}
    BY <1>3 DEF CleanUpItem
  <2>3. QED BY <2>1, <2>2, <1>0, EmptyingWaits
<1>4. ASSUME Answer PROVE Waiting'
  <2>1. wait # NoWait /\ UNCHANGED cloud
    BY <1>4 DEF Answer
  <2>2. CASE \E delay \in 0..Delay :
               /\ wait' = [wait EXCEPT !.elapsed = wait.elapsed + delay + wait.interval,
                                       !.interval = @ + Interval, !.seen = ""]
               /\ UNCHANGED <<trash, runner, failures, reports>>
    <3>1. wait'.of = wait.of /\ wait'.goal = wait.goal /\ wait'.seen = ""
      BY <2>1, <2>2, WaitTyped
    <3>2. QED BY <2>1, <2>2, <3>1, WaitGoesOn DEF trash, runner
  <2>3. CASE WaitEnds \/ WaitFails
    BY <2>3, <1>0 DEF WaitEnds, WaitFails, Failed
  <2>4. QED BY <1>4, <2>2, <2>3 DEF Answer
<1>5. ASSUME Ask PROVE Waiting'
  <2>1. PICK s \in {cloud[wait.of], "raised"} : wait' = [wait EXCEPT !.seen = s]
    BY <1>5 DEF Ask
  <2>2. wait # NoWait /\ UNCHANGED <<cloud, trash, runner>>
    BY <1>5 DEF Ask
  <2>3. wait'.of = wait.of /\ wait'.goal = wait.goal /\ wait'.seen = s
    BY <2>1, <2>2, WaitTyped
  <2>4. QED BY <2>2, <2>3, WaitGoesOn DEF trash, runner
<1>6. ASSUME NEW l \in Level, NEW r \in Resource, WaitAvailable(l, r) PROVE Waiting'
  <2>1. PICK goal \in {"up", "works"} : wait' = StartWait(goal, r)
    BY <1>6 DEF WaitAvailable
  <2>2. phase' \in {"setUpClass", "test"}
    BY <1>6, Phases DEF WaitAvailable, Level, runner
  <2>3. QED BY <2>1, <2>2, FillingWaits
<1>7. ASSUME NEW r \in Resource, Progress(r) PROVE Waiting'
  <2>1. CASE wait = NoWait
    BY <1>7, <2>1, <1>0 DEF Progress
  <2>2. CASE wait # NoWait
    <3>1. UNCHANGED <<bin, phase, wait>>
      BY <1>7 DEF Progress, trash, runner
    <3>2. wait.of \in Resource
      BY <2>2, WaitTyped
    <3>3. cloud[wait.of] = "gone" => cloud'[wait.of] = "gone"
      BY <1>7, <3>2 DEF Progress, Others
    <3>4. QED BY <2>2, <3>1, <3>3, WaitGoesOn DEF Waiting
  <2>3. QED BY <2>1, <2>2
<1>8. ASSUME NEW l \in Level, CleanedUp(l) PROVE Waiting'
  BY <1>8, <1>0 DEF CleanedUp
<1>9. ASSUME BeginClass \/ SetUp \/ TearDown \/ TearDownClass PROVE Waiting'
  <2>1. wait = NoWait
    BY <1>9 DEF BeginClass, SetUp, TearDown, TearDownClass, Waiting
  <2>2. QED BY <1>9, <2>1, <1>0 DEF BeginClass, SetUp, TearDown, TearDownClass
<1>10. QED BY <1>1, <1>2, <1>3, <1>4, <1>5, <1>6, <1>7, <1>8, <1>9 DEF Next, CleanUp, Poll
-----------------------------------------------------------------------------
\* Nothing is forgotten.
Safe(r) == Kept(r) \/ Reported(r) \/ Leaving(r)

LEMMA ReportsStay ==
  ASSUME Next, NEW r, Reported(r)
  PROVE  Reported(r)'
<1>1. ASSUME NEW q, Failed(q), UNCHANGED trusted PROVE Reported(r)'
  BY <1>1 DEF Failed, Reported
<1>2. ASSUME NEW l \in Level, CleanUpItem(l) PROVE Reported(r)'
  BY <1>2 DEF CleanUpItem, Reported
<1>3. ASSUME WaitFails, UNCHANGED trusted PROVE Reported(r)'
  BY <1>1, <1>3 DEF WaitFails, Reported
<1>4. ASSUME Answer PROVE Reported(r)'
  BY <1>3, <1>4 DEF Answer, WaitEnds, Reported
<1>5. ASSUME NEW l \in Level, NEW q \in Resource, Create(l, q) PROVE Reported(r)'
  BY <1>1, <1>5 DEF Create, Reported
<1>6. ASSUME NEW q \in Resource, Delete(q) PROVE Reported(r)'
  BY <1>1, <1>6 DEF Delete, Reported
<1>7. ASSUME NEW l \in Level, NEW q \in Resource, SetDeleteOnTermination(l, q) PROVE Reported(r)'
  BY <1>1, <1>7 DEF SetDeleteOnTermination, Reported
<1>8. QED BY <1>2, <1>4, <1>5, <1>6, <1>7
  DEF Next, CleanUp, CleanedUp, Poll, Ask, Progress, BeginClass, SetUp, TearDown, TearDownClass,
      WaitAvailable, Reported

LEMMA KeptAdded ==
  ASSUME Trash, NEW l \in Level, NEW q \in Resource, AddResourceCleanUp(l, q)
  PROVE  Kept(q)' /\ \A r : Kept(r) => Kept(r)'
<1> DEFINE n == sequence[l] + 1
<1>1. n \notin DOMAIN bin[l]
  BY DEF Trash
<1>2. /\ bin'[l] = Put(bin[l], n, q)
      /\ \A x \in Level \ {l} : bin'[x] = bin[x]
  BY DEF AddResourceCleanUp, Trash
<1>3. /\ n \in DOMAIN bin'[l] /\ bin'[l][n] = q
      /\ \A k \in DOMAIN bin[l] : k \in DOMAIN bin'[l] /\ bin'[l][k] = bin[l][k]
  BY <1>1, <1>2 DEF Put
<1>4. \A x \in Level : \A k \in DOMAIN bin[x] : k \in DOMAIN bin'[x] /\ bin'[x][k] = bin[x][k]
  BY <1>2, <1>3
<1>5. QED BY <1>3, <1>4 DEF Kept

LEMMA KeptDropped ==
  ASSUME Trash, NEW l \in Level, NEW k \in DOMAIN bin[l], Dropped(l, k), NEW r, Kept(r)
  PROVE  Kept(r)' \/ r = bin[l][k]
<1>1. PICK x \in Level : \E j \in DOMAIN bin[x] : bin[x][j] = r
  BY DEF Kept
<1>2. PICK j \in DOMAIN bin[x] : bin[x][j] = r
  BY <1>1
<1>3. /\ bin'[l] = Drop(bin[l], k)
      /\ \A y \in Level \ {l} : bin'[y] = bin[y]
  BY DEF Dropped, Trash
<1>4. \A y \in DOMAIN bin[l] \ {k} : y \in DOMAIN bin'[l] /\ bin'[l][y] = bin[l][y]
  BY <1>3 DEF Drop, Restrict
<1>5. CASE x = l /\ j = k
  BY <1>2, <1>5
<1>6. CASE ~ (x = l /\ j = k)
  <2>1. j \in DOMAIN bin'[x] /\ bin'[x][j] = r
    BY <1>2, <1>3, <1>4, <1>6
  <2>2. QED BY <2>1 DEF Kept
<1>7. QED BY <1>5, <1>6

LEMMA KeptDisposed ==
  ASSUME Trash, NEW l \in Level, DOMAIN bin[l] # {}, Dispose(l), NEW r, Kept(r)
  PROVE  Kept(r)' \/ r = bin[l][NextKey(l)]
<1>1. NextKey(l) \in DOMAIN bin[l]
  BY NextKeyIsLast
<1>2. Dropped(l, NextKey(l))
  BY DEF Dispose, Dropped
<1>3. QED BY <1>1, <1>2, KeptDropped

LEMMA KeptSame ==
  ASSUME bin' = bin, NEW r, Kept(r)
  PROVE  Kept(r)'
BY DEF Kept

LEMMA NothingForgotten ==
  ASSUME Trash, Others, Shape, Waiting, Next, NEW r \in Resource, Safe(r), cloud'[r] \in Alive
  PROVE  Safe(r)'
<1>0. Reported(r)' => Safe(r)'
  BY DEF Safe
<1>1. SUFFICES ASSUME ~ Reported(r), Kept(r) \/ Leaving(r) PROVE Safe(r)'
  BY <1>0, ReportsStay DEF Safe
<1>2. ASSUME UNCHANGED <<bin, wait>> PROVE Safe(r)'
  BY <1>1, <1>2, KeptSame DEF Safe, Leaving
<1>3. ASSUME NEW q, Failed(q), UNCHANGED bin, wait = NoWait \/ q = wait.of PROVE Safe(r)'
  <2>1. CASE Kept(r)
    BY <2>1, <1>3, KeptSame DEF Safe
  <2>2. CASE Leaving(r)
    BY <2>2, <1>3, <1>0 DEF Leaving, Failed, Reported
  <2>3. QED BY <1>1, <2>1, <2>2
<1>4. ASSUME NEW l \in Level, NEW q \in Resource, Create(l, q) PROVE Safe(r)'
  <2>1. wait = NoWait
    BY <1>4 DEF Create
  <2>2. Kept(r)
    BY <1>1, <2>1 DEF Leaving
  <2>3. QED BY <1>3, <1>4, <2>1, <2>2, KeptAdded DEF Create, Safe, trash
<1>5. ASSUME NEW q \in Resource, Delete(q) PROVE Safe(r)'
  <2>1. wait = NoWait
    BY <1>5 DEF Delete
  <2>2. Kept(r)
    BY <1>1, <2>1 DEF Leaving
  <2>3. ASSUME NEW k \in DOMAIN bin["test"], bin["test"][k] = q,
               bin' = [bin EXCEPT !["test"] = Drop(@, k)], UNCHANGED sequence,
               wait' = StartWait("gone", q) \/ trusted' = trusted \cup {q}
        PROVE  Safe(r)'
    <3>1. Kept(r)' \/ r = q
      BY <2>2, <2>3, KeptDropped DEF Dropped, Level
    <3>2. CASE r = q /\ wait' = StartWait("gone", q)
      <4>1. wait' = StartWait("gone", r)
        BY <3>2
      <4>2. wait'.goal = "gone" /\ wait'.of = r /\ wait' # NoWait
        BY <4>1, StartWaitSeen DEF StartWait, NoWait
      <4>3. QED BY <4>2 DEF Safe, Leaving
    <3>3. CASE r = q /\ trusted' = trusted \cup {q}
      BY <3>3, <1>0 DEF Reported
    <3>4. QED BY <2>3, <3>1, <3>2, <3>3 DEF Safe
  <2>4. QED BY <1>3, <1>5, <2>1, <2>3 DEF Delete, trash
<1>6. ASSUME NEW l \in Level, CleanUpItem(l) PROVE Safe(r)'
  <2> DEFINE q == bin[l][NextKey(l)]
  <2>1. wait = NoWait /\ DOMAIN bin[l] # {} /\ UNCHANGED runner
    BY <1>6 DEF CleanUpItem
  <2>2. Kept(r)
    BY <1>1, <2>1 DEF Leaving
  <2>3. CASE UNCHANGED trash
    BY <2>2, <2>3, KeptSame DEF Safe, trash
  <2>4. CASE Dispose(l)
    <3>1. Kept(r)' \/ r = q
      BY <2>1, <2>2, <2>4, KeptDisposed
    <3>3. CASE cloud[q] \notin Alive /\ UNCHANGED cloud
      BY <3>1, <3>3 DEF Safe
    <3>4. CASE reports' = reports \cup {q} \/ failures' = failures \cup {q} \/ trusted' = trusted \cup {q}
      BY <3>1, <3>4, <1>0 DEF Safe, Reported
    <3>5. \/ UNCHANGED trash
          \/ cloud[q] \notin Alive /\ UNCHANGED cloud
          \/ reports' = reports \cup {q} \/ failures' = failures \cup {q} \/ trusted' = trusted \cup {q}
      BY <1>6 DEF CleanUpItem
    <3>6. QED BY <2>3, <3>3, <3>4, <3>5
  <2>5. QED BY <1>6, <2>3, <2>4 DEF CleanUpItem
<1>7. ASSUME WaitEnds, Reached, wait # NoWait, UNCHANGED cloud PROVE Safe(r)'
  <2>1. ~ Leaving(r)
    BY <1>7 DEF Leaving, Reached, Waiting, Alive
  <2>2. ASSUME NEW l \in Level, phase = Emptying[l], Dispose(l) PROVE Safe(r)'
    <3>1. /\ DOMAIN bin[l] # {} /\ wait.of = bin[l][NextKey(l)] /\ wait.goal = "gone"
      BY <1>7, <2>2 DEF Waiting
    <3>2. cloud'[wait.of] = "gone"
      BY <1>7, <3>1 DEF Reached, Waiting
    <3>3. Kept(r)' \/ r = wait.of
      BY <1>1, <2>1, <2>2, <3>1, KeptDisposed
    <3>4. QED BY <3>2, <3>3 DEF Safe, Alive
  <2>3. CASE UNCHANGED trash
    BY <1>1, <2>1, <2>3, KeptSame DEF Safe, trash
  <2>4. QED BY <1>7, <2>2, <2>3 DEF WaitEnds
<1>8. ASSUME WaitFails, wait # NoWait PROVE Safe(r)'
  <2>1. ASSUME NEW l \in Level, phase = Emptying[l], Dispose(l), failures' = failures \cup {wait.of}
        PROVE  Safe(r)'
    <3>1. /\ DOMAIN bin[l] # {} /\ wait.of = bin[l][NextKey(l)]
      BY <1>8, <2>1 DEF Waiting
    <3>2. Leaving(r) => r = wait.of
      BY DEF Leaving
    <3>3. Kept(r)' \/ r = wait.of
      BY <1>1, <2>1, <3>1, <3>2, KeptDisposed
    <3>4. QED BY <2>1, <3>3, <1>0 DEF Safe, Reported
  <2>2. QED BY <1>3, <1>8, <2>1 DEF WaitFails, trash
<1>9. ASSUME NEW s, NEW e, NEW i, wait # NoWait, UNCHANGED bin,
             \/ wait' = [wait EXCEPT !.elapsed = e, !.interval = i, !.seen = s]
             \/ wait' = [wait EXCEPT !.seen = s]
      PROVE  Safe(r)'
  <2>1. wait'.goal = wait.goal /\ wait'.of = wait.of /\ wait' # NoWait
    BY <1>9, WaitTyped DEF NoWait
  <2>2. QED BY <1>1, <1>9, <2>1, KeptSame DEF Safe, Leaving
<1>10. ASSUME Poll PROVE Safe(r)'
  <2>1. CASE Ask
    BY <2>1, <1>9 DEF Ask, trash
  <2>2. CASE Answer
    BY <2>2, <1>7, <1>8, <1>9 DEF Answer, trash
  <2>3. QED BY <1>10, <2>1, <2>2 DEF Poll
<1>11. ASSUME NEW l \in Level, NEW q \in Resource, WaitAvailable(l, q) PROVE Safe(r)'
  BY <1>1, <1>11, KeptSame DEF WaitAvailable, Safe, Leaving, trash
<1>12. CASE SetUp
  <2>1. DOMAIN bin["test"] = {} /\ wait = NoWait /\ "test" \in Level /\ "class" \in Level
    BY <1>12 DEF SetUp, Shape, Level
  <2>2. bin'["class"] = bin["class"]
    BY <1>12, <2>1 DEF SetUp, Trash
  <2>3. \E k \in DOMAIN bin["class"] : bin["class"][k] = r
    BY <1>1, <2>1 DEF Leaving, Kept, Level
  <2>4. QED BY <2>1, <2>2, <2>3 DEF Safe, Kept
<1>13. ASSUME NEW l \in Level, CleanedUp(l) PROVE Safe(r)'
  BY <1>13, <1>2 DEF CleanedUp, trash
<1>14. CASE BeginClass \/ TearDown \/ TearDownClass
  BY <1>14, <1>2 DEF BeginClass, TearDown, TearDownClass, trash
<1>15. ASSUME NEW q \in Resource, Progress(q) PROVE Safe(r)'
  BY <1>15, <1>2 DEF Progress, trash
<1>16. ASSUME NEW l \in Level, NEW q \in Resource, SetDeleteOnTermination(l, q) PROVE Safe(r)'
  BY <1>2, <1>3, <1>16 DEF SetDeleteOnTermination, trash
<1>17. QED BY <1>4, <1>5, <1>6, <1>10, <1>11, <1>12, <1>13, <1>14, <1>15, <1>16 DEF Next, CleanUp
-----------------------------------------------------------------------------
\* Order: what a resource lives in was there before it, and has a smaller key.

LEMMA NoneIsOver ==
  ASSUME Others, CloudStep, NEW r \in Resource, cloud[r] # "none"
  PROVE  cloud'[r] # "none"
BY DEF Others, CloudStep, Created

LEMMA NeedsFirstKept ==
  ASSUME Others, CloudStep, NeedsFirst
  PROVE  NeedsFirst'
<1> SUFFICES ASSUME NEW r \in Resource, cloud'[r] # "none", NEW n \in Needs[r]
             PROVE  cloud'[n] # "none"
  BY DEF NeedsFirst
<1>1. n \in Resource
  BY CleanUpAssumption
<1>2. cloud[r] # "none" \/ Created(r)
  BY DEF CloudStep, Created, Others
<1>3. CASE cloud[r] # "none"
  BY <1>1, <1>3, NoneIsOver DEF NeedsFirst
<1>4. CASE Created(r)
  <2>1. cloud[n] # "none"
    BY <1>4 DEF Created
  <2>2. QED BY <1>1, <2>1, NoneIsOver
<1>5. QED BY <1>2, <1>3, <1>4

\* The bins of a step that adds nothing are parts of the bins before.
LEMMA NothingNew ==
  ASSUME Trash, TrashStep, NEW x \in Level,
         ~ \E l \in Level, r \in Resource : Added(l, r)
  PROVE  DOMAIN bin'[x] \subseteq DOMAIN bin[x] /\ \A k \in DOMAIN bin'[x] : bin'[x][k] = bin[x][k]
<1>1. CASE UNCHANGED trash \/ Recounted
  BY <1>1 DEF trash, Recounted
<1>2. ASSUME NEW l \in Level, NEW k \in DOMAIN bin[l], Dropped(l, k)
      PROVE  DOMAIN bin'[x] \subseteq DOMAIN bin[x] /\ \A j \in DOMAIN bin'[x] : bin'[x][j] = bin[x][j]
  <2>1. CASE x = l
    <3>1. bin'[x] = Drop(bin[x], k)
      BY <1>2, <2>1 DEF Dropped, Trash
    <3>2. QED BY <3>1 DEF Drop, Restrict
  <2>2. CASE x # l
    BY <1>2, <2>2 DEF Dropped, Trash
  <2>3. QED BY <2>1, <2>2
<1>3. CASE Emptied
  <2>1. DOMAIN EmptyBin = {}
    BY DEF EmptyBin
  <2>2. QED BY <1>3, <2>1 DEF Emptied, Trash
<1>4. QED BY <1>1, <1>2, <1>3 DEF TrashStep

LEMMA OrderedKept ==
  ASSUME Trash, Others, Shape, TrashStep, CloudStep, Ordered
  PROVE  Ordered'
<1>1. NeedsFirst'
  BY NeedsFirstKept DEF Ordered
<1>2. CASE ~ \E l \in Level, r \in Resource : Added(l, r)
  <2>1. ASSUME NEW l \in Level, NEW k \in DOMAIN bin'[l] PROVE cloud'[bin'[l][k]] # "none"
    <3>1. k \in DOMAIN bin[l] /\ bin'[l][k] = bin[l][k]
      BY <1>2, <2>1, NothingNew
    <3>2. bin[l][k] \in Resource /\ cloud[bin[l][k]] # "none"
      BY <3>1 DEF Trash, Ordered, KeptOnce
    <3>3. QED BY <3>1, <3>2, NoneIsOver
  <2>2. ASSUME NEW l \in Level, NEW j \in DOMAIN bin'[l], NEW k \in DOMAIN bin'[l],
               bin'[l][j] \in Needs[bin'[l][k]]
        PROVE  j < k
    BY <1>2, <2>2, NothingNew DEF Ordered, KeysAscend
  <2>3. ASSUME NEW k \in DOMAIN bin'["class"], NEW j \in DOMAIN bin'["test"]
        PROVE  bin'["test"][j] \notin Needs[bin'["class"][k]]
    <3>1. "class" \in Level /\ "test" \in Level
      BY DEF Level
    <3>2. /\ k \in DOMAIN bin["class"] /\ bin'["class"][k] = bin["class"][k]
          /\ j \in DOMAIN bin["test"] /\ bin'["test"][j] = bin["test"][j]
      BY <1>2, <3>1, NothingNew
    <3>3. QED BY <3>2 DEF Ordered, ClassFirst
  <2>4. QED BY <1>1, <2>1, <2>2, <2>3 DEF Ordered, KeptOnce, KeysAscend, ClassFirst
<1>3. ASSUME NEW l \in Level, NEW r \in Resource, Added(l, r) PROVE Ordered'
  <2> DEFINE n == sequence[l] + 1
  <2>1. sequence[l] \in Int /\ DOMAIN bin[l] \subseteq 0..sequence[l] /\ n \notin DOMAIN bin[l]
    BY DEF Trash
  <2>2. bin'[l] = Put(bin[l], n, r) /\ \A x \in Level \ {l} : bin'[x] = bin[x]
    BY <1>3 DEF Added, AddResourceCleanUp, Trash
  <2>3. /\ DOMAIN bin'[l] = DOMAIN bin[l] \cup {n} /\ bin'[l][n] = r
        /\ \A k \in DOMAIN bin[l] : bin'[l][k] = bin[l][k]
    BY <2>1, <2>2 DEF Put
  \* The new resource is in nothing that is kept, nor in itself.
  <2>4. ASSUME NEW x \in Level, NEW k \in DOMAIN bin[x] PROVE r \notin Needs[bin[x][k]]
    <3>1. bin[x][k] \in Resource /\ cloud[bin[x][k]] # "none"
      BY DEF Trash, Ordered, KeptOnce
    <3>2. QED BY <1>3, <3>1 DEF Added, Ordered, NeedsFirst
  <2>5. r \notin Needs[r] /\ cloud'[r] # "none"
    BY <1>3 DEF Added, Created, Others
  <2>6. ASSUME NEW x \in Level, NEW k \in DOMAIN bin'[x] PROVE cloud'[bin'[x][k]] # "none"
    <3>1. CASE x = l /\ k = n
      BY <2>3, <2>5, <3>1
    <3>2. CASE ~ (x = l /\ k = n)
      <4>1. k \in DOMAIN bin[x] /\ bin'[x][k] = bin[x][k]
        BY <2>2, <2>3, <2>6, <3>2
      <4>2. bin[x][k] \in Resource /\ cloud[bin[x][k]] # "none"
        BY <4>1 DEF Trash, Ordered, KeptOnce
      <4>3. QED BY <4>1, <4>2, NoneIsOver
    <3>3. QED BY <3>1, <3>2
  <2>7. ASSUME NEW x \in Level, NEW j \in DOMAIN bin'[x], NEW k \in DOMAIN bin'[x],
               bin'[x][j] \in Needs[bin'[x][k]]
        PROVE  j < k
    <3>1. CASE x # l
      BY <2>2, <2>7, <3>1 DEF Ordered, KeysAscend
    <3>2. CASE x = l
      <4>1. k = n => j # n
        BY <2>3, <2>5, <2>7, <3>2
      <4>2. j = n => k = n
        BY <2>3, <2>4, <2>7, <3>2
      <4>3. CASE k = n
        BY <2>1, <2>3, <3>2, <4>1, <4>3
      <4>4. CASE k # n
        BY <2>3, <2>7, <3>2, <4>2, <4>4 DEF Ordered, KeysAscend
      <4>5. QED BY <4>3, <4>4
    <3>3. QED BY <3>1, <3>2
  <2>8. ASSUME NEW k \in DOMAIN bin'["class"], NEW j \in DOMAIN bin'["test"]
        PROVE  bin'["test"][j] \notin Needs[bin'["class"][k]]
    <3>1. CASE l = "class"
      <4>1. DOMAIN bin["test"] = {} /\ "test" \in Level \ {l}
        BY <1>3, <3>1, Phases DEF Added, Shape, Level
      <4>2. QED BY <2>2, <2>8, <4>1
    <3>2. CASE l = "test"
      <4>1. "class" \in Level \ {l}
        BY <3>2 DEF Level
      <4>2. k \in DOMAIN bin["class"] /\ bin'["class"][k] = bin["class"][k]
        BY <2>2, <2>8, <4>1
      <4>3. CASE j = n
        BY <2>3, <2>4, <3>2, <4>1, <4>2, <4>3
      <4>4. CASE j # n
        BY <2>3, <2>8, <3>2, <4>2, <4>4 DEF Ordered, ClassFirst
      <4>5. QED BY <4>3, <4>4
    <3>3. QED BY <3>1, <3>2 DEF Level
  <2>9. QED BY <1>1, <2>6, <2>7, <2>8 DEF Ordered, KeptOnce, KeysAscend, ClassFirst
<1>4. QED BY <1>2, <1>3
-----------------------------------------------------------------------------
LEMMA InitInv == Init => IInv
<1> SUFFICES ASSUME Init PROVE IInv
  OBVIOUS
<1>1. DOMAIN EmptyBin = {} /\ \A l \in Level : bin[l] = EmptyBin
  BY DEF EmptyBin, Init
<1>2. Trash
  BY <1>1 DEF Init, Trash
<1>3. Others
  BY CleanUpAssumption DEF Init, Others, Status, Wait
<1>4. Shape /\ Waiting /\ Accounted
  BY <1>1 DEF Init, Shape, Waiting, Accounted, Level, Alive
<1>5. Bound
  BY DEF Init, Bound
<1>6. Ordered
  BY <1>1 DEF Init, Ordered, NeedsFirst, KeptOnce, KeysAscend, ClassFirst, Level
<1>7. QED BY <1>2, <1>3, <1>4, <1>5, <1>6 DEF IInv

\* What is new in the cloud was added to a bin, or its creation failed.
LEMMA NewIsSafe ==
  ASSUME Trash, Others, Next, NEW r \in Resource, cloud[r] \notin Alive, cloud'[r] \in Alive
  PROVE  Safe(r)'
<1>1. ASSUME NEW l \in Level, NEW q \in Resource, Create(l, q) PROVE Safe(r)'
  <2>1. Created(q) /\ r = q
    BY <1>1 DEF Create, Created, Others
  <2>2. CASE AddResourceCleanUp(l, q)
    BY <2>1, <2>2, KeptAdded DEF Safe
  <2>3. CASE Failed(q)
    BY <2>1, <2>3 DEF Failed, Safe, Reported
  <2>4. QED BY <1>1, <2>1, <2>2, <2>3 DEF Create
<1>2. ASSUME NEW q \in Resource, Deleted(q) PROVE FALSE
  BY <1>2 DEF Deleted, Others
<1>3. ASSUME NEW q \in Resource, Delete(q) PROVE FALSE
  BY <1>2, <1>3 DEF Delete
<1>4. ASSUME NEW l \in Level, CleanUpItem(l) PROVE FALSE
  <2>1. bin[l][NextKey(l)] \in Resource
    BY <1>4, NextKeyIsLast DEF CleanUpItem, Trash
  <2>2. QED BY <1>2, <1>4, <2>1 DEF CleanUpItem
<1>5. ASSUME NEW q \in Resource, Progress(q) PROVE FALSE
  BY <1>5 DEF Progress, Others, Alive
<1>6. QED BY <1>1, <1>3, <1>4, <1>5
    DEF Next, CleanUp, CleanedUp, Poll, Ask, Answer, BeginClass, SetUp, TearDown, TearDownClass, WaitAvailable,
        SetDeleteOnTermination

LEMMA IInvKept == IInv /\ [Next]_vars => IInv'
<1> SUFFICES ASSUME IInv, [Next]_vars PROVE IInv'
  OBVIOUS
<1>1. CASE UNCHANGED vars
  <2>1. Trash' /\ Others' /\ Shape'
    BY <1>1 DEF IInv, Trash, Others, Shape, vars, runner, trash
  <2>2. Waiting' /\ Accounted' /\ Bound'
    BY <1>1 DEF IInv, Waiting, Accounted, Reported, Bound, Kept, Leaving, NextKey, vars, runner, trash
  <2>3. Ordered'
    BY <1>1 DEF IInv, Ordered, NeedsFirst, KeptOnce, KeysAscend, ClassFirst, vars, runner, trash
  <2>4. QED BY <2>1, <2>2, <2>3 DEF IInv
<1>2. CASE Next
  <2>1. TrashStep /\ CloudStep /\ PhaseStep
    BY <1>2, TrashSteps, CloudSteps, PhaseSteps DEF IInv
  <2>2. Trash' /\ Shape'
    BY <2>1, TrashKept, ShapeKept DEF IInv
  <2>3. Others' /\ Waiting'
    BY <1>2, OthersKept, WaitingKept DEF IInv
  <2>4. Ordered'
    BY <2>1, OrderedKept DEF IInv
  <2>5. ASSUME NEW r \in Resource, cloud'[r] \in Alive PROVE Safe(r)'
    <3>1. CASE cloud[r] \in Alive
      BY <1>2, <2>5, <3>1, NothingForgotten DEF IInv, Accounted, Safe
    <3>2. CASE cloud[r] \notin Alive
      BY <1>2, <2>5, <3>2, NewIsSafe DEF IInv
    <3>3. QED BY <3>1, <3>2
  <2>6. Accounted'
    BY <2>5 DEF Accounted, Safe
  <2>7. Bound'
    BY <1>2, BoundKept DEF IInv
  <2>8. QED BY <2>2, <2>3, <2>4, <2>6, <2>7 DEF IInv
<1>3. QED BY <1>1, <1>2

LEMMA InvariantHolds == Spec => []IInv
BY InitInv, IInvKept, PTL DEF Spec

\* Every reachable state has the types of TypeOK (the variables of ResourceCleanUp).
THEOREM TypesHold == Spec => []TypeOK
<1>1. IInv => TypeOK
  <2>1. Others => /\ phase \in {"over", "idle"} \cup Range(Filling) \cup Range(Emptying)
                  /\ cloud \in [Resource -> Status] /\ classes \in 0..MaxClasses /\ wait \in Wait
                  /\ failures \subseteq Resource /\ reports \subseteq Resource /\ trusted \subseteq Resource
                  /\ volume \in [Resource -> {"none", "kept", "bound"}]
    BY Phases DEF Others
  <2>2. QED BY <2>1 DEF IInv, Trash, TypeOK
<1>2. QED BY <1>1, InvariantHolds, PTL

\* When a test class is over, what is left in the cloud was reported, whatever failed,
\* or its deletion was accepted and nobody waited for it.
THEOREM NothingLeaksSilently == Spec => []LeaksAreReported
<1>1. IInv => LeaksAreReported
  <2> SUFFICES ASSUME IInv, phase = "over", NEW r \in Resource, cloud[r] \in Alive
               PROVE  r \in reports \cup trusted
    BY DEF LeaksAreReported, IInv, Bound
  <2>1. DOMAIN bin["class"] = {} /\ DOMAIN bin["test"] = {} /\ failures = {}
    BY DEF IInv, Shape
  <2>2. wait = NoWait
    BY DEF IInv, Waiting
  <2>3. ~ Kept(r) /\ ~ Leaving(r)
    BY <2>1, <2>2 DEF Kept, Leaving, Level
  <2>4. QED BY <2>1, <2>3 DEF IInv, Accounted, Reported
<1>2. QED BY <1>1, InvariantHolds, PTL

\* A clean-up meets a dependent that is still there only after a report, a failure or a
\* deletion that nobody waited for.
THEOREM CleanUpsAreOrdered == Spec => []DependentsGoFirst
<1>1. IInv => DependentsGoFirst
  <2> SUFFICES ASSUME IInv, NEW l \in Level, phase = Emptying[l], wait = NoWait, DOMAIN bin[l] # {},
                      NEW d \in Resource, bin[l][NextKey(l)] \in Needs[d], cloud[d] \in Alive
               PROVE  d \in reports \cup failures \cup trusted
    BY DEF DependentsGoFirst, Dependents
  <2>1. NextKey(l) \in DOMAIN bin[l] /\ \A k \in DOMAIN bin[l] : NextKey(l) >= k
    BY NextKeyIsLast DEF IInv
  <2>2. ~ Leaving(d)
    BY DEF Leaving
  <2>3. ASSUME NEW x \in Level, NEW k \in DOMAIN bin[x], bin[x][k] = d PROVE FALSE
    <3>1. CASE x = l
      <4>1. NextKey(l) < k
        BY <2>1, <2>3, <3>1 DEF IInv, Ordered, KeysAscend
      <4>2. NextKey(l) \in Int /\ k \in Int
        BY <2>1, <2>3, <3>1 DEF IInv, Trash
      <4>3. QED BY <2>1, <2>3, <3>1, <4>1, <4>2
    <3>2. CASE x = "test" /\ l = "class"
      BY <2>3, <3>2, Phases DEF IInv, Shape
    <3>3. CASE x = "class" /\ l = "test"
      BY <2>1, <2>3, <3>3 DEF IInv, Ordered, ClassFirst
    <3>4. QED BY <3>1, <3>2, <3>3 DEF Level
  <2>4. ~ Kept(d)
    BY <2>3 DEF Kept
  <2>5. QED BY <2>2, <2>4 DEF IInv, Accounted, Reported
<1>2. QED BY <1>1, InvariantHolds, PTL

\* A key is never counted again while a clean-up has it.
THEOREM CleanUpsKeepTheirKeys == Spec => NoCleanUpIsOverwritten
<1>1. IInv /\ [Next]_vars =>
        [\A l \in Level : \A k \in DOMAIN bin[l] \cap DOMAIN bin'[l] : bin'[l][k] = bin[l][k]]_vars
  <2> SUFFICES ASSUME IInv, Next
               PROVE  \A l \in Level : \A k \in DOMAIN bin[l] \cap DOMAIN bin'[l] : bin'[l][k] = bin[l][k]
    OBVIOUS
  <2>1. TrashStep
    BY TrashSteps DEF IInv
  <2>2. QED BY <2>1, NothingOverwritten DEF IInv
<1>2. QED BY <1>1, InvariantHolds, PTL DEF Spec, NoCleanUpIsOverwritten

LEMMA WaitBoundKept == IInv /\ BoundedWait /\ [Next]_vars => BoundedWait'
<1> SUFFICES ASSUME IInv, BoundedWait, [Next]_vars, wait' # NoWait, wait' # wait
             PROVE  wait'.elapsed <= Timeout + wait'.interval - Interval
  BY DEF BoundedWait
<1>1. ASSUME NEW goal, NEW r, wait' = StartWait(goal, r)
      PROVE  wait'.elapsed <= Timeout + wait'.interval - Interval
  <2>1. wait'.elapsed = 0 /\ wait'.interval = Interval
    BY <1>1 DEF StartWait
  <2>2. QED BY <2>1, CleanUpAssumption
<1>2. CASE Ask
  <2>1. PICK s \in {cloud[wait.of], "raised"} : wait' = [wait EXCEPT !.seen = s]
    BY <1>2 DEF Ask
  <2>2. wait # NoWait
    BY <1>2 DEF Ask
  <2>3. wait'.elapsed = wait.elapsed /\ wait'.interval = wait.interval
    BY <2>1, <2>2, WaitTyped DEF IInv
  <2>4. QED BY <2>2, <2>3 DEF BoundedWait
<1>3. CASE Answer
  <2>1. wait # NoWait
    BY <1>3 DEF Answer
  <2>2. PICK delay \in 0..Delay :
          /\ ~ TimedOut(wait.elapsed + delay)
          /\ wait' = [wait EXCEPT !.elapsed = wait.elapsed + delay + wait.interval,
                                  !.interval = @ + Interval, !.seen = ""]
    BY <1>3 DEF Answer, WaitEnds, WaitFails, Failed
  <2>3. wait.elapsed \in Nat /\ wait.interval \in Nat
    BY <2>1, WaitTyped, Zenon DEF IInv
  <2>4. /\ wait'.elapsed = wait.elapsed + delay + wait.interval
        /\ wait'.interval = wait.interval + Interval
    BY <2>1, <2>2, WaitTyped DEF IInv
  <2>5. wait.elapsed + delay <= Timeout
    BY <2>2, <2>3, CleanUpAssumption DEF TimedOut
  <2>6. QED BY <2>3, <2>4, <2>5, CleanUpAssumption
<1>4. CASE Next /\ ~ Ask /\ ~ Answer
  <2>1. \E goal, r : wait' = StartWait(goal, r)
    <3>1. ASSUME NEW l \in Level, NEW r \in Resource, Create(l, r) PROVE FALSE
      BY <3>1 DEF Create, Failed
    <3>2. ASSUME NEW r \in Resource, Delete(r) PROVE wait' = StartWait("gone", r)
      BY <3>2 DEF Delete, Failed
    <3>3. ASSUME NEW l \in Level, CleanUpItem(l) PROVE wait' = StartWait("gone", bin[l][NextKey(l)])
      BY <3>3 DEF CleanUpItem
    <3>4. ASSUME NEW l \in Level, NEW r \in Resource, SetDeleteOnTermination(l, r) PROVE FALSE
      BY <3>4 DEF SetDeleteOnTermination, Failed
    <3>5. QED BY <1>4, <3>1, <3>2, <3>3, <3>4
        DEF Next, CleanUp, CleanedUp, Poll, Progress, BeginClass, SetUp, TearDown, TearDownClass, WaitAvailable
  <2>2. QED BY <1>1, <2>1
<1>5. QED BY <1>2, <1>3, <1>4 DEF vars

\* A wait ends with the request it began before its time was over.
THEOREM WaitsAreBounded == Spec => []BoundedWait
<1>1. Init => BoundedWait
  BY DEF Init, BoundedWait
<1>2. QED BY <1>1, WaitBoundKept, InvariantHolds, PTL DEF Spec
=============================================================================
