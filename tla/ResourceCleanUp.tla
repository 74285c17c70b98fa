-------------------------- MODULE ResourceCleanUp --------------------------
(***************************************************************************)
(* The clean-up of the functional tests, EC2TestCase and EC2Waiter of      *)
(* src/jcsapi/tests/functional/base.py: test classes run one after another *)
(* in a process, create resources in a cloud that needs its time, and give *)
(* them back in tearDown and tearDownClass, whatever failed before.        *)
(*                                                                         *)
(* A clean-up is the deletion of one resource; a trash bin maps the keys   *)
(* addResourceCleanUp returned to resources.  All classes share one class  *)
(* level bin, and each counts its keys from -1.                            *)
(***************************************************************************)
EXTENDS Integers, FiniteSets, FiniteSetsExt, Functions

CONSTANTS
  Resource,    \* what tests create: networks, servers, volumes, key pairs ...
  Needs,       \* resource |-> those it lives in
  Waited,      \* resources whose deletion is in _CLEANUP_WAITERS
  Rooted,      \* those that come with a root volume: servers
  Timeout,     \* CONF.aws.build_timeout
  Interval,    \* CONF.aws.build_interval
  Delay,       \* bound on the time a request takes
  MaxClasses   \* bound on the number of test classes

ASSUME CleanUpAssumption ==
  /\ Needs \in [Resource -> SUBSET Resource] /\ Waited \subseteq Resource /\ Rooted \subseteq Resource
  /\ Timeout \in Nat /\ Interval \in Nat \ {0} /\ Delay \in Nat /\ MaxClasses \in Nat

VARIABLES
  cloud,       \* the state of every resource
  volume,      \* its root volume: "none", "kept" beyond it, or "bound" to go with it
  bin,         \* _global_resource_trash_bin and the test's _resource_trash_bin
  sequence,    \* _global_sequence and _sequence
  phase,       \* where the test runner is
  classes,     \* the number of classes begun
  wait,        \* the state of the EC2Waiter in use
  failures,    \* the resources whose clean-up failed, of this call of cleanUp
  reports,     \* history: the resources something was reported about
  trusted      \* history: those whose deletion was accepted and not waited for

vars == <<cloud, volume, bin, sequence, phase, classes, wait, failures, reports, trusted>>
runner == <<phase, classes>>
trash == <<bin, sequence>>

Level == {"class", "test"}
\* The phases whose resources go to a bin, and those that empty it.
Filling == [class |-> "setUpClass", test |-> "test"]
Emptying == [class |-> "tearDownClass", test |-> "tearDown"]
Alive == {"pending", "up", "error", "deleting"}
Status == Alive \cup {"none", "gone"}

NoWait == [goal |-> "none"]
Wait == {NoWait} \cup
  [goal : {"up", "works", "gone"}, of : Resource, interval : Nat, elapsed : Nat,
   seen : Status \cup {"", "raised"}]
StartWait(goal, r) ==
  [goal |-> goal, of |-> r, interval |-> Interval, elapsed |-> 0, seen |-> ""]

EmptyBin == [k \in {} |-> k]
Put(f, k, r) == [x \in DOMAIN f \cup {k} |-> IF x = k THEN r ELSE f[x]]
Drop(f, k) == Restrict(f, DOMAIN f \ {k})

TypeOK ==
  /\ cloud \in [Resource -> Status]
  /\ \A l \in Level : /\ DOMAIN bin[l] \subseteq 0..sequence[l]
                      /\ \A k \in DOMAIN bin[l] : bin[l][k] \in Resource
  /\ sequence \in [Level -> Int]
  /\ phase \in {"over", "idle"} \cup Range(Filling) \cup Range(Emptying)
  /\ classes \in 0..MaxClasses
  /\ wait \in Wait
  /\ failures \subseteq Resource /\ reports \subseteq Resource /\ trusted \subseteq Resource
  /\ volume \in [Resource -> {"none", "kept", "bound"}]
-----------------------------------------------------------------------------
\* The cloud.  A resource comes up or fails, and goes away or fails to.
Progress(r) ==
  /\ \E s \in Status : /\ <<cloud[r], s>> \in {<<"pending", "up">>, <<"pending", "error">>,
                                              <<"deleting", "gone">>, <<"deleting", "error">>}
                       /\ cloud' = [cloud EXCEPT ![r] = s]
                       /\ volume' = [volume EXCEPT ![r] = IF s = "gone" /\ @ = "bound" THEN "none" ELSE @]
  /\ UNCHANGED <<trash, runner, wait, failures, reports, trusted>>

Dependents(r) == {d \in Resource : r \in Needs[d] /\ cloud[d] \in Alive}

\* A deletion that is accepted.
Deleted(r) ==
  /\ cloud[r] \in Alive /\ Dependents(r) = {}
  /\ cloud' = [cloud EXCEPT ![r] = "deleting"]

Created(r) ==
  /\ \A n \in Needs[r] : cloud[n] \in {"pending", "up"}
  /\ cloud' = [cloud EXCEPT ![r] = "pending"]
  /\ volume' = [volume EXCEPT ![r] = IF r \in Rooted THEN "kept" ELSE @]
-----------------------------------------------------------------------------
Init ==
  /\ cloud = [r \in Resource |-> "none"] /\ volume = [r \in Resource |-> "none"]
  /\ bin = [l \in Level |-> EmptyBin] /\ sequence = [l \in Level |-> -1]
  /\ phase = "over" /\ classes = 0
  /\ wait = NoWait
  /\ failures = {} /\ reports = {} /\ trusted = {}

\* setUpClass: the count is an attribute of the subclass, the bin is not.
BeginClass ==
  /\ phase = "over" /\ classes < MaxClasses
  /\ phase' = "setUpClass" /\ classes' = classes + 1
  /\ sequence' = [sequence EXCEPT !["class"] = -1]
  /\ UNCHANGED <<cloud, volume, bin, wait, failures, reports, trusted>>

\* setUp of a test, when the class is set up or the test before has ended.
SetUp ==
  /\ phase \in {"setUpClass", "idle"} /\ wait = NoWait
  /\ phase' = "test"
  /\ bin' = [bin EXCEPT !["test"] = EmptyBin]
  /\ sequence' = [sequence EXCEPT !["test"] = -1]
  /\ UNCHANGED <<cloud, volume, classes, wait, failures, reports, trusted>>

\* Mutant of Failed: an exception in setUpClass only ends the class.
Failed_NoTearDown(r) ==
  /\ phase' = IF phase = "test" THEN "tearDown" ELSE "over"
  /\ reports' = reports \cup {r}
  /\ wait' = NoWait
  /\ UNCHANGED <<classes, failures>>

\* An exception of a test ends in its tearDown, one of setUpClass, by safe_setup,
\* in tearDownClass.
Failed(r) ==
  /\ phase' = IF phase = "test" THEN "tearDown" ELSE "tearDownClass"
  /\ reports' = reports \cup {r}
  /\ wait' = NoWait
  /\ UNCHANGED <<classes, failures>>

\* addResourceCleanUp and addResourceCleanUpStatic.
AddResourceCleanUp(l, r) ==
  /\ sequence' = [sequence EXCEPT ![l] = @ + 1]
  /\ bin' = [bin EXCEPT ![l] = Put(@, sequence[l] + 1, r)]

\* A create call: answered with 200, then its clean-up is added; or refused;
\* or performed while the answer is lost.
Create(l, r) ==
  /\ phase = Filling[l] /\ wait = NoWait /\ cloud[r] = "none"
  /\ \/ Created(r) /\ AddResourceCleanUp(l, r) /\ UNCHANGED <<runner, wait, failures, reports>>
     \/ UNCHANGED <<cloud, volume, trash>> /\ Failed(r)
     \/ Created(r) /\ UNCHANGED trash /\ Failed(r)
  /\ UNCHANGED trusted

\* wait_available, and wait_no_exception for what works only when it is up.
WaitAvailable(l, r) ==
  /\ phase = Filling[l] /\ wait = NoWait /\ r \in Range(bin[l])
  /\ \E goal \in {"up", "works"} : wait' = StartWait(goal, r)
  /\ UNCHANGED <<cloud, volume, trash, runner, failures, reports, trusted>>

\* set_delete_on_termination_flag_root_vol: the cloud may refuse and nobody looks at
\* its answer; or a request raises, of which the second may have been performed.
SetDeleteOnTermination(l, r) ==
  /\ phase = Filling[l] /\ wait = NoWait /\ r \in Rooted \cap Range(bin[l])
  /\ \/ /\ cloud[r] \in Alive
        /\ volume' \in {volume, [volume EXCEPT ![r] = "bound"]}
        /\ UNCHANGED <<runner, wait, failures, reports>> \/ Failed(r)
     \/ UNCHANGED volume /\ Failed(r)
  /\ UNCHANGED <<cloud, trash, trusted>>

\* A test deletes what it created and cancels the clean-up; then it waits, or not.
Delete(r) ==
  /\ phase = "test" /\ wait = NoWait
  /\ \E k \in DOMAIN bin["test"] :
       /\ bin["test"][k] = r
       /\ \/ /\ Deleted(r)
             /\ bin' = [bin EXCEPT !["test"] = Drop(@, k)]
             /\ \/ r \in Waited /\ wait' = StartWait("gone", r) /\ UNCHANGED trusted
                \/ trusted' = trusted \cup {r} /\ UNCHANGED wait
             /\ UNCHANGED <<sequence, runner, failures, reports>>
          \/ UNCHANGED <<cloud, trash, trusted>> /\ Failed(r)
          \/ Deleted(r) /\ UNCHANGED <<trash, trusted>> /\ Failed(r)
  /\ UNCHANGED volume

\* tearDown of a test that passed, and tearDownClass of a class.
TearDown ==
  /\ phase = "test" /\ wait = NoWait
  /\ phase' = "tearDown"
  /\ UNCHANGED <<cloud, volume, trash, classes, wait, failures, reports, trusted>>

TearDownClass ==
  /\ phase = "idle"
  /\ phase' = "tearDownClass"
  /\ UNCHANGED <<cloud, volume, trash, classes, wait, failures, reports, trusted>>
-----------------------------------------------------------------------------
\* Mutant of NextKey: trash_keys are not reversed.
NextKey_Forward(l) == Min(DOMAIN bin[l])

\* The clean-up whose turn it is: 'sorted(trash_bin, reverse=True)'.
NextKey(l) == Max(DOMAIN bin[l])

\* 'finally: del trash_bin[key]'.
Dispose(l) == bin' = [bin EXCEPT ![l] = Drop(@, NextKey(l))] /\ UNCHANGED sequence

\* cleanUpItem within the try of cleanUp: the deletion is accepted, and waited for if
\* its function has a waiter; or the resource is not found, which is fine; or the
\* refusal is logged; or the call raises, which is counted.
CleanUpItem(l) ==
  /\ phase = Emptying[l] /\ wait = NoWait /\ DOMAIN bin[l] # {}
  /\ LET r == bin[l][NextKey(l)]
     IN  \/ /\ Deleted(r)
            /\ IF r \in Waited
               THEN wait' = StartWait("gone", r) /\ UNCHANGED <<trash, trusted>>
               ELSE Dispose(l) /\ trusted' = trusted \cup {r} /\ UNCHANGED wait
            /\ UNCHANGED <<failures, reports>>
         \/ /\ cloud[r] \notin Alive /\ Dispose(l)
            /\ UNCHANGED <<cloud, wait, failures, reports, trusted>>
         \/ /\ cloud[r] \in Alive /\ Dispose(l) /\ reports' = reports \cup {r}
            /\ UNCHANGED <<cloud, wait, failures, trusted>>
         \/ /\ (Deleted(r) \/ UNCHANGED cloud)
            /\ Dispose(l) /\ failures' = failures \cup {r}
            /\ UNCHANGED <<wait, reports, trusted>>
  /\ UNCHANGED <<runner, volume>>

\* Mutant of CleanedUp: the count of failures is dropped.
CleanedUp_Silent(l) ==
  /\ phase = Emptying[l] /\ wait = NoWait /\ DOMAIN bin[l] = {}
  /\ phase' = IF l = "test" THEN "idle" ELSE "over"
  /\ failures' = {}
  /\ UNCHANGED <<cloud, volume, trash, classes, wait, reports, trusted>>

\* The end of tearDown and of tearDownClass: a count of failures is raised.
CleanedUp(l) ==
  /\ phase = Emptying[l] /\ wait = NoWait /\ DOMAIN bin[l] = {}
  /\ phase' = IF l = "test" THEN "idle" ELSE "over"
  /\ reports' = reports \cup failures
  /\ failures' = {}
  /\ UNCHANGED <<cloud, volume, trash, classes, wait, trusted>>
-----------------------------------------------------------------------------
\* The wait_func of the waiter asks for the state, or raises what is no NotFound.
Ask ==
  /\ wait # NoWait /\ wait.seen = ""
  /\ \E s \in {cloud[wait.of], "raised"} : wait' = [wait EXCEPT !.seen = s]
  /\ UNCHANGED <<cloud, volume, trash, runner, failures, reports, trusted>>

\* A wait ends well: the test goes on, or the clean-up is done.
WaitEnds ==
  /\ wait' = NoWait
  /\ \/ \E l \in Level : phase = Emptying[l] /\ Dispose(l)
     \/ phase \in Range(Filling) /\ UNCHANGED trash
  /\ UNCHANGED <<runner, failures, reports>>

\* Mutant of WaitFails: the clean-up stays in the bin until it succeeds.
WaitFails_Retry ==
  \/ /\ phase \in Range(Emptying)
     /\ wait' = NoWait /\ failures' = failures \cup {wait.of}
     /\ UNCHANGED <<trash, runner, reports>>
  \/ /\ phase \in Range(Filling)
     /\ Failed(wait.of) /\ UNCHANGED trash

\* It raises: the test fails, or cleanUp counts a failure.
WaitFails ==
  \/ /\ \E l \in Level : phase = Emptying[l] /\ Dispose(l)
     /\ wait' = NoWait /\ failures' = failures \cup {wait.of}
     /\ UNCHANGED <<runner, reports>>
  \/ /\ phase \in Range(Filling)
     /\ Failed(wait.of) /\ UNCHANGED trash

Reached == wait.seen = IF wait.goal = "gone" THEN "gone" ELSE "up"
Broken == \/ wait.seen = "raised" /\ wait.goal # "works"
          \/ wait.seen = "error" /\ wait.goal = "up"

\* Mutant of TimedOut: the pause that comes is not counted on.
TimedOut_Late(now) == now > Timeout + Interval
TimedOut(now) == now > Timeout

\* _state_wait, _state_wait_gone, wait_no_exception: the state decides first, then the time; the
\* pause before the next request grows.
Answer ==
  /\ wait # NoWait /\ wait.seen # ""
  /\ \E delay \in 0..Delay :
       LET now == wait.elapsed + delay
           over == Broken \/ TimedOut(now)
       IN  \/ Reached /\ WaitEnds
           \/ ~ Reached /\ over /\ WaitFails
           \/ /\ ~ Reached /\ ~ over
              /\ wait' = [wait EXCEPT !.elapsed = now + wait.interval,
                                      !.interval = @ + Interval, !.seen = ""]
              /\ UNCHANGED <<trash, runner, failures, reports>>
  /\ UNCHANGED <<cloud, volume, trusted>>

CleanUp(l) == CleanUpItem(l) \/ CleanedUp(l)
Poll == Ask \/ Answer

Next ==
  \/ BeginClass \/ SetUp \/ TearDown \/ TearDownClass
  \/ \E l \in Level, r \in Resource : Create(l, r) \/ WaitAvailable(l, r) \/ SetDeleteOnTermination(l, r)
  \/ \E r \in Resource : Delete(r) \/ Progress(r)
  \/ \E l \in Level : CleanUp(l)
  \/ Poll

Spec == Init /\ [][Next]_vars

\* The process runs and every request ends, by its time-out at the latest.  The
\* cloud owes no progress, and no test is bound to end.
FairSpec == Spec /\ WF_vars(Poll) /\ WF_vars(\E l \in Level : CleanUp(l))
-----------------------------------------------------------------------------
\* A wait overruns build_timeout by less than its longest pause, although the
\* pauses grow and requests take their time (base.py 104-111).
BoundedWait == wait # NoWait => wait.elapsed <= Timeout + wait.interval - Interval

\* What outlives the classes, a server's root volume included, was reported: by a
\* failing test or setUpClass, by the count that tearDown raises, or in the log ("%d
\* cleanUp operation failed").  The code makes two exceptions: what the cloud has agreed
\* to delete while nobody waits (test_instances.py 283-286, base.py 523), and a root
\* volume that the cloud has not bound to its server (base.py 583-593).
LeaksAreReported ==
  phase = "over" =>
    \A r \in Resource : cloud[r] \in Alive \/ volume[r] = "bound" => r \in reports \cup trusted

\* Clean-ups run backwards and wait, so that nothing is deleted under what lives in it:
\* a dependent that is still there had a failure of its own, or nobody waited for its
\* deletion (base.py 491).
DependentsGoFirst ==
  \A l \in Level : phase = Emptying[l] /\ wait = NoWait /\ DOMAIN bin[l] # {} =>
    Dependents(bin[l][NextKey(l)]) \subseteq reports \cup failures \cup trusted

\* Keys are counted per class in a bin all classes share: no clean-up ever takes
\* the place of another one (base.py 392).
NoCleanUpIsOverwritten ==
  [][\A l \in Level : \A k \in DOMAIN bin[l] \cap DOMAIN bin'[l] : bin'[l][k] = bin[l][k]]_vars

\* Every tearDown and tearDownClass ends, whatever the cloud does.
CleanUpsEnd == \A l \in Level : phase = Emptying[l] ~> phase # Emptying[l]
=============================================================================
