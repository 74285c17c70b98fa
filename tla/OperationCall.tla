--------------------------- MODULE OperationCall ---------------------------
(***************************************************************************)
(* Threads that call one operation through src/botocore/operation.py       *)
(* (Operation.call) on the session's emitter, at the granularity at which  *)
(* the interpreter may switch threads.                                     *)
(*                                                                         *)
(* A call registers a signing closure under request-created.<service>.<op>,*)
(* makes requests, each of which runs the closures the emitter finds, and  *)
(* unregisters its closure.  Only that name matters, so the trie is one    *)
(* chain of Depth chunks below the root, and a closure is the thread whose *)
(* call made it.  Nodes and handler lists are objects: a node is named by  *)
(* its level and the call that made it, a list by the call that made it.   *)
(***************************************************************************)
EXTENDS Integers, Sequences, FiniteSets

CONSTANTS
  Thread,       \* threads
  Builtin,      \* maker of what exists before the first call
  NoNode,       \* no child, no node
  NoList,       \* the 'values' None
  Nobody,       \* no signer, no lock holder, no cached list
  Depth,        \* chunks of the event name
  MaxCalls,     \* bound on the calls of one thread
  TotalCalls,   \* bound on the calls of all threads
  MaxAttempts   \* bound on the requests of one call

\* The calls: <<thread, n>> is its n-th call; <<Builtin, 0>> stands for the past.
Call == (Thread \X (1..MaxCalls)) \cup {<<Builtin, 0>>}
Past == <<Builtin, 0>>
Node == (0..Depth) \X Call
Root == <<0, Past>>
List == Call

ASSUME CallAssumption ==
  /\ Builtin \notin Thread /\ Nobody \notin Thread
  /\ Depth \in Nat \ {0}
  /\ MaxCalls \in Nat \ {0}
  /\ MaxAttempts \in Nat \ {0}
  /\ NoNode \notin Node
  /\ NoList \notin List

VARIABLES
  warm,       \* the operation was called before: its node has a list
  child,      \* children[chunk] of every node
  listOf,     \* values of every node
  contents,   \* the handlers in every list
  cached,     \* the cached handlers of the event, or Nobody
  lock,       \* Operation._lock
  pc,         \* what each thread is about to do
  at,         \* the node each thread has walked to
  found,      \* handlers_to_call of each thread
  pos,        \* which of them it is running
  signedBy,   \* who signed the thread's request
  attempt,    \* requests of the current call
  calls       \* calls started

treeVars == <<child, listOf, contents>>
threadVars == <<at, found, pos, signedBy, attempt, calls>>
vars == <<warm, treeVars, cached, lock, pc, threadVars>>

PC == {"idle", "walk", "link", "values", "setlist", "append", "added", "lookup", "search",
       "store", "handlers", "lock", "sign", "send", "remove", "removed", "failed"}

TypeOK ==
  /\ warm \in BOOLEAN
  /\ child \in [Node -> Node \cup {NoNode}]
  /\ listOf \in [Node -> List \cup {NoList}]
  /\ contents \in [List -> Seq(Thread)]
  /\ cached \in Seq(Thread) \cup {Nobody}
  /\ lock \in Thread \cup {Nobody}
  /\ pc \in [Thread -> PC]
  /\ at \in [Thread -> Node]
  /\ found \in [Thread -> Seq(Thread)]
  /\ pos \in [Thread -> Nat \ {0}]
  /\ signedBy \in [Thread -> Thread \cup {Nobody}]
  /\ attempt \in [Thread -> 0..MaxAttempts]
  /\ calls \in [Thread -> 0..MaxCalls]

\* The first handler t is taken out of a list.
Without(s, t) ==
  IF \E i \in DOMAIN s : s[i] = t
  THEN LET first == CHOOSE i \in DOMAIN s : s[i] = t /\ \A j \in 1..(i - 1) : s[j] # t
       IN  [j \in 1..(Len(s) - 1) |-> IF j < first THEN s[j] ELSE s[j + 1]]
  ELSE s

CallOf(t) == <<t, calls[t]>>
Goto(t, label) == pc' = [pc EXCEPT ![t] = label]
-----------------------------------------------------------------------------
\* The builtin handlers are registered: the first chunk exists already
\* (request-created.machinelearning.Predict), the whole name when warm.
Init ==
  /\ warm \in BOOLEAN
  /\ LET linked == IF warm THEN Depth ELSE 1
     IN  /\ child = [n \in Node |-> IF n[2] = Past /\ n[1] < linked
                                    THEN <<n[1] + 1, Past>> ELSE NoNode]
         /\ listOf = [n \in Node |-> IF warm /\ n = <<Depth, Past>> THEN Past ELSE NoList]
  /\ contents = [l \in List |-> << >>]
  /\ cached = Nobody
  /\ lock = Nobody
  /\ pc = [t \in Thread |-> "idle"]
  /\ at = [t \in Thread |-> Root]
  /\ found = [t \in Thread |-> << >>]
  /\ pos = [t \in Thread |-> 1]
  /\ signedBy = [t \in Thread |-> Nobody]
  /\ attempt = [t \in Thread |-> 0]
  /\ calls = [t \in Thread |-> 0]

\* call, up to event_emitter.register.
Start(t) ==
  /\ pc[t] = "idle"
  /\ calls[t] < MaxCalls
  /\ Cardinality({c \in Thread \X (1..MaxCalls) : c[2] <= calls[c[1]]}) < TotalCalls
  /\ calls' = [calls EXCEPT ![t] = @ + 1]
  /\ at' = [at EXCEPT ![t] = Root]
  /\ attempt' = [attempt EXCEPT ![t] = 0]
  /\ Goto(t, "walk")
  /\ UNCHANGED <<treeVars, cached, lock, found, pos, signedBy>>

\* t goes down the link it has just read.
Descend(t) ==
  /\ at[t][1] < Depth
  /\ child[at[t]] # NoNode
  /\ at' = [at EXCEPT ![t] = child[@]]

\* append_item: "if part not in current['children']".
Walk(t) ==
  /\ pc[t] = "walk"
  /\ \/ at[t][1] = Depth /\ Goto(t, "values") /\ UNCHANGED at
     \/ Descend(t) /\ UNCHANGED pc
     \/ /\ at[t][1] < Depth
        /\ child[at[t]] = NoNode
        /\ Goto(t, "link")
        /\ UNCHANGED at
  /\ UNCHANGED <<treeVars, cached, lock, found, pos, signedBy, attempt, calls>>

\* append_item: the child found missing is made and linked, over whatever
\* another thread has linked there since.
Link(t) ==
  /\ pc[t] = "link"
  /\ child' = [child EXCEPT ![at[t]] = <<at[t][1] + 1, CallOf(t)>>]
  /\ at' = [at EXCEPT ![t] = <<at[t][1] + 1, CallOf(t)>>]
  /\ Goto(t, "walk")
  /\ UNCHANGED <<listOf, contents, cached, lock, found, pos, signedBy, attempt, calls>>

\* Mutant of Values: the list is replaced whether or not there is one.
Values_Always(t) ==
  /\ pc[t] = "values"
  /\ Goto(t, "setlist")
  /\ UNCHANGED <<treeVars, cached, lock, threadVars>>

\* append_item: "if current['values'] is None".
Values(t) ==
  /\ pc[t] = "values"
  /\ Goto(t, IF listOf[at[t]] = NoList THEN "setlist" ELSE "append")
  /\ UNCHANGED <<treeVars, cached, lock, threadVars>>

\* append_item: a new list takes the place of None, or of another thread's list.
SetList(t) ==
  /\ pc[t] = "setlist"
  /\ listOf' = [listOf EXCEPT ![at[t]] = CallOf(t)]
  /\ contents' = [contents EXCEPT ![CallOf(t)] = << >>]
  /\ Goto(t, "append")
  /\ UNCHANGED <<child, cached, lock, threadVars>>

AppendHandler(t) ==
  /\ pc[t] = "append"
  /\ contents' = [contents EXCEPT ![listOf[at[t]]] = Append(@, t)]
  /\ Goto(t, "added")
  /\ UNCHANGED <<child, listOf, cached, lock, threadVars>>

\* The reset of the lookup cache that ends register; a request is created.
Registered(t) ==
  /\ pc[t] = "added"
  /\ cached' = Nobody
  /\ attempt' = [attempt EXCEPT ![t] = 1]
  /\ signedBy' = [signedBy EXCEPT ![t] = Nobody]
  /\ Goto(t, "lookup")
  /\ UNCHANGED <<treeVars, lock, at, found, pos, calls>>

\* _emit: the cache is read.
Lookup(t) ==
  /\ pc[t] = "lookup"
  /\ pos' = [pos EXCEPT ![t] = 1]
  /\ at' = [at EXCEPT ![t] = Root]
  /\ IF cached = Nobody
     THEN Goto(t, "search") /\ UNCHANGED found
     ELSE Goto(t, "handlers") /\ found' = [found EXCEPT ![t] = cached]
  /\ UNCHANGED <<treeVars, cached, lock, signedBy, attempt, calls>>

\* _emit: the trie is searched; a missing node or the list None yield nothing.
Search(t) ==
  /\ pc[t] = "search"
  /\ \/ Descend(t) /\ UNCHANGED <<pc, found>>
     \/ /\ at[t][1] < Depth => child[at[t]] = NoNode
        /\ found' = [found EXCEPT ![t] = IF at[t][1] < Depth \/ listOf[at[t]] = NoList
                                         THEN << >> ELSE contents[listOf[at[t]]]]
        /\ Goto(t, "store")
        /\ UNCHANGED at
  /\ UNCHANGED <<treeVars, cached, lock, pos, signedBy, attempt, calls>>

\* The result is stored, in whatever dict is the cache by then.
Store(t) ==
  /\ pc[t] = "store"
  /\ cached' = found[t]
  /\ Goto(t, "handlers")
  /\ UNCHANGED <<treeVars, lock, threadVars>>

\* One closure: its first test of request._is_signed.
RunHandler(t) ==
  /\ pc[t] = "handlers"
  /\ pos[t] <= Len(found[t])
  /\ IF signedBy[t] = Nobody
     THEN Goto(t, "lock") /\ UNCHANGED pos
     ELSE pos' = [pos EXCEPT ![t] = @ + 1] /\ UNCHANGED pc
  /\ UNCHANGED <<treeVars, cached, lock, at, found, signedBy, attempt, calls>>

Acquire(t) ==
  /\ pc[t] = "lock"
  /\ lock = Nobody
  /\ lock' = t
  /\ Goto(t, "sign")
  /\ UNCHANGED <<treeVars, cached, threadVars>>

\* Under the lock: the second test, signer.sign with the closure's own signer,
\* the flag, and the release.
Sign(t) ==
  /\ pc[t] = "sign"
  /\ signedBy' = [signedBy EXCEPT ![t] = IF @ = Nobody THEN found[t][pos[t]] ELSE @]
  /\ lock' = Nobody
  /\ pos' = [pos EXCEPT ![t] = @ + 1]
  /\ Goto(t, "handlers")
  /\ UNCHANGED <<treeVars, cached, at, found, attempt, calls>>

EmitDone(t) ==
  /\ pc[t] = "handlers"
  /\ pos[t] > Len(found[t])
  /\ Goto(t, "send")
  /\ UNCHANGED <<treeVars, cached, lock, threadVars>>

\* Mutant of SendAndRetry: the attempt is not counted.
SendAndRetry_Uncounted(t) ==
  /\ pc[t] = "send"
  /\ attempt[t] <= MaxAttempts
  /\ signedBy' = [signedBy EXCEPT ![t] = Nobody]
  /\ Goto(t, "lookup")
  /\ UNCHANGED <<treeVars, cached, lock, at, found, pos, attempt, calls>>

\* The request is sent; the retry handlers ask for another one, or not.
SendAndRetry(t) ==
  /\ pc[t] = "send"
  /\ attempt[t] < MaxAttempts
  /\ attempt' = [attempt EXCEPT ![t] = @ + 1]
  /\ signedBy' = [signedBy EXCEPT ![t] = Nobody]
  /\ Goto(t, "lookup")
  /\ UNCHANGED <<treeVars, cached, lock, at, found, pos, calls>>

SendAndEnd(t) ==
  /\ pc[t] = "send"
  /\ signedBy' = [signedBy EXCEPT ![t] = Nobody]
  /\ at' = [at EXCEPT ![t] = Root]
  /\ Goto(t, "remove")
  /\ UNCHANGED <<treeVars, cached, lock, found, pos, attempt, calls>>

\* unregister: remove_item.  A missing node is a caught ValueError, a node without
\* values an AttributeError that leaves call; both skip the reset of the cache.
Remove(t) ==
  /\ pc[t] = "remove"
  /\ \/ Descend(t) /\ UNCHANGED <<pc, contents>>
     \/ /\ at[t][1] < Depth
        /\ child[at[t]] = NoNode
        /\ Goto(t, "idle")
        /\ UNCHANGED <<at, contents>>
     \/ /\ at[t][1] = Depth
        /\ IF listOf[at[t]] = NoList
           THEN Goto(t, "failed") /\ UNCHANGED contents
           ELSE /\ contents' = [contents EXCEPT ![listOf[at[t]]] = Without(@, t)]
                /\ Goto(t, "removed")
        /\ UNCHANGED at
  /\ UNCHANGED <<child, listOf, cached, lock, found, pos, signedBy, attempt, calls>>

\* Mutant of Unregistered: the lookup cache is not reset.
Unregistered_KeepCache(t) ==
  /\ pc[t] = "removed"
  /\ Goto(t, "idle")
  /\ UNCHANGED <<treeVars, cached, lock, threadVars>>

Unregistered(t) ==
  /\ pc[t] = "removed"
  /\ cached' = Nobody
  /\ Goto(t, "idle")
  /\ UNCHANGED <<treeVars, lock, threadVars>>

\* The exception has left call; the thread may call again.
Fail(t) ==
  /\ pc[t] = "failed"
  /\ Goto(t, "idle")
  /\ UNCHANGED <<treeVars, cached, lock, threadVars>>

Register(t) == Walk(t) \/ Link(t) \/ Values(t) \/ SetList(t) \/ AppendHandler(t) \/ Registered(t)
Emit(t) == Lookup(t) \/ Search(t) \/ Store(t) \/ RunHandler(t) \/ Acquire(t) \/ Sign(t) \/ EmitDone(t)
Finish(t) == SendAndRetry(t) \/ SendAndEnd(t) \/ Remove(t) \/ Unregistered(t) \/ Fail(t)

Step(t) ==
  /\ Start(t) \/ Register(t) \/ Emit(t) \/ Finish(t)
  /\ UNCHANGED warm
Done == (\A t \in Thread : pc[t] = "idle") /\ UNCHANGED vars
Next == (\E t \in Thread : Step(t)) \/ Done

Spec == Init /\ [][Next]_vars
\* The operating system schedules every thread; a request ends by its time-out.
FairSpec == Spec /\ \A t \in Thread : WF_vars(Step(t))
-----------------------------------------------------------------------------
\* No request of an operation that was called before leaves unsigned: the closure
\* the call registered, or another call's, has run on it (operation.py 147-170,
\* hooks.py 196-199, 383-392).
NoUnsignedRequest ==
  warm => \A t \in Thread : pc[t] = "send" => signedBy[t] # Nobody

\* The node of the event at a level, following the links from the root.
Reached[l \in 0..Depth] ==
  IF l = 0 THEN Root ELSE IF Reached[l - 1] = NoNode THEN NoNode ELSE child[Reached[l - 1]]

\* When no call is in progress the emitter holds no signing closure any more: the
\* list a search finds is empty and no lookup is cached (operation.py 166-170).
IdleEmitterIsClean ==
  (\A t \in Thread : pc[t] = "idle") =>
    /\ cached = Nobody
    /\ Reached[Depth] # NoNode /\ listOf[Reached[Depth]] # NoList
         => contents[listOf[Reached[Depth]]] = << >>

\* Every call ends (the lock is not held across anything that waits for it).
EveryCallEnds == \A t \in Thread : pc[t] # "idle" ~> pc[t] = "idle"
=============================================================================
