------------------------ MODULE HierarchicalEmitter ------------------------
(***************************************************************************)
(* The event system of src/botocore/hooks.py (class HierarchicalEmitter):  *)
(* the session's emitter and the copies that ClientCreator makes of it.    *)
(* Calls are atomic here; OperationCall interleaves their steps.           *)
(*                                                                         *)
(* Python objects that a copy shares are kept behind references: the       *)
(* _lookup_cache dict (cacheOf into caches) and the per-id dicts that hold *)
(* 'handler' and 'count' (uids into records).  The trie is copied deeply.  *)
(* A reference nobody holds is reset, as its object is garbage.            *)
(***************************************************************************)
EXTENDS PrefixTrie

CONSTANTS
  Emitter,        \* emitter objects
  Session,        \* the emitter the session creates first
  Ref,            \* object identities of lookup caches and id records
  NoRef,          \* a unique id that is not registered
  Uid,            \* unique ids
  Pattern,        \* names handlers are registered for (wildcards allowed)
  Event,          \* names that are emitted (no wildcard chunk)
  MaxHandlers,    \* bound on the handlers of all emitters
  MaxCount        \* bound on the count of a unique id

ASSUME EmitterAssumption ==
  /\ Session \in Emitter
  /\ NoRef \notin Ref
  /\ Pattern \subseteq Seq(Chunk) \ {<< >>}
  /\ Event \subseteq Seq(Chunk \ {Wildcard}) \ {<< >>}
  /\ MaxHandlers \in Nat
  /\ MaxCount \in Nat \ {0}

VARIABLES
  live,       \* the emitters that exist
  trie,       \* _handlers of every emitter
  cacheOf,    \* which dict is the _lookup_cache of every emitter
  caches,     \* the lookup cache dicts: event |-> handler list
  uids,       \* _unique_id_handlers: id |-> which record
  records,    \* the records: 'handler' and 'count' (0 when there is no count key)
  balance,    \* history: register calls of an id not yet matched by an unregister call
  home,       \* history: the name and handler that the id was registered with
  loose       \* history: how many handlers an emitter has that no id answers for, or
              \* Upset where its callers have spoilt that account

vars == <<live, trie, cacheOf, caches, uids, records, balance, home, loose>>
cacheVars == <<cacheOf, caches>>
ledger == <<balance, home, loose>>
uidVars == <<uids, records, ledger>>

Record == [handler : Handler, count : 0..MaxCount]
NoRecord == [handler |-> NoRef, count |-> 0]
Pair == Pattern \X Handler
Upset == -1
EmptyCache == [ev \in {} |-> << >>]

\* A lookup cache maps some of the events to what was found for them.
IsCache(c) == DOMAIN c \subseteq Event
Stored(c, ev, found) == [x \in DOMAIN c \cup {ev} |-> IF x = ev THEN found ELSE c[x]]

TypeOK ==
  /\ live \subseteq Emitter
  /\ DOMAIN trie = Emitter /\ \A e \in Emitter : IsTrie(trie[e])
  /\ cacheOf \in [Emitter -> Ref \cup {NoRef}]
  /\ \A e \in live : cacheOf[e] \in Ref
  /\ DOMAIN caches = Ref /\ \A r \in Ref : IsCache(caches[r])
  /\ uids \in [Emitter -> [Uid -> Ref \cup {NoRef}]]
  /\ records \in [Uid -> [Ref -> Record \cup {NoRecord}]]
  /\ balance \in [Emitter -> [Uid -> 0..MaxCount]]
  /\ home \in [Emitter -> [Uid -> Pair \cup {NoRef}]]
  /\ loose \in [Emitter -> [Pair -> Nat \cup {Upset}]]

Lookup(e) == caches[cacheOf[e]]

\* 'self._lookup_cache = {}' : e gets a dict that no other emitter refers to.
FreshCache(e) ==
  \E r \in Ref \ {cacheOf[x] : x \in live \ {e}} :
    /\ cacheOf' = [cacheOf EXCEPT ![e] = r]
    /\ caches' = [s \in Ref |-> IF \E x \in live \ {e} : cacheOf[x] = s
                                THEN caches[s] ELSE EmptyCache]

\* The records that emitters other than e refer to; a record e drops is garbage.
KeptRecords(e, u) ==
  [r \in Ref |-> IF \E x \in live \ {e} : uids[x][u] = r THEN records[u][r] ELSE NoRecord]

\* The number of handlers in a trie and in all of them, for the bound only.
Size(t) == MapThenSumSet(LAMBDA p : Len(CompleteOrder(t[p])), DOMAIN t)
TotalSize == MapThenSumSet(LAMBDA e : Size(trie[e]), live)

\* The account of loose handlers: one more, and one that an unregister call takes away
\* from the times it stands there, be it loose or not.
OneMore(n) == IF n = Upset THEN Upset ELSE n + 1
OneLess(n, times) == IF n > 0 THEN n - 1 ELSE IF times > 0 THEN Upset ELSE n
TakenAway(e, p, h) == OneLess(loose[e][<<p, h>>], Times(trie[e], p, h))
-----------------------------------------------------------------------------
\* HierarchicalEmitter.__init__ ; no handler is registered yet.
Init ==
  /\ live = {Session}
  /\ trie = [e \in Emitter |-> EmptyTrie]
  /\ \E r \in Ref : cacheOf = [e \in Emitter |-> IF e = Session THEN r ELSE NoRef]
  /\ caches = [r \in Ref |-> EmptyCache]
  /\ uids = [e \in Emitter |-> [u \in Uid |-> NoRef]]
  /\ records = [u \in Uid |-> [r \in Ref |-> NoRecord]]
  /\ balance = [e \in Emitter |-> [u \in Uid |-> 0]]
  /\ home = [e \in Emitter |-> [u \in Uid |-> NoRef]]
  /\ loose = [e \in Emitter |-> [x \in Pair |-> 0]]

\* _emit: a hit calls what the cache holds; a miss searches the trie and stores.
Emit(e, ev) ==
  /\ caches' = IF ev \in DOMAIN Lookup(e) THEN caches
               ELSE [caches EXCEPT ![cacheOf[e]] = Stored(@, ev, PrefixSearch(trie[e], ev))]
  /\ UNCHANGED <<live, trie, cacheOf, uidVars>>

\* append_item followed by the reset of the lookup cache.
AddHandler(e, p, h, s) ==
  /\ TotalSize < MaxHandlers
  /\ trie' = [trie EXCEPT ![e] = AppendItem(@, p, h, s)]
  /\ FreshCache(e)
  /\ UNCHANGED live

\* _register_section without a unique id.
Register(e, p, h, s) ==
  /\ AddHandler(e, p, h, s)
  /\ loose' = [loose EXCEPT ![e][<<p, h>>] = OneMore(@)]
  /\ UNCHANGED <<uids, records, balance, home>>

\* _register_section with a unique id that is not taken.
RegisterId(e, p, h, s, u, counted) ==
  /\ uids[e][u] = NoRef
  /\ AddHandler(e, p, h, s)
  /\ \E r \in Ref \ {uids[x][u] : x \in live \ {e}} :
       /\ uids' = [uids EXCEPT ![e][u] = r]
       /\ records' = [records EXCEPT ![u][r] =
                        [handler |-> h, count |-> IF counted THEN 1 ELSE 0]]
  /\ balance' = [balance EXCEPT ![e][u] = 1]
  /\ home' = [home EXCEPT ![e][u] = <<p, h>>]
  /\ UNCHANGED loose

\* The record an emitter holds for a taken id, and whether it has a count.
RecordOf(e, u) == records[u][uids[e][u]]
Counting(e, u) == RecordOf(e, u).count # 0

\* A counted call on e counts for the emitters that share the record too, whose
\* callers have not made it: the account of the handler there is spoilt.
SharersUpset(e, u) ==
  loose' = [x \in Emitter |->
              IF x \in live \ {e} /\ uids[x][u] = uids[e][u]
              THEN [loose[x] EXCEPT ![home[x][u]] = Upset] ELSE loose[x]]

\* Mutant of RegisterAgain: the count is not raised.
RegisterAgain_NoCount(e, u, counted) ==
  /\ uids[e][u] # NoRef
  /\ counted = Counting(e, u)
  /\ balance[e][u] < MaxCount
  /\ balance' = IF counted THEN [balance EXCEPT ![e][u] = @ + 1] ELSE balance
  /\ UNCHANGED <<live, trie, cacheVars, uids, records, home, loose>>

\* A call that agrees with the first registration about the counter: the
\* handler is not appended, the shared count goes up, the cache stays.
RegisterAgain(e, u, counted) ==
  /\ uids[e][u] # NoRef
  /\ counted = Counting(e, u)
  /\ RecordOf(e, u).count < MaxCount
  /\ balance[e][u] < MaxCount
  /\ IF counted
     THEN /\ records' = [records EXCEPT ![u][uids[e][u]].count = @ + 1]
          /\ balance' = [balance EXCEPT ![e][u] = @ + 1]
          /\ SharersUpset(e, u)
     ELSE UNCHANGED <<records, balance, loose>>
  /\ UNCHANGED <<live, trie, cacheVars, uids, home>>

\* register and unregister refuse a call that disagrees about the counter.
CountMismatch(e, u, counted) ==
  /\ uids[e][u] # NoRef
  /\ counted # Counting(e, u)
  /\ UNCHANGED <<live, trie, cacheVars, uidVars>>

\* Mutant of Discard: the lookup cache is not reset.
Discard_KeepCache(e, p, h) ==
  LET ending == RemoveOutcome(trie[e], p)
  IN  /\ trie' = IF ending = "ok" THEN [trie EXCEPT ![e] = RemoveItem(@, p, h)] ELSE trie
      /\ UNCHANGED <<live, cacheVars>>

\* The end of unregister: remove_item and the reset of the cache, or neither
\* when the name is not in the trie (caught) or its node has no values (raised).
Discard(e, p, h) ==
  LET ending == RemoveOutcome(trie[e], p)
  IN  /\ IF ending = "ok"
         THEN /\ trie' = [trie EXCEPT ![e] = RemoveItem(@, p, h)]
              /\ FreshCache(e)
         ELSE UNCHANGED <<trie, cacheVars>>
      /\ UNCHANGED live

\* unregister by handler, which may be one that an id was registered with.
Unregister(e, p, h) ==
  /\ Discard(e, p, h)
  /\ loose' = [loose EXCEPT ![e][<<p, h>>] = TakenAway(e, p, h)]
  /\ UNCHANGED <<uids, records, balance, home>>

\* unregister by an id nobody registered.
UnregisterUnknownId(e, u) ==
  /\ uids[e][u] = NoRef
  /\ UNCHANGED <<live, trie, cacheVars, uidVars>>

\* A call that unregisters an id is matched with one that registered it.
Match(e, u) == balance' = [balance EXCEPT ![e][u] = IF @ > 0 THEN @ - 1 ELSE 0]

\* unregister by an id with more than one registration outstanding.
UnregisterOneOfMany(e, u) ==
  /\ uids[e][u] # NoRef
  /\ RecordOf(e, u).count > 1
  /\ records' = [records EXCEPT ![u][uids[e][u]].count = @ - 1]
  /\ Match(e, u)
  /\ SharersUpset(e, u)
  /\ UNCHANGED <<live, trie, cacheVars, uids, home>>

\* Under the name of the registration the id's own handler is taken away; under
\* another that one is left behind, loose, and one of the other name taken away.
LeftBehind(e, p, u) ==
  loose' = IF p = home[e][u][1] THEN loose
           ELSE [loose EXCEPT ![e][home[e][u]] = OneMore(@),
                              ![e][<<p, RecordOf(e, u).handler>>] =
                                TakenAway(e, p, RecordOf(e, u).handler)]

\* Mutant of UnregisterId: the handler goes, the id is not popped.
UnregisterId_NoPop(e, p, u) ==
  /\ uids[e][u] # NoRef
  /\ RecordOf(e, u).count <= 1
  /\ Discard(e, p, RecordOf(e, u).handler)
  /\ Match(e, u)
  /\ LeftBehind(e, p, u)
  /\ UNCHANGED <<uids, records, home>>

\* unregister by id, last time: the id is popped first, whatever becomes of
\* remove_item under the name the caller gives.
UnregisterId(e, p, u) ==
  /\ uids[e][u] # NoRef
  /\ RecordOf(e, u).count <= 1
  /\ Discard(e, p, RecordOf(e, u).handler)
  /\ uids' = [uids EXCEPT ![e][u] = NoRef]
  /\ records' = [records EXCEPT ![u] = KeptRecords(e, u)]
  /\ Match(e, u)
  /\ LeftBehind(e, p, u)
  /\ home' = [home EXCEPT ![e][u] = IF balance[e][u] > 1 THEN @ ELSE NoRef]

\* __copy__: the trie is copied deeply, the dict of ids one level deep, and the
\* lookup cache dict is shared until one of the two emitters replaces its own.
Copy(e, new) ==
  /\ new \notin live
  /\ TotalSize + Size(trie[e]) <= MaxHandlers
  /\ live' = live \cup {new}
  /\ trie' = [trie EXCEPT ![new] = trie[e]]
  /\ cacheOf' = [cacheOf EXCEPT ![new] = cacheOf[e]]
  /\ uids' = [uids EXCEPT ![new] = uids[e]]
  /\ balance' = [balance EXCEPT ![new] = balance[e]]
  /\ home' = [home EXCEPT ![new] = home[e]]
  /\ loose' = [loose EXCEPT ![new] = loose[e]]
  /\ UNCHANGED <<caches, records>>

Calls(e) ==
  \/ \E ev \in Event : Emit(e, ev)
  \/ \E p \in Pattern, h \in Handler, s \in Section : Register(e, p, h, s)
  \/ \E p \in Pattern, h \in Handler, s \in Section, u \in Uid, c \in BOOLEAN :
       RegisterId(e, p, h, s, u, c)
  \/ \E u \in Uid, c \in BOOLEAN : RegisterAgain(e, u, c)
  \/ \E u \in Uid, c \in BOOLEAN : CountMismatch(e, u, c)
  \/ \E p \in Pattern, h \in Handler : Unregister(e, p, h)
  \/ \E u \in Uid : UnregisterUnknownId(e, u)
  \/ \E u \in Uid : UnregisterOneOfMany(e, u)
  \/ \E p \in Pattern, u \in Uid : UnregisterId(e, p, u)
  \/ \E new \in Emitter : Copy(e, new)

Next == \E e \in live : Calls(e)

Spec == Init /\ [][Next]_vars
-----------------------------------------------------------------------------
\* What an emitter would call from its cache is what a search of its trie finds,
\* although the cache dict may be shared with a copy of the emitter (hooks.py
\* 196-199 reads it unconditionally, 300 and 332 replace it, 338 shares it).
CacheCoherent ==
  \A e \in live : \A ev \in DOMAIN Lookup(e) :
    Lookup(e)[ev] = PrefixSearch(trie[e], ev)

\* The stack walk of _get_items calls every node that matches once, and on one path
\* the longer name before the shorter (hooks.py 363-364): the first fact.  Where two
\* paths part, the wildcard's comes first whatever the lengths, since that branch is
\* popped last and put in front (hooks.py 424, 434-437): the order of CallingOrder.
SpecificBeforeGeneral(nodes) ==
  \A i, j \in DOMAIN nodes : IsStrictPrefix(nodes[j], nodes[i]) => i < j
SearchIsSorted ==
  \A e \in live, ev \in Event :
    LET nodes == CallingOrder(Matching(trie[e], ev))
    IN  /\ PrefixSearch(trie[e], ev) = HandlersOf(trie[e], nodes)
        /\ ToSet(nodes) = Matching(trie[e], ev) /\ IsInjective(nodes)
        /\ SpecificBeforeGeneral(nodes)

\* "the values associated with the node furthest from the root come before nodes closer
\* to the root" (hooks.py 418-421): of two handlers that are called the first is not
\* one of nearer nodes only.
FurthestFirst ==
  \A e \in live, ev \in Event :
    LET found == PrefixSearch(trie[e], ev)
        depths(h) == {Len(p) : p \in {q \in Matching(trie[e], ev) : Times(trie[e], q, h) > 0}}
    IN  \A i, j \in DOMAIN found :
          i < j => \E m \in depths(found[i]), n \in depths(found[j]) : m >= n

\* What an emitter has under a name is what its callers have outstanding there: the
\* handlers registered without an id and each id's handler once, from its first
\* register call to the unregister call that matches the last; so a handler neither
\* goes while its id is due, nor stays when it is not, nor is there twice, whatever the
\* emitters share (hooks.py 329 pops the id before it knows whether remove_item finds
\* the handler; 340 copies the ids but not their counts; session.py 655-666).  Where
\* callers take a handler from its id, or count on a record of another emitter, no
\* account is kept (Upset).
Due(e, p, h) == {u \in Uid : balance[e][u] > 0 /\ home[e][u] = <<p, h>>}
CallsWhatIsDue ==
  \A e \in live, p \in Pattern, h \in Handler :
    loose[e][<<p, h>>] # Upset =>
      Times(trie[e], p, h) = loose[e][<<p, h>>] + Cardinality(Due(e, p, h))
=============================================================================
