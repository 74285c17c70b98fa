--------------------- MODULE HierarchicalEmitterProofs ---------------------
(***************************************************************************)
(* HierarchicalEmitter for any number of emitters, handlers, names, ids    *)
(* and calls: the lookup cache is coherent, the tries stay trees, an       *)
(* emitter has what its callers have outstanding, and a search finds the   *)
(* handlers in the order of a sort.                                        *)
(***************************************************************************)
EXTENDS HierarchicalEmitter, SequenceTheorems, FiniteSetTheorems, WellFoundedInduction, TLAPS

\* A non-empty set of indices has a least element: < is well founded on the naturals.
LEMMA LeastIndex ==
  ASSUME NEW n \in Nat, NEW T \in SUBSET (1..n), T # {}
  PROVE  \E m \in T : \A k \in T : m <= k
<1> DEFINE Less == {p \in Nat \X Nat : p[1] < p[2]}
<1>1. IsWellFoundedOn(Less, Nat)
  BY NatLessThanWellFounded DEF OpToRel
<1>2. T \subseteq Nat
  OBVIOUS
<1>3. PICK m \in T : \A k \in T : ~ (<<k, m>> \in Less)
  <2> HIDE DEF Less
  <2> QED BY <1>1, <1>2, WFMin, Zenon
<1>4. \A k \in T : ~ (k < m)
  BY <1>2, <1>3
<1> QED
  BY <1>2, <1>4

\* Why sharing the cache dict is safe: the emitters that refer to one dict have
\* equal tries, so an entry that is right for one of them is right for all.
SharedCacheSameTrie ==
  \A e, f \in live : cacheOf[e] = cacheOf[f] => trie[e] = trie[f]

\* The types the argument rests on.
Shapes ==
  /\ live \subseteq Emitter
  /\ DOMAIN trie = Emitter
  /\ cacheOf \in [Emitter -> Ref \cup {NoRef}]
  /\ \A e \in live : cacheOf[e] \in Ref
  /\ DOMAIN caches = Ref

IInv == Shapes /\ SharedCacheSameTrie /\ CacheCoherent

-----------------------------------------------------------------------------
\* A call that changes the trie of e and gives e a new cache keeps the invariant.
LEMMA FreshCacheKeeps ==
  ASSUME IInv, NEW e \in live, NEW t, trie' = [trie EXCEPT ![e] = t],
         FreshCache(e), live' = live
  PROVE  IInv'
<1> USE DEF IInv, Shapes
<1>1. PICK r \in Ref \ {cacheOf[x] : x \in live \ {e}} :
        /\ cacheOf' = [cacheOf EXCEPT ![e] = r]
        /\ caches' = [s \in Ref |-> IF \E x \in live \ {e} : cacheOf[x] = s
                                    THEN caches[s] ELSE EmptyCache]
  BY DEF FreshCache
<1>2. e \in Emitter /\ cacheOf'[e] = r /\ trie'[e] = t
  BY <1>1
<1>3. \A x \in live \ {e} : /\ cacheOf'[x] = cacheOf[x] /\ trie'[x] = trie[x]
                            /\ cacheOf[x] # r
                            /\ caches'[cacheOf[x]] = caches[cacheOf[x]]
  BY <1>1
<1>4. caches'[r] = EmptyCache
  BY <1>1
<1>5. Shapes'
  BY <1>1
<1>6. SharedCacheSameTrie'
  BY <1>2, <1>3 DEF SharedCacheSameTrie
<1>7. CacheCoherent'
  <2>1. ASSUME NEW x \in live, NEW ev \in DOMAIN caches'[cacheOf'[x]]
        PROVE  caches'[cacheOf'[x]][ev] = PrefixSearch(trie'[x], ev)
    <3>1. CASE x = e
      BY <1>2, <1>4, <2>1, <3>1 DEF EmptyCache
    <3>2. CASE x # e
      <4>1. caches'[cacheOf'[x]] = caches[cacheOf[x]] /\ trie'[x] = trie[x]
        BY <1>3, <3>2
      <4>2. QED BY <2>1, <4>1 DEF CacheCoherent, Lookup
    <3>3. QED BY <3>1, <3>2
  <2>2. QED BY <2>1 DEF CacheCoherent, Lookup
<1>8. QED BY <1>5, <1>6, <1>7

\* A call that changes neither trie nor cache keeps the invariant.
LEMMA UntouchedKeeps ==
  ASSUME IInv, UNCHANGED <<live, trie, cacheVars>>
  PROVE  IInv'
BY DEF IInv, Shapes, SharedCacheSameTrie, CacheCoherent, Lookup, cacheVars

LEMMA EmitKeeps ==
  ASSUME IInv, NEW e \in live, NEW ev \in Event, Emit(e, ev)
  PROVE  IInv'
<1> DEFINE found == PrefixSearch(trie[e], ev)
<1>1. CASE ev \in DOMAIN Lookup(e)
  BY <1>1, UntouchedKeeps DEF Emit, cacheVars
<1>2. CASE ev \notin DOMAIN Lookup(e)
  <2>1. /\ UNCHANGED <<live, trie, cacheOf>>
        /\ caches' = [caches EXCEPT ![cacheOf[e]] = Stored(@, ev, found)]
    BY <1>2 DEF Emit
  <2>2. cacheOf[e] \in Ref /\ DOMAIN caches = Ref
    BY DEF IInv, Shapes
  <2>3. Shapes' /\ SharedCacheSameTrie'
    BY <2>1, <2>2 DEF IInv, Shapes, SharedCacheSameTrie
  <2>4. ASSUME NEW x \in live, NEW y \in DOMAIN caches'[cacheOf[x]]
        PROVE  caches'[cacheOf[x]][y] = PrefixSearch(trie[x], y)
    <3>1. CASE cacheOf[x] # cacheOf[e]
      <4>1. caches'[cacheOf[x]] = caches[cacheOf[x]]
        BY <2>1, <2>2, <3>1 DEF IInv, Shapes
      <4>2. QED BY <2>4, <4>1 DEF IInv, CacheCoherent, Lookup
    <3>2. CASE cacheOf[x] = cacheOf[e]
      <4>1. caches'[cacheOf[x]] = Stored(Lookup(e), ev, found)
        BY <2>1, <2>2, <3>2 DEF Lookup
      <4>2. trie[x] = trie[e]
        BY <3>2 DEF IInv, SharedCacheSameTrie
      <4>3. CASE y = ev
        BY <4>1, <4>2, <4>3 DEF Stored
      <4>4. CASE y # ev
        <5>1. y \in DOMAIN Lookup(e)
          BY <2>4, <4>1, <4>4 DEF Stored
        <5>2. Stored(Lookup(e), ev, found)[y] = Lookup(e)[y]
          BY <4>4, <5>1 DEF Stored
        <5>3. QED BY <4>1, <4>2, <5>1, <5>2 DEF IInv, CacheCoherent
      <4>5. QED BY <4>3, <4>4
    <3>3. QED BY <3>1, <3>2
  <2>5. CacheCoherent'
    BY <2>1, <2>4 DEF CacheCoherent, Lookup
  <2>6. QED BY <2>3, <2>5 DEF IInv
<1>3. QED BY <1>1, <1>2

LEMMA CopyKeeps ==
  ASSUME IInv, NEW e \in live, NEW new \in Emitter, Copy(e, new)
  PROVE  IInv'
<1> USE DEF IInv, Shapes, Copy
<1>1. /\ e \in Emitter /\ e # new
      /\ cacheOf'[new] = cacheOf[e] /\ trie'[new] = trie[e]
      /\ \A x \in live : cacheOf'[x] = cacheOf[x] /\ trie'[x] = trie[x]
  OBVIOUS
<1>2. Shapes'
  BY <1>1
<1>3. SharedCacheSameTrie'
  BY <1>1 DEF SharedCacheSameTrie
<1>4. CacheCoherent'
  BY <1>1 DEF CacheCoherent, Lookup
<1>5. QED BY <1>2, <1>3, <1>4

\* The end of every unregister call.
LEMMA DiscardKeeps ==
  ASSUME IInv, NEW e \in live, NEW p, NEW h, Discard(e, p, h)
  PROVE  IInv'
<1>1. CASE RemoveOutcome(trie[e], p) = "ok"
  <2>1. /\ trie' = [trie EXCEPT ![e] = RemoveItem(trie[e], p, h)]
        /\ FreshCache(e) /\ live' = live
    BY <1>1 DEF Discard, IInv, Shapes
  <2>2. QED BY <2>1, FreshCacheKeeps
<1>2. CASE RemoveOutcome(trie[e], p) # "ok"
  BY <1>2, UntouchedKeeps DEF Discard
<1>3. QED BY <1>1, <1>2

LEMMA AddHandlerKeeps ==
  ASSUME IInv, NEW e \in live, NEW p, NEW h, NEW s, AddHandler(e, p, h, s)
  PROVE  IInv'
<1>1. trie' = [trie EXCEPT ![e] = AppendItem(trie[e], p, h, s)] /\ FreshCache(e) /\ live' = live
  BY DEF AddHandler, IInv, Shapes
<1>2. QED BY <1>1, FreshCacheKeeps

LEMMA NextKeeps == IInv /\ [Next]_vars => IInv'
<1> SUFFICES ASSUME IInv, [Next]_vars PROVE IInv'
  OBVIOUS
<1>1. ASSUME NEW e \in live, Calls(e) PROVE IInv'
  <2>1. ASSUME NEW ev \in Event, Emit(e, ev) PROVE IInv'
    BY <2>1, EmitKeeps
  <2>2. ASSUME NEW p \in Pattern, NEW h \in Handler, NEW s \in Section, Register(e, p, h, s)
        PROVE  IInv'
    BY <2>2, AddHandlerKeeps DEF Register
  <2>3. ASSUME NEW p \in Pattern, NEW h \in Handler, NEW s \in Section, NEW u \in Uid,
               NEW c \in BOOLEAN, RegisterId(e, p, h, s, u, c)
        PROVE  IInv'
    BY <2>3, AddHandlerKeeps DEF RegisterId
  <2>4. ASSUME NEW u \in Uid, NEW c \in BOOLEAN, RegisterAgain(e, u, c) PROVE IInv'
    BY <2>4, UntouchedKeeps DEF RegisterAgain
  <2>5. ASSUME NEW u \in Uid, NEW c \in BOOLEAN, CountMismatch(e, u, c) PROVE IInv'
    BY <2>5, UntouchedKeeps DEF CountMismatch
  <2>6. ASSUME NEW p \in Pattern, NEW h \in Handler, Unregister(e, p, h) PROVE IInv'
    BY <2>6, DiscardKeeps DEF Unregister
  <2>7. ASSUME NEW u \in Uid, UnregisterUnknownId(e, u) PROVE IInv'
    BY <2>7, UntouchedKeeps DEF UnregisterUnknownId
  <2>8. ASSUME NEW u \in Uid, UnregisterOneOfMany(e, u) PROVE IInv'
    BY <2>8, UntouchedKeeps DEF UnregisterOneOfMany
  <2>9. ASSUME NEW p \in Pattern, NEW u \in Uid, UnregisterId(e, p, u) PROVE IInv'
    BY <2>9, DiscardKeeps DEF UnregisterId
  <2>10. ASSUME NEW new \in Emitter, Copy(e, new) PROVE IInv'
    BY <2>10, CopyKeeps
  <2>11. QED
    BY <1>1, <2>1, <2>2, <2>3, <2>4, <2>5, <2>6, <2>7, <2>8, <2>9, <2>10 DEF Calls
<1>2. CASE UNCHANGED vars
  BY <1>2, UntouchedKeeps DEF vars, cacheVars
<1>3. QED BY <1>1, <1>2 DEF Next

LEMMA InitIInv == Init => IInv
<1> SUFFICES ASSUME Init PROVE IInv
  OBVIOUS
<1>1. PICK r \in Ref : cacheOf = [e \in Emitter |-> IF e = Session THEN r ELSE NoRef]
  BY DEF Init
<1>2. Session \in Emitter
  BY EmitterAssumption
<1>3. QED
  BY <1>1, <1>2 DEF Init, IInv, Shapes, SharedCacheSameTrie, CacheCoherent, Lookup, EmptyCache

\* No emitter ever calls a stale list of handlers: in every reachable state each
\* cached entry is what the search of the emitter's own trie returns.
THEOREM CacheAlwaysCoherent == Spec => []CacheCoherent
<1>1. IInv => CacheCoherent
  BY DEF IInv
<1>2. QED
  BY InitIInv, NextKeeps, <1>1, PTL DEF Spec
-----------------------------------------------------------------------------
\* The first entry of a sequence, if it has one, can be removed.
LEMMA RemoveFirstType ==
  ASSUME NEW s \in Seq(Handler), NEW h
  PROVE  RemoveFirst(s, h) \in Seq(Handler)
<1> DEFINE I == {i \in 1..Len(s) : s[i] = h}
           k == SelectInSeq(s, LAMBDA v : v = h)
<1>1. CASE ~ \E i \in 1..Len(s) : s[i] = h
  BY <1>1 DEF RemoveFirst
<1>2. CASE \E i \in 1..Len(s) : s[i] = h
  <2>1. k = Min(I)
    BY <1>2 DEF SelectInSeq
  <2>2. \E i \in I : \A j \in I : i <= j
    <3>1. I \in SUBSET (1..Len(s)) /\ I # {} /\ Len(s) \in Nat
      BY <1>2
    <3> HIDE DEF I
    <3> QED
      BY <3>1, LeastIndex
  <2>3. k \in 1..Len(s)
    <3>1. Min(I) \in I
      BY <2>2 DEF Min
    <3> QED
      BY <2>1, <3>1
  <2>4. RemoveFirst(s, h) = SubSeq(s, 1, k - 1) \o SubSeq(s, k + 1, Len(s))
    BY <1>2 DEF RemoveFirst, RemoveAt
  <2> HIDE DEF k
  <2>5. SubSeq(s, 1, k - 1) \in Seq(Handler)
    BY <2>3, SubSeqProperties
  <2>6. SubSeq(s, k + 1, Len(s)) \in Seq(Handler)
    BY <2>3, SubSeqProperties
  <2> QED
    BY <2>4, <2>5, <2>6
<1> QED
  BY <1>1, <1>2

\* The nodes on the way to a key: the key itself and the parents of the others.
LEMMA PathProperties ==
  ASSUME NEW key \in Seq(Chunk)
  PROVE  /\ PathTo(key) \subseteq Seq(Chunk)
         /\ key \in PathTo(key) /\ << >> \in PathTo(key)
         /\ \A i \in 0..Len(key) : Len(SubSeq(key, 1, i)) = i
         /\ \A p \in PathTo(key) : p # << >> => SubSeq(p, 1, Len(p) - 1) \in PathTo(key)
<1>1. \A i \in 0..Len(key) : SubSeq(key, 1, i) \in Seq(Chunk) /\ Len(SubSeq(key, 1, i)) = i
  <2> SUFFICES ASSUME NEW i \in 0..Len(key)
               PROVE  SubSeq(key, 1, i) \in Seq(Chunk) /\ Len(SubSeq(key, 1, i)) = i
    OBVIOUS
  <2>1. \A j \in 1..i : key[j] \in Chunk
    OBVIOUS
  <2> QED
    BY <2>1, SubSeqProperties
<1>2. SubSeq(key, 1, Len(key)) = key
  BY SubSeqFull
<1>3. SubSeq(key, 1, 0) = << >>
  BY SubSeqEmpty
<1>4. ASSUME NEW i \in 1..Len(key)
      PROVE  SubSeq(SubSeq(key, 1, i), 1, i - 1) = SubSeq(key, 1, i - 1)
  <2>1. CASE i = 1
    BY <2>1, SubSeqEmpty
  <2>2. CASE i > 1
    <3>1. /\ i \in 1..Len(key) /\ 1 \in 1..Len(key)
          /\ 1 \in 1..(i - 1 + 1) /\ i - 1 \in 1..(i - 1 + 1)
      BY <2>2
    <3>2. SubSeq(SubSeq(key, 1, i), 1, i - 1) = SubSeq(key, 1 + 1 - 1, 1 + (i - 1) - 1)
      BY <3>1, SubSeqOfSubSeq
    <3> QED
      BY <3>2
  <2> QED
    BY <2>1, <2>2
<1>5. Len(key) \in Nat
  OBVIOUS
<1>6. ASSUME NEW p \in PathTo(key), p # << >>
      PROVE  SubSeq(p, 1, Len(p) - 1) \in PathTo(key)
  <2>1. PICK i \in 0..Len(key) : p = SubSeq(key, 1, i)
    BY DEF PathTo
  <2>2. i \in 1..Len(key)
    BY <1>3, <1>6, <2>1
  <2>3. Len(p) = i
    BY <1>1, <2>1
  <2>4. SubSeq(p, 1, Len(p) - 1) = SubSeq(key, 1, i - 1)
    BY <1>4, <2>1, <2>2, <2>3
  <2>5. i - 1 \in 0..Len(key)
    BY <1>5, <2>2
  <2>6. SubSeq(key, 1, i - 1) \in PathTo(key)
    BY <2>5 DEF PathTo
  <2> QED
    BY <2>4, <2>6
<1>7. PathTo(key) \subseteq Seq(Chunk)
  BY <1>1, Zenon DEF PathTo
<1>8. key \in PathTo(key)
  <2>1. Len(key) \in 0..Len(key)
    BY <1>5
  <2>2. SubSeq(key, 1, Len(key)) \in PathTo(key)
    BY <2>1, Zenon DEF PathTo
  <2> QED
    BY <1>2, <2>2
<1>9. << >> \in PathTo(key)
  <2>1. 0 \in 0..Len(key)
    BY <1>5
  <2>2. SubSeq(key, 1, 0) \in PathTo(key)
    BY <2>1, Zenon DEF PathTo
  <2> QED
    BY <1>3, <2>2
<1> QED
  BY <1>1, <1>6, <1>7, <1>8, <1>9

LEMMA AppendIsTrie ==
  ASSUME NEW t, IsTrie(t), NEW key \in Seq(Chunk), NEW h \in Handler, NEW s \in Section
  PROVE  IsTrie(AppendItem(t, key, h, s))
<1> DEFINE new == AppendItem(t, key, h, s)
<1>1. DOMAIN new = DOMAIN t \cup PathTo(key)
  BY DEF AppendItem
<1>2. HandlersAt(t, key) \in NodeList
  BY DEF HandlersAt, IsTrie, NodeList, EmptyNodeList
<1>3. [HandlersAt(t, key) EXCEPT ![s] = Append(@, h)] \in NodeList
  <2> DEFINE v == HandlersAt(t, key)
  <2>1. v \in NodeList /\ v.first \in Seq(Handler) /\ v.middle \in Seq(Handler) /\ v.last \in Seq(Handler)
    BY <1>2 DEF NodeList
  <2> HIDE DEF v
  <2>2. CASE s = "first"
    <3>1. [v EXCEPT ![s] = Append(@, h)] = [v EXCEPT !.first = Append(v.first, h)]
      BY <2>2
    <3>2. Append(v.first, h) \in Seq(Handler)
      BY <2>1
    <3>3. [v EXCEPT !.first = Append(v.first, h)] \in NodeList
      BY <2>1, <3>2 DEF NodeList
    <3> QED
      BY <3>1, <3>3, Zenon DEF v
  <2>3. CASE s = "middle"
    <3>1. [v EXCEPT ![s] = Append(@, h)] = [v EXCEPT !.middle = Append(v.middle, h)]
      BY <2>3
    <3>2. Append(v.middle, h) \in Seq(Handler)
      BY <2>1
    <3>3. [v EXCEPT !.middle = Append(v.middle, h)] \in NodeList
      BY <2>1, <3>2 DEF NodeList
    <3> QED
      BY <3>1, <3>3, Zenon DEF v
  <2>4. CASE s = "last"
    <3>1. [v EXCEPT ![s] = Append(@, h)] = [v EXCEPT !.last = Append(v.last, h)]
      BY <2>4
    <3>2. Append(v.last, h) \in Seq(Handler)
      BY <2>1
    <3>3. [v EXCEPT !.last = Append(v.last, h)] \in NodeList
      BY <2>1, <3>2 DEF NodeList
    <3> QED
      BY <3>1, <3>3, Zenon DEF v
  <2> QED
    BY <2>2, <2>3, <2>4 DEF Section
<1>4. \A p \in DOMAIN new : new[p] \in NodeList \cup {NoValues}
  BY <1>1, <1>3 DEF AppendItem, IsTrie
<1>5. \A p \in DOMAIN new : p # << >> => SubSeq(p, 1, Len(p) - 1) \in DOMAIN new
  BY <1>1, PathProperties DEF IsTrie
<1> HIDE DEF new
<1>6. DOMAIN new \subseteq Seq(Chunk) /\ << >> \in DOMAIN new
  BY <1>1, PathProperties DEF IsTrie
<1> QED
  BY <1>4, <1>5, <1>6 DEF IsTrie, new

LEMMA DropValueType ==
  ASSUME NEW v \in NodeList, NEW h
  PROVE  DropValue(v, h) \in NodeList
<1>1. \A q \in {v.first, v.middle, v.last} : RemoveFirst(q, h) \in Seq(Handler)
  BY RemoveFirstType DEF NodeList
<1> QED
  BY <1>1 DEF DropValue, NodeList

\* A node goes only with all nodes below it: what _remove_item deletes on its way up
\* leaves every other node its parent.
LEMMA RemoveIsTrie ==
  ASSUME NEW t, IsTrie(t), NEW key \in Seq(Chunk), NEW h, RemoveOutcome(t, key) = "ok"
  PROVE  IsTrie(RemoveItem(t, key, h))
<1> DEFINE dropped == [t EXCEPT ![key] = DropValue(@, h)]
           new == RemoveItem(t, key, h)
           node(i) == SubSeq(key, 1, i)
           bare(i) == /\ dropped[node(i)] = NoValues
                      /\ \A q \in DOMAIN dropped :
                           Len(q) = i + 1 /\ SubSeq(q, 1, i) = node(i) => q \in PathTo(key)
<1>1. key \in DOMAIN t /\ t[key] \in NodeList
  BY DEF RemoveOutcome, IsTrie
<1>2. DOMAIN dropped = DOMAIN t /\ \A p \in DOMAIN t : dropped[p] \in NodeList \cup {NoValues}
  BY <1>1, DropValueType DEF IsTrie
<1>3. DeletedNodes(dropped, key) =
        {node(i) : i \in {j \in 1..Len(key) : \A k \in j..Len(key) : bare(k)}}
  BY DEF DeletedNodes
<1>4. /\ DOMAIN new = DOMAIN t \ DeletedNodes(dropped, key)
      /\ \A p \in DOMAIN new : new[p] = dropped[p]
  BY <1>2 DEF RemoveItem
<1>5. << >> \notin DeletedNodes(dropped, key)
  <2>1. \A i \in 1..Len(key) : Len(node(i)) = i
    BY PathProperties
  <2> HIDE DEF dropped, bare
  <2> QED
    BY <1>3, <2>1
<1>6. ASSUME NEW p \in DOMAIN new, p # << >>
      PROVE  SubSeq(p, 1, Len(p) - 1) \in DOMAIN new
  <2>1. p \in DOMAIN t /\ p \in Seq(Chunk) /\ p \notin DeletedNodes(dropped, key)
    BY <1>4, <1>6 DEF IsTrie
  <2>2. SubSeq(p, 1, Len(p) - 1) \in DOMAIN t
    BY <1>6, <2>1 DEF IsTrie
  <2>3. ASSUME SubSeq(p, 1, Len(p) - 1) \in DeletedNodes(dropped, key)
        PROVE  FALSE
    <3>1. PICK i \in 1..Len(key) :
            SubSeq(p, 1, Len(p) - 1) = node(i) /\ \A k \in i..Len(key) : bare(k)
      BY <1>3, <2>3
    <3>2. Len(p) \in Nat \ {0} /\ Len(key) \in Nat
      BY <1>6, <2>1
    <3>3. Len(SubSeq(p, 1, Len(p) - 1)) = Len(p) - 1
      <4>1. Len(p) - 1 \in 0..Len(p)
        BY <3>2
      <4> QED
        BY <2>1, <4>1, PathProperties
    <3>4. Len(p) = i + 1
      <4>1. Len(node(i)) = i
        BY PathProperties
      <4> QED
        BY <3>1, <3>2, <3>3, <4>1
    <3>5. bare(i)
      BY <3>1, <3>2
    <3>6. p \in PathTo(key)
      <4>1. SubSeq(p, 1, i) = node(i)
        BY <3>1, <3>4
      <4> QED
        BY <1>2, <2>1, <3>4, <3>5, <4>1
    <3>7. PICK j \in 0..Len(key) : p = node(j)
      BY <3>6 DEF PathTo
    <3>8. j = i + 1
      <4>1. Len(node(j)) = j
        BY PathProperties
      <4> QED
        BY <3>4, <3>7, <4>1
    <3>9. \A k \in j..Len(key) : bare(k)
      BY <3>1, <3>2, <3>8
    <3>10. p \in DeletedNodes(dropped, key)
      <4>1. j \in 1..Len(key)
        BY <3>7, <3>8
      <4> HIDE DEF bare, dropped
      <4> QED
        BY <1>3, <3>7, <3>9, <4>1
    <3> QED
      BY <2>1, <3>10
  <2> QED
    BY <1>4, <2>2, <2>3
<1> HIDE DEF dropped, new
<1>7. DOMAIN new \subseteq Seq(Chunk) /\ << >> \in DOMAIN new
  BY <1>4, <1>5 DEF IsTrie
<1>8. \A p \in DOMAIN new : new[p] \in NodeList \cup {NoValues}
  BY <1>2, <1>4
<1> QED
  BY <1>6, <1>7, <1>8 DEF IsTrie, new
-----------------------------------------------------------------------------
\* The two halves of the type: tries and caches, and the unique ids.
TriesOK ==
  /\ live \subseteq Emitter
  /\ DOMAIN trie = Emitter /\ \A e \in Emitter : IsTrie(trie[e])
  /\ cacheOf \in [Emitter -> Ref \cup {NoRef}]
  /\ \A e \in live : cacheOf[e] \in Ref
  /\ DOMAIN caches = Ref /\ \A r \in Ref : IsCache(caches[r])

IdsOK ==
  /\ uids \in [Emitter -> [Uid -> Ref \cup {NoRef}]]
  /\ records \in [Uid -> [Ref -> Record \cup {NoRecord}]]
  /\ balance \in [Emitter -> [Uid -> 0..MaxCount]]
  /\ home \in [Emitter -> [Uid -> Pair \cup {NoRef}]]
  /\ loose \in [Emitter -> [Pair -> Nat \cup {Upset}]]

\* What a call writes into the account of loose handlers is a number or Upset.
Accounts == [Pair -> Nat \cup {Upset}]
LEMMA OneAccountType ==
  ASSUME IdsOK, NEW e \in Emitter, NEW x, NEW n \in Nat \cup {Upset},
         loose' = [loose EXCEPT ![e][x] = n]
  PROVE  loose' \in [Emitter -> Accounts]
BY DEF IdsOK, Accounts

LEMMA SharersType ==
  ASSUME IdsOK, NEW e, NEW u, SharersUpset(e, u)
  PROVE  loose' \in [Emitter -> Accounts]
<1>1. loose \in [Emitter -> Accounts]
  BY DEF IdsOK, Accounts
<1>2. \A f \in Accounts : \A x : [f EXCEPT ![x] = Upset] \in Accounts
  BY DEF Accounts
<1> HIDE DEF Accounts
<1> QED
  BY <1>1, <1>2 DEF SharersUpset

LEMMA AccountTypes ==
  /\ \A n \in Nat \cup {Upset} : OneMore(n) \in Nat \cup {Upset}
  /\ \A n \in Nat \cup {Upset} : \A times : OneLess(n, times) \in Nat \cup {Upset}
BY DEF OneMore, OneLess, Upset

LEMMA TakenAwayType ==
  ASSUME IdsOK, NEW e \in Emitter, NEW p, NEW h, <<p, h>> \in Pair
  PROVE  TakenAway(e, p, h) \in Nat \cup {Upset}
<1>1. loose[e][<<p, h>>] \in Nat \cup {Upset}
  BY DEF IdsOK
<1> QED
  BY <1>1, AccountTypes DEF TakenAway

LEMMA LeftBehindType ==
  ASSUME IdsOK, NEW e \in Emitter, NEW p, NEW u, LeftBehind(e, p, u)
  PROVE  loose' \in [Emitter -> Accounts]
<1> DEFINE a == home[e][u]
           b == <<p, RecordOf(e, u).handler>>
           n == TakenAway(e, p, RecordOf(e, u).handler)
<1>0. loose \in [Emitter -> Accounts] /\ loose[e] \in Accounts
  BY DEF IdsOK, Accounts
<1>1. CASE p = home[e][u][1]
  BY <1>0, <1>1 DEF LeftBehind
<1>2. CASE p # home[e][u][1]
  <2>1. loose' = [loose EXCEPT ![e] = [[loose[e] EXCEPT ![a] = OneMore(@)] EXCEPT ![b] = n]]
    BY <1>0, <1>2 DEF LeftBehind
  <2>2. b \in Pair => n \in Nat \cup {Upset}
    BY TakenAwayType
  <2>3. a \in Pair => OneMore(loose[e][a]) \in Nat \cup {Upset}
    BY <1>0, AccountTypes DEF Accounts
  <2> HIDE DEF a, b, n
  <2>4. [loose[e] EXCEPT ![a] = OneMore(@)] \in Accounts
    BY <1>0, <2>3 DEF Accounts
  <2>5. [[loose[e] EXCEPT ![a] = OneMore(@)] EXCEPT ![b] = n] \in Accounts
    BY <2>2, <2>4 DEF Accounts
  <2> QED
    BY <1>0, <2>1, <2>5
<1> QED
  BY <1>1, <1>2

LEMMA InitTypes == Init => TriesOK /\ IdsOK
<1> SUFFICES ASSUME Init PROVE TriesOK /\ IdsOK
  OBVIOUS
<1> USE EmitterAssumption
<1>1. IsTrie(EmptyTrie)
  BY DEF IsTrie, EmptyTrie
<1>2. IsCache(EmptyCache)
  BY DEF IsCache, EmptyCache
<1>3. PICK r \in Ref : cacheOf = [e \in Emitter |-> IF e = Session THEN r ELSE NoRef]
  BY DEF Init
<1>4. TriesOK
  BY <1>1, <1>2, <1>3 DEF Init, TriesOK
<1>5. IdsOK
  BY DEF Init, IdsOK, Pair
<1> QED
  BY <1>4, <1>5

\* A changed trie that is a trie, with a fresh cache.
LEMMA FreshCacheTypes ==
  ASSUME TriesOK, NEW e \in live, NEW t, IsTrie(t), trie' = [trie EXCEPT ![e] = t],
         FreshCache(e), live' = live
  PROVE  TriesOK'
<1>1. IsCache(EmptyCache)
  BY DEF IsCache, EmptyCache
<1>2. PICK r \in Ref \ {cacheOf[x] : x \in live \ {e}} :
        /\ cacheOf' = [cacheOf EXCEPT ![e] = r]
        /\ caches' = [s \in Ref |-> IF \E x \in live \ {e} : cacheOf[x] = s
                                    THEN caches[s] ELSE EmptyCache]
  BY DEF FreshCache
<1>3. DOMAIN caches' = Ref /\ \A s \in Ref : IsCache(caches'[s])
  BY <1>1, <1>2 DEF TriesOK
<1>4. /\ cacheOf' \in [Emitter -> Ref \cup {NoRef}]
      /\ \A x \in live : cacheOf'[x] \in Ref
  BY <1>2 DEF TriesOK
<1>5. DOMAIN trie' = Emitter /\ \A x \in Emitter : IsTrie(trie'[x])
  BY DEF TriesOK
<1>6. TriesOK'
  <2>1. live' \subseteq Emitter
    BY DEF TriesOK
  <2>2. \A x \in live' : cacheOf'[x] \in Ref
    BY <1>4
  <2>3. \A x \in Emitter : IsTrie(trie[x])'
    BY <1>5 DEF IsTrie
  <2>4. \A s \in Ref : IsCache(caches[s])'
    BY <1>3 DEF IsCache
  <2> QED
    BY <1>3, <1>4, <1>5, <2>1, <2>2, <2>3, <2>4 DEF TriesOK
<1> QED
  BY <1>6

LEMMA EmitTypes ==
  ASSUME TriesOK, NEW e \in live, NEW ev \in Event, Emit(e, ev)
  PROVE  TriesOK'
<1> DEFINE found == PrefixSearch(trie[e], ev)
<1>1. \A c : IsCache(c) => IsCache(Stored(c, ev, found))
  BY DEF IsCache, Stored
<1> HIDE DEF found
<1>2. DOMAIN caches' = Ref /\ \A r \in Ref : IsCache(caches'[r])
  <2>1. CASE caches' = caches
    BY <2>1 DEF TriesOK
  <2>2. CASE caches' = [caches EXCEPT ![cacheOf[e]] = Stored(@, ev, found)]
    <3>1. caches' = [caches EXCEPT ![cacheOf[e]] = Stored(caches[cacheOf[e]], ev, found)]
      BY <2>2
    <3>2. cacheOf[e] \in Ref /\ IsCache(caches[cacheOf[e]])
      BY DEF TriesOK
    <3>3. IsCache(Stored(caches[cacheOf[e]], ev, found))
      BY <1>1, <3>2
    <3> QED
      BY <3>1, <3>2, <3>3 DEF TriesOK
  <2> QED
    BY <2>1, <2>2 DEF Emit, found
<1>3. UNCHANGED <<live, trie, cacheOf>>
  BY DEF Emit
<1> QED
  BY <1>2, <1>3 DEF TriesOK, IsCache, IsTrie

LEMMA AddHandlerTypes ==
  ASSUME TriesOK, NEW e \in live, NEW p \in Pattern, NEW h \in Handler, NEW s \in Section,
         AddHandler(e, p, h, s)
  PROVE  TriesOK'
<1>1. trie' = [trie EXCEPT ![e] = AppendItem(trie[e], p, h, s)] /\ FreshCache(e) /\ live' = live
  BY DEF AddHandler, TriesOK
<1>2. p \in Seq(Chunk) /\ IsTrie(trie[e])
  BY EmitterAssumption DEF TriesOK
<1> QED
  BY <1>1, <1>2, AppendIsTrie, FreshCacheTypes

LEMMA DiscardTypes ==
  ASSUME TriesOK, NEW e \in live, NEW p \in Pattern, NEW h, Discard(e, p, h)
  PROVE  TriesOK'
<1>1. p \in Seq(Chunk) /\ IsTrie(trie[e])
  BY EmitterAssumption DEF TriesOK
<1>2. CASE RemoveOutcome(trie[e], p) = "ok"
  <2>1. /\ trie' = [trie EXCEPT ![e] = RemoveItem(trie[e], p, h)]
        /\ FreshCache(e) /\ live' = live
    BY <1>2 DEF Discard, TriesOK
  <2> QED
    BY <1>1, <1>2, <2>1, RemoveIsTrie, FreshCacheTypes
<1>3. CASE RemoveOutcome(trie[e], p) # "ok"
  BY <1>3 DEF Discard, cacheVars, TriesOK, IsTrie, IsCache
<1> QED
  BY <1>2, <1>3

\* Every call keeps the types.
LEMMA CallsTypes ==
  ASSUME TriesOK, IdsOK, NEW e \in live, Calls(e)
  PROVE  TriesOK' /\ IdsOK'
<1> USE EmitterAssumption
<1>0. e \in Emitter
  BY DEF TriesOK
<1>a. ASSUME UNCHANGED <<live, trie, cacheVars>> PROVE TriesOK'
  BY <1>a DEF cacheVars, TriesOK, IsTrie, IsCache
<1>b. ASSUME UNCHANGED uidVars PROVE IdsOK'
  BY <1>b, Zenon DEF uidVars, ledger, IdsOK
<1>c. \A u \in Uid : uids[e][u] # NoRef => uids[e][u] \in Ref /\ RecordOf(e, u) \in Record \cup {NoRecord}
  BY <1>0 DEF IdsOK, RecordOf
<1>1. ASSUME NEW ev \in Event, Emit(e, ev) PROVE TriesOK' /\ IdsOK'
  BY <1>1, <1>b, EmitTypes DEF Emit
<1>2. ASSUME NEW p \in Pattern, NEW h \in Handler, NEW s \in Section, Register(e, p, h, s)
      PROVE  TriesOK' /\ IdsOK'
  <2>1. TriesOK'
    BY <1>2, AddHandlerTypes DEF Register
  <2>2. loose' \in [Emitter -> [Pair -> Nat \cup {Upset}]]
    <3>1. loose' = [loose EXCEPT ![e][<<p, h>>] = OneMore(loose[e][<<p, h>>])]
      BY <1>2 DEF Register
    <3>2. OneMore(loose[e][<<p, h>>]) \in Nat \cup {Upset}
      <4>1. <<p, h>> \in Pair
        BY DEF Pair
      <4> QED
        BY <1>0, <4>1 DEF IdsOK, OneMore
    <3> QED
      BY <1>0, <3>1, <3>2, OneAccountType DEF Accounts
  <2> QED
    BY <1>2, <2>1, <2>2 DEF Register, IdsOK
<1>3. ASSUME NEW p \in Pattern, NEW h \in Handler, NEW s \in Section, NEW u \in Uid,
             NEW c \in BOOLEAN, RegisterId(e, p, h, s, u, c)
      PROVE  TriesOK' /\ IdsOK'
  <2>1. TriesOK'
    BY <1>3, AddHandlerTypes DEF RegisterId
  <2>2. PICK r \in Ref : /\ uids' = [uids EXCEPT ![e][u] = r]
                         /\ records' = [records EXCEPT ![u][r] =
                                          [handler |-> h, count |-> IF c THEN 1 ELSE 0]]
    BY <1>3 DEF RegisterId
  <2>3. [handler |-> h, count |-> IF c THEN 1 ELSE 0] \in Record
    BY DEF Record
  <2>4. uids' \in [Emitter -> [Uid -> Ref \cup {NoRef}]]
    BY <1>0, <2>2 DEF IdsOK
  <2>5. records' \in [Uid -> [Ref -> Record \cup {NoRecord}]]
    <3> HIDE DEF Record, NoRecord
    <3> QED
      BY <2>2, <2>3 DEF IdsOK
  <2>6. balance' \in [Emitter -> [Uid -> 0..MaxCount]]
    BY <1>0, <1>3 DEF RegisterId, IdsOK
  <2>7. home' \in [Emitter -> [Uid -> Pair \cup {NoRef}]]
    <3>1. <<p, h>> \in Pair
      BY DEF Pair
    <3> QED
      BY <1>0, <1>3, <3>1 DEF RegisterId, IdsOK
  <2> QED
    BY <1>3, <2>1, <2>4, <2>5, <2>6, <2>7 DEF IdsOK, RegisterId
<1>4. ASSUME NEW u \in Uid, NEW c \in BOOLEAN, RegisterAgain(e, u, c) PROVE TriesOK' /\ IdsOK'
  <2>1. TriesOK'
    BY <1>4, <1>a DEF RegisterAgain
  <2>2. CASE UNCHANGED <<records, balance, loose>>
    BY <1>4, <1>b, <2>1, <2>2 DEF RegisterAgain, uidVars, ledger
  <2>3. CASE /\ c /\ SharersUpset(e, u)
             /\ records' = [records EXCEPT ![u][uids[e][u]].count = @ + 1]
             /\ balance' = [balance EXCEPT ![e][u] = @ + 1]
    <3>1. uids[e][u] \in Ref /\ RecordOf(e, u) \in Record /\ RecordOf(e, u).count < MaxCount
      <4>1. Counting(e, u)
        BY <1>4, <2>3, Zenon DEF RegisterAgain
      <4>2. uids[e][u] # NoRef /\ RecordOf(e, u).count < MaxCount
        BY <1>4 DEF RegisterAgain
      <4> QED
        BY <1>c, <4>1, <4>2 DEF Counting, NoRecord
    <3>2. [RecordOf(e, u) EXCEPT !.count = @ + 1] \in Record
      BY <3>1 DEF Record
    <3>3. records' = [records EXCEPT ![u][uids[e][u]] = [RecordOf(e, u) EXCEPT !.count = @ + 1]]
      BY <2>3, <3>1 DEF RecordOf, IdsOK
    <3>4. records' \in [Uid -> [Ref -> Record \cup {NoRecord}]]
      BY <3>1, <3>2, <3>3 DEF IdsOK
    <3>5. balance' \in [Emitter -> [Uid -> 0..MaxCount]]
      BY <1>0, <1>4, <2>3 DEF RegisterAgain, IdsOK
    <3> QED
      BY <1>4, <2>1, <2>3, <3>4, <3>5, SharersType DEF RegisterAgain, IdsOK, Accounts
  <2> QED
    BY <1>4, <2>2, <2>3 DEF RegisterAgain
<1>5. ASSUME NEW u \in Uid, NEW c \in BOOLEAN, CountMismatch(e, u, c) PROVE TriesOK' /\ IdsOK'
  BY <1>5, <1>a, <1>b DEF CountMismatch
<1>6. ASSUME NEW p \in Pattern, NEW h \in Handler, Unregister(e, p, h) PROVE TriesOK' /\ IdsOK'
  <2>1. TriesOK'
    BY <1>6, DiscardTypes DEF Unregister
  <2>2. loose' \in [Emitter -> Accounts]
    <3>1. <<p, h>> \in Pair
      BY DEF Pair
    <3> QED
      BY <1>0, <1>6, <3>1, TakenAwayType, OneAccountType DEF Unregister
  <2> QED
    BY <1>6, <2>1, <2>2 DEF Unregister, IdsOK, Accounts
<1>7. ASSUME NEW u \in Uid, UnregisterUnknownId(e, u) PROVE TriesOK' /\ IdsOK'
  BY <1>7, <1>a, <1>b DEF UnregisterUnknownId
<1>8. ASSUME NEW u \in Uid, UnregisterOneOfMany(e, u) PROVE TriesOK' /\ IdsOK'
  <2>1. TriesOK'
    BY <1>8, <1>a DEF UnregisterOneOfMany
  <2>2. uids[e][u] \in Ref /\ RecordOf(e, u) \in Record /\ RecordOf(e, u).count > 1
    BY <1>8, <1>c DEF UnregisterOneOfMany, NoRecord
  <2>3. [RecordOf(e, u) EXCEPT !.count = @ - 1] \in Record
    BY <2>2 DEF Record
  <2>4. records' = [records EXCEPT ![u][uids[e][u]] = [RecordOf(e, u) EXCEPT !.count = @ - 1]]
    BY <1>8, <2>2 DEF UnregisterOneOfMany, RecordOf, IdsOK
  <2>5. records' \in [Uid -> [Ref -> Record \cup {NoRecord}]]
    BY <2>2, <2>3, <2>4 DEF IdsOK
  <2>6. balance' \in [Emitter -> [Uid -> 0..MaxCount]]
    BY <1>0, <1>8 DEF UnregisterOneOfMany, Match, IdsOK
  <2> QED
    BY <1>8, <2>1, <2>5, <2>6, SharersType DEF UnregisterOneOfMany, IdsOK, Accounts
<1>9. ASSUME NEW p \in Pattern, NEW u \in Uid, UnregisterId(e, p, u) PROVE TriesOK' /\ IdsOK'
  <2>1. TriesOK'
    BY <1>9, DiscardTypes DEF UnregisterId
  <2>2. uids' \in [Emitter -> [Uid -> Ref \cup {NoRef}]]
    BY <1>0, <1>9 DEF UnregisterId, IdsOK
  <2>3. records' \in [Uid -> [Ref -> Record \cup {NoRecord}]]
    <3>1. KeptRecords(e, u) \in [Ref -> Record \cup {NoRecord}]
      BY DEF KeptRecords, IdsOK
    <3> QED
      BY <1>9, <3>1 DEF UnregisterId, IdsOK
  <2>4. balance' \in [Emitter -> [Uid -> 0..MaxCount]]
    BY <1>0, <1>9 DEF UnregisterId, Match, IdsOK
  <2>5. home' \in [Emitter -> [Uid -> Pair \cup {NoRef}]]
    BY <1>0, <1>9 DEF UnregisterId, IdsOK
  <2>6. loose' \in [Emitter -> Accounts]
    BY <1>0, <1>9, LeftBehindType DEF UnregisterId
  <2> QED
    BY <2>1, <2>2, <2>3, <2>4, <2>5, <2>6 DEF IdsOK, Accounts
<1>10. ASSUME NEW new \in Emitter, Copy(e, new) PROVE TriesOK' /\ IdsOK'
  <2>1. TriesOK'
    BY <1>0, <1>10 DEF Copy, TriesOK, IsTrie, IsCache
  <2>2. IdsOK'
    BY <1>0, <1>10 DEF Copy, IdsOK
  <2> QED
    BY <2>1, <2>2
<1> QED
  BY <1>1, <1>2, <1>3, <1>4, <1>5, <1>6, <1>7, <1>8, <1>9, <1>10 DEF Calls

LEMMA StepTypes == TriesOK /\ IdsOK /\ [Next]_vars => TriesOK' /\ IdsOK'
<1> SUFFICES ASSUME TriesOK, IdsOK, [Next]_vars
             PROVE  TriesOK' /\ IdsOK'
  OBVIOUS
<1>1. CASE UNCHANGED vars
  BY <1>1 DEF vars, cacheVars, uidVars, ledger, TriesOK, IdsOK, IsTrie, IsCache
<1> QED
  BY <1>1, CallsTypes DEF Next

\* Every state is of its type: above all the tries stay trees, whatever is registered
\* and removed (hooks.py 451-471 deletes nodes on its way back up).
THEOREM TypesHold == Spec => []TypeOK
<1>1. TriesOK /\ IdsOK => TypeOK
  BY DEF TriesOK, IdsOK, TypeOK
<1> QED
  BY <1>1, InitTypes, StepTypes, PTL DEF Spec
-----------------------------------------------------------------------------
\* The sections of a node's values are lists of handlers.
LEMMA SectionsAreLists ==
  ASSUME NEW v \in NodeList, NEW s \in Section
  PROVE  v[s] \in Seq(Handler)
BY DEF NodeList, Section

\* An append puts the handler behind those of one section.
LEMMA AppendedSections ==
  ASSUME NEW v \in NodeList, NEW s \in Section, NEW h \in Handler
  PROVE  /\ [v EXCEPT ![s] = Append(@, h)][s] = Append(v[s], h)
         /\ \A x \in Section \ {s} : [v EXCEPT ![s] = Append(@, h)][x] = v[x]
<1>1. DOMAIN v = Section
  BY DEF NodeList, Section
<1> QED
  BY <1>1
\* The sequence r is q without its entry at position k.
ClosedUp(q, r, k) ==
  /\ Len(r) = Len(q) - 1
  /\ \A j \in 1..Len(q) - 1 : r[j] = IF j < k THEN q[j] ELSE q[j + 1]

\* What follows the first occurrence of a value moves up by one place.
LEMMA RemoveFirstCloses ==
  ASSUME NEW q \in Seq(Handler), NEW h, Contains(q, h)
  PROVE  \E k \in 1..Len(q) : q[k] = h /\ ClosedUp(q, RemoveFirst(q, h), k)
<1> DEFINE I == {i \in 1..Len(q) : q[i] = h}
           k == SelectInSeq(q, LAMBDA v : v = h)
<1>1. \E i \in 1..Len(q) : q[i] = h
  BY DEF Contains
<1>2. k = Min(I)
  BY <1>1 DEF SelectInSeq
<1>3. \E i \in I : \A j \in I : i <= j
  <2>1. I \in SUBSET (1..Len(q)) /\ I # {} /\ Len(q) \in Nat
    BY <1>1
  <2> HIDE DEF I
  <2> QED
    BY <2>1, LeastIndex
<1>4. k \in 1..Len(q) /\ q[k] = h
  <2>1. Min(I) \in I
    BY <1>3 DEF Min
  <2> QED
    BY <1>2, <2>1
<1>5. RemoveFirst(q, h) = SubSeq(q, 1, k - 1) \o SubSeq(q, k + 1, Len(q))
  BY <1>1 DEF RemoveFirst, RemoveAt
<1> HIDE DEF k
<1>6. /\ SubSeq(q, 1, k - 1) \in Seq(Handler) /\ Len(SubSeq(q, 1, k - 1)) = k - 1
      /\ \A j \in 1..k - 1 : SubSeq(q, 1, k - 1)[j] = q[j]
  BY <1>4, SubSeqProperties
<1>7. /\ SubSeq(q, k + 1, Len(q)) \in Seq(Handler)
      /\ Len(SubSeq(q, k + 1, Len(q))) = Len(q) - k
      /\ \A j \in 1..Len(q) - k : SubSeq(q, k + 1, Len(q))[j] = q[k + j]
  <2>1. Len(q) \in Nat /\ k + 1 \in 1..Len(q) + 1
    BY <1>4
  <2>2. CASE k = Len(q)
    <3>1. SubSeq(q, k + 1, Len(q)) = << >>
      BY <2>1, <2>2, SubSeqEmpty
    <3> QED
      BY <2>1, <2>2, <3>1
  <2>3. CASE k < Len(q)
    <3>1. \A j \in k + 1..Len(q) : q[j] \in Handler
      BY <1>4
    <3> QED
      BY <1>4, <2>1, <2>3, <3>1, SubSeqProperties
  <2> QED
    BY <1>4, <2>2, <2>3
<1> DEFINE a == SubSeq(q, 1, k - 1)
           b == SubSeq(q, k + 1, Len(q))
           r == RemoveFirst(q, h)
<1>8. /\ a \in Seq(Handler) /\ Len(a) = k - 1 /\ \A j \in 1..k - 1 : a[j] = q[j]
      /\ b \in Seq(Handler) /\ Len(b) = Len(q) - k
      /\ \A j \in 1..Len(q) - k : b[j] = q[k + j]
      /\ r = a \o b /\ Len(q) \in Nat
  BY <1>5, <1>6, <1>7
<1> HIDE DEF a, b, r
<1>9. /\ Len(r) = Len(a) + Len(b)
      /\ \A j \in 1..Len(a) + Len(b) : r[j] = IF j <= Len(a) THEN a[j] ELSE b[j - Len(a)]
  BY <1>8, ConcatProperties
<1>10. Len(r) = Len(q) - 1
  BY <1>4, <1>8, <1>9
<1>11. ASSUME NEW j \in 1..Len(q) - 1
       PROVE  r[j] = IF j < k THEN q[j] ELSE q[j + 1]
  <2>1. r[j] = IF j <= Len(a) THEN a[j] ELSE b[j - Len(a)]
    BY <1>4, <1>8, <1>9, <1>11
  <2>2. CASE j < k
    BY <1>4, <1>8, <2>1, <2>2
  <2>3. CASE ~ (j < k)
    <3>1. j - Len(a) \in 1..Len(q) - k
      BY <1>4, <1>8, <2>3
    <3>2. b[j - Len(a)] = q[k + (j - Len(a))]
      BY <1>8, <3>1
    <3>3. k + (j - Len(a)) = j + 1
      BY <1>4, <1>8
    <3> QED
      BY <1>4, <1>8, <2>1, <2>3, <3>2, <3>3
  <2> QED
    BY <2>2, <2>3
<1>12. ClosedUp(q, r, k)
  BY <1>10, <1>11 DEF ClosedUp
<1> QED
  BY <1>4, <1>12 DEF r

\* w is v without the entry at position k of the list s.
WithoutEntry(v, w, s, k) ==
  /\ ClosedUp(v[s], w[s], k)
  /\ \A x \in Section \ {s} : w[x] = v[x]

\* remove_item takes one entry of the handler from a node that has one.
LEMMA DropTakesOne ==
  ASSUME NEW v \in NodeList, NEW h, NEW x \in Section, Contains(v[x], h)
  PROVE  \E s \in Section : \E k \in 1..Len(v[s]) :
           v[s][k] = h /\ WithoutEntry(v, DropValue(v, h), s, k)
<1> DEFINE lost(s) == [v EXCEPT ![s] = RemoveFirst(v[s], h)]
<1>1. DOMAIN v = Section
  BY DEF NodeList, Section
<1>2. ASSUME NEW s \in Section, Contains(v[s], h), DropValue(v, h) = lost(s)
      PROVE  \E k \in 1..Len(v[s]) : v[s][k] = h /\ WithoutEntry(v, DropValue(v, h), s, k)
  <2>1. v[s] \in Seq(Handler)
    BY SectionsAreLists
  <2>2. PICK k \in 1..Len(v[s]) : v[s][k] = h /\ ClosedUp(v[s], RemoveFirst(v[s], h), k)
    BY <1>2, <2>1, RemoveFirstCloses
  <2>3. lost(s)[s] = RemoveFirst(v[s], h) /\ \A y \in Section \ {s} : lost(s)[y] = v[y]
    BY <1>1
  <2> HIDE DEF lost
  <2>4. WithoutEntry(v, DropValue(v, h), s, k)
    BY <1>2, <2>2, <2>3 DEF WithoutEntry
  <2> QED
    BY <2>2, <2>4
<1>3. CASE Contains(v.first, h)
  <2>1. DropValue(v, h) = lost("first")
    BY <1>3 DEF DropValue
  <2> QED
    BY <1>2, <1>3, <2>1 DEF Section
<1>4. CASE ~ Contains(v.first, h) /\ Contains(v.middle, h)
  <2>1. DropValue(v, h) = lost("middle")
    BY <1>4 DEF DropValue
  <2> QED
    BY <1>2, <1>4, <2>1 DEF Section
<1>5. CASE ~ Contains(v.first, h) /\ ~ Contains(v.middle, h) /\ Contains(v.last, h)
  <2>1. DropValue(v, h) = lost("last")
    BY <1>5 DEF DropValue
  <2> QED
    BY <1>2, <1>5, <2>1 DEF Section
<1>6. Contains(v.first, h) \/ Contains(v.middle, h) \/ Contains(v.last, h)
  BY DEF Section
<1> QED
  BY <1>3, <1>4, <1>5, <1>6

\* The handlers of a node that has none of h stay as they are.
LEMMA DropTakesNone ==
  ASSUME NEW v \in NodeList, NEW h, \A x \in Section : ~ Contains(v[x], h)
  PROVE  DropValue(v, h) = v
BY DEF DropValue, Section

\* A node that had a handler keeps its values, empty lists or not, so remove_item
\* deletes no node and changes the values of one.
LEMMA RemoveKeepsNodes ==
  ASSUME NEW t, IsTrie(t), NEW key \in Seq(Chunk), NEW h, RemoveOutcome(t, key) = "ok"
  PROVE  RemoveItem(t, key, h) = [t EXCEPT ![key] = DropValue(t[key], h)]
<1> DEFINE dropped == [t EXCEPT ![key] = DropValue(@, h)]
           node(i) == SubSeq(key, 1, i)
           bare(i) == /\ dropped[node(i)] = NoValues
                      /\ \A q \in DOMAIN dropped :
                           Len(q) = i + 1 /\ SubSeq(q, 1, i) = node(i) => q \in PathTo(key)
<1>1. key \in DOMAIN t /\ t[key] \in NodeList
  BY DEF RemoveOutcome, IsTrie
<1>2. dropped[key] = DropValue(t[key], h)
  BY <1>1
<1>3. dropped[key] # NoValues
  <2>1. DropValue(t[key], h) \in NodeList
    BY <1>1, DropValueType
  <2> QED
    BY <1>2, <2>1, TrieAssumption DEF NodeList
<1>4. node(Len(key)) = key
  BY SubSeqFull
<1>5. DeletedNodes(dropped, key) =
        {node(i) : i \in {j \in 1..Len(key) : \A k \in j..Len(key) : bare(k)}}
  BY DEF DeletedNodes
<1>6. ~ bare(Len(key))
  <2> HIDE DEF dropped
  <2> QED
    BY <1>3, <1>4
<1>7. {j \in 1..Len(key) : \A k \in j..Len(key) : bare(k)} = {}
  <2> HIDE DEF bare
  <2>1. Len(key) \in Nat
    OBVIOUS
  <2> QED
    BY <1>6, <2>1
<1>8. DeletedNodes(dropped, key) = {}
  <2> HIDE DEF dropped, bare
  <2> QED
    BY <1>5, <1>7
<1>9. RemoveItem(t, key, h) = [p \in DOMAIN t \ DeletedNodes(dropped, key) |-> dropped[p]]
  BY DEF RemoveItem
<1>10. RemoveItem(t, key, h) = [p \in DOMAIN t |-> dropped[p]]
  <2> HIDE DEF dropped
  <2> QED
    BY <1>8, <1>9
<1> QED
  BY <1>1, <1>10

\* Where one entry is taken that nobody sits on, everybody keeps a seat.
\* How often a handler stands in a list is a number, and only entries count.
LEMMA OccurrencesCount ==
  ASSUME NEW q \in Seq(Handler), NEW h
  PROVE  /\ IsFiniteSet({i \in DOMAIN q : q[i] = h})
         /\ Occurrences(q, h) \in Nat
         /\ Occurrences(q, h) > 0 <=> Contains(q, h)
<1> DEFINE I == {i \in DOMAIN q : q[i] = h}
<1>1. IsFiniteSet(1..Len(q)) /\ I \in SUBSET (1..Len(q))
  BY FS_Interval
<1> HIDE DEF I
<1>2. IsFiniteSet(I)
  BY <1>1, FS_Subset
<1>3. Cardinality(I) \in Nat /\ (Cardinality(I) = 0 <=> I = {})
  BY <1>2, FS_CardinalityType, FS_EmptySet
<1>4. Occurrences(q, h) = Cardinality(I)
  BY DEF Occurrences, I
<1>5. I # {} <=> Contains(q, h)
  BY DEF I, Contains
<1> QED
  BY <1>2, <1>3, <1>4, <1>5 DEF I

LEMMA OccurrencesAppended ==
  ASSUME NEW q \in Seq(Handler), NEW g \in Handler, NEW h
  PROVE  Occurrences(Append(q, g), h) = Occurrences(q, h) + (IF g = h THEN 1 ELSE 0)
<1> DEFINE I == {i \in DOMAIN q : q[i] = h}
           J == {i \in DOMAIN Append(q, g) : Append(q, g)[i] = h}
           n == Len(q) + 1
<1>1. /\ DOMAIN Append(q, g) = 1..n /\ Append(q, g)[n] = g
      /\ \A i \in 1..Len(q) : Append(q, g)[i] = q[i]
      /\ DOMAIN q = 1..Len(q) /\ Len(q) \in Nat
  OBVIOUS
<1>2. IsFiniteSet(I) /\ n \notin I
  <2>1. IsFiniteSet(I)
    BY OccurrencesCount
  <2>2. n \notin I
    BY <1>1
  <2> QED
    BY <2>1, <2>2
<1>3. J = IF g = h THEN I \cup {n} ELSE I
  BY <1>1
<1> HIDE DEF I, J, n
<1>4. Cardinality(J) = Cardinality(I) + (IF g = h THEN 1 ELSE 0)
  <2>1. Cardinality(I) \in Nat
    BY <1>2, FS_CardinalityType
  <2>2. CASE g = h
    BY <1>2, <1>3, <2>2, FS_AddElement
  <2>3. CASE g # h
    BY <1>3, <2>1, <2>3
  <2> QED
    BY <2>2, <2>3
<1> QED
  BY <1>4 DEF Occurrences, I, J

\* What stands behind the entry that goes moves up, and stands there as often.
LEMMA OccurrencesClosedUp ==
  ASSUME NEW q \in Seq(Handler), NEW r \in Seq(Handler), NEW k \in 1..Len(q),
         ClosedUp(q, r, k), NEW h
  PROVE  Occurrences(r, h) = Occurrences(q, h) - (IF q[k] = h THEN 1 ELSE 0)
<1> DEFINE I == {i \in DOMAIN q : q[i] = h}
           J == {i \in DOMAIN r : r[i] = h}
           f == [i \in I \ {k} |-> IF i < k THEN i ELSE i - 1]
<1>1. /\ DOMAIN q = 1..Len(q) /\ Len(q) \in Nat /\ DOMAIN r = 1..(Len(q) - 1)
      /\ \A j \in 1..Len(q) - 1 : r[j] = IF j < k THEN q[j] ELSE q[j + 1]
  BY DEF ClosedUp
<1>2. IsFiniteSet(I) /\ IsFiniteSet(I \ {k})
  BY OccurrencesCount, FS_RemoveElement
<1>3. \A i \in I \ {k} : f[i] \in J
  BY <1>1
<1>4. \A i, j \in I \ {k} : f[i] = f[j] => i = j
  BY <1>1
<1>5. \A j \in J : \E i \in I \ {k} : f[i] = j
  <2> SUFFICES ASSUME NEW j \in J PROVE \E i \in I \ {k} : f[i] = j
    OBVIOUS
  <2>1. CASE j < k
    <3>1. j \in I \ {k} /\ f[j] = j
      BY <1>1, <2>1
    <3> QED
      BY <3>1
  <2>2. CASE ~ (j < k)
    <3>1. j + 1 \in I \ {k} /\ f[j + 1] = j
      BY <1>1, <2>2
    <3> QED
      BY <3>1
  <2> QED
    BY <2>1, <2>2
<1>6. f \in Bijection(I \ {k}, J)
  <2>1. f \in [I \ {k} -> J]
    BY <1>3
  <2> HIDE DEF f, I, J
  <2> QED
    BY <1>4, <1>5, <2>1 DEF Bijection, Injection, Surjection, IsInjective
<1> HIDE DEF f, I, J
<1>7. Cardinality(J) = Cardinality(I \ {k})
  BY <1>2, <1>6, FS_Bijection DEF ExistsBijection
<1>8. k \in I <=> q[k] = h
  BY DEF I
<1>9. Cardinality(I \ {k}) = IF k \in I THEN Cardinality(I) - 1 ELSE Cardinality(I)
  BY <1>2, FS_RemoveElement
<1>10. Cardinality(I) \in Nat
  BY <1>2, FS_CardinalityType
<1> QED
  BY <1>7, <1>8, <1>9, <1>10 DEF Occurrences, I, J

\* How often a handler stands among a node's values, and what the calls make of it.
TimesIn(v, h) == Occurrences(v.first, h) + Occurrences(v.middle, h) + Occurrences(v.last, h)

LEMMA TimesInCount ==
  ASSUME NEW v \in NodeList, NEW h
  PROVE  /\ TimesIn(v, h) \in Nat
         /\ TimesIn(v, h) > 0 <=> \E x \in Section : Contains(v[x], h)
<1>1. \A x \in Section : Occurrences(v[x], h) \in Nat /\ (Occurrences(v[x], h) > 0 <=> Contains(v[x], h))
  BY SectionsAreLists, OccurrencesCount
<1> QED
  BY <1>1 DEF TimesIn, Section

LEMMA TimesInAppended ==
  ASSUME NEW v \in NodeList, NEW s \in Section, NEW g \in Handler, NEW h,
         NEW w, w[s] = Append(v[s], g), \A x \in Section \ {s} : w[x] = v[x]
  PROVE  TimesIn(w, h) = TimesIn(v, h) + (IF g = h THEN 1 ELSE 0)
<1> DEFINE d == IF g = h THEN 1 ELSE 0
<1>1. w[s] = Append(v[s], g) /\ \A x \in Section \ {s} : w[x] = v[x]
  OBVIOUS
<1>2. Occurrences(w[s], h) = Occurrences(v[s], h) + d
  BY <1>1, SectionsAreLists, OccurrencesAppended
<1>3. \A x \in Section : Occurrences(v[x], h) \in Nat
  BY SectionsAreLists, OccurrencesCount
<1>4. /\ Occurrences(v.first, h) \in Nat /\ Occurrences(v.middle, h) \in Nat
      /\ Occurrences(v.last, h) \in Nat
  BY <1>3 DEF Section
<1>5. d \in Nat
  OBVIOUS
<1> HIDE DEF d
<1>6. TimesIn(w, h) = TimesIn(v, h) + d
  <2>1. CASE s = "first"
    <3>1. /\ Occurrences(w.first, h) = Occurrences(v.first, h) + d
          /\ w.middle = v.middle /\ w.last = v.last
      BY <1>1, <1>2, <2>1 DEF Section
    <3> QED
      BY <1>4, <1>5, <3>1 DEF TimesIn
  <2>2. CASE s = "middle"
    <3>1. /\ Occurrences(w.middle, h) = Occurrences(v.middle, h) + d
          /\ w.first = v.first /\ w.last = v.last
      BY <1>1, <1>2, <2>2 DEF Section
    <3> QED
      BY <1>4, <1>5, <3>1 DEF TimesIn
  <2>3. CASE s = "last"
    <3>1. /\ Occurrences(w.last, h) = Occurrences(v.last, h) + d
          /\ w.first = v.first /\ w.middle = v.middle
      BY <1>1, <1>2, <2>3 DEF Section
    <3> QED
      BY <1>4, <1>5, <3>1 DEF TimesIn
  <2> QED
    BY <2>1, <2>2, <2>3 DEF Section
<1> QED
  BY <1>6 DEF d

LEMMA TimesInDropped ==
  ASSUME NEW v \in NodeList, NEW g, NEW h
  PROVE  TimesIn(DropValue(v, g), h) =
           IF g = h /\ TimesIn(v, h) > 0 THEN TimesIn(v, h) - 1 ELSE TimesIn(v, h)
<1> DEFINE w == DropValue(v, g)
<1>1. CASE \A x \in Section : ~ Contains(v[x], g)
  <2>1. w = v
    BY <1>1, DropTakesNone
  <2>2. g = h => ~ (TimesIn(v, h) > 0)
    BY <1>1, TimesInCount
  <2> QED
    BY <2>1, <2>2
<1>2. CASE \E x \in Section : Contains(v[x], g)
  <2>1. PICK s \in Section : \E k \in 1..Len(v[s]) : v[s][k] = g /\ WithoutEntry(v, w, s, k)
    BY <1>2, DropTakesOne
  <2>2. PICK k \in 1..Len(v[s]) : v[s][k] = g /\ WithoutEntry(v, w, s, k)
    BY <2>1
  <2>3. w \in NodeList
    BY DropValueType
  <2> HIDE DEF w
  <2>4. v[s] \in Seq(Handler) /\ w[s] \in Seq(Handler)
    BY <2>3, SectionsAreLists
  <2>5. Occurrences(w[s], h) = Occurrences(v[s], h) - (IF g = h THEN 1 ELSE 0)
    BY <2>2, <2>4, OccurrencesClosedUp DEF WithoutEntry
  <2>6. \A x \in Section \ {s} : w[x] = v[x]
    BY <2>2 DEF WithoutEntry
  <2>7. \A x \in Section : Occurrences(v[x], h) \in Nat
    BY SectionsAreLists, OccurrencesCount
  <2>8. TimesIn(w, h) = TimesIn(v, h) - (IF g = h THEN 1 ELSE 0)
    BY <2>5, <2>6, <2>7 DEF TimesIn, Section
  <2>9. g = h => TimesIn(v, h) > 0
    BY <1>2, TimesInCount
  <2> QED
    BY <2>8, <2>9, TimesInCount DEF w
<1> QED
  BY <1>1, <1>2

LEMMA HandlersAreLists ==
  ASSUME NEW t, IsTrie(t), NEW key
  PROVE  HandlersAt(t, key) \in NodeList
BY DEF HandlersAt, IsTrie, NodeList, EmptyNodeList

LEMMA TimesCount ==
  ASSUME NEW t, IsTrie(t), NEW key, NEW h
  PROVE  Times(t, key, h) = TimesIn(HandlersAt(t, key), h) /\ Times(t, key, h) \in Nat
<1>1. Times(t, key, h) = TimesIn(HandlersAt(t, key), h)
  BY DEF Times, TimesIn
<1> QED
  BY <1>1, HandlersAreLists, TimesInCount

LEMMA TimesAppended ==
  ASSUME NEW t, IsTrie(t), NEW key \in Seq(Chunk), NEW g \in Handler, NEW s \in Section,
         NEW p, NEW h
  PROVE  Times(AppendItem(t, key, g, s), p, h) =
           IF p = key /\ g = h THEN Times(t, p, h) + 1 ELSE Times(t, p, h)
<1> DEFINE new == AppendItem(t, key, g, s)
           v == HandlersAt(t, key)
           w == [v EXCEPT ![s] = Append(@, g)]
<1>1. IsTrie(new) /\ v \in NodeList
  BY AppendIsTrie, HandlersAreLists
<1>2. key \in PathTo(key)
  BY PathProperties
<1>3. new[key] = w /\ key \in DOMAIN new
  BY <1>2 DEF AppendItem
<1>4. ASSUME p = key PROVE HandlersAt(new, p) = w
  <2>1. w # NoValues
    <3>1. w \in NodeList
      <4>1. DOMAIN v = Section
        BY <1>1 DEF NodeList, Section
      <4>2. v[s] \in Seq(Handler)
        BY <1>1, SectionsAreLists
      <4>3. Append(v[s], g) \in Seq(Handler)
        BY <4>2
      <4> HIDE DEF v
      <4> QED
        BY <1>1, <4>1, <4>2, <4>3 DEF NodeList, Section
    <3> QED
      BY <3>1, TrieAssumption DEF NodeList
  <2> HIDE DEF w, new
  <2> QED
    BY <1>3, <1>4, <2>1 DEF HandlersAt
<1>5. ASSUME p # key PROVE HandlersAt(new, p) = HandlersAt(t, p)
  BY <1>5 DEF AppendItem, HandlersAt
<1>6. TimesIn(w, h) = TimesIn(v, h) + (IF g = h THEN 1 ELSE 0)
  <2>1. w[s] = Append(v[s], g) /\ \A x \in Section \ {s} : w[x] = v[x]
    BY <1>1, AppendedSections
  <2>2. v \in NodeList
    BY <1>1
  <2> HIDE DEF v, w, new
  <2> QED
    BY <2>1, <2>2, TimesInAppended
<1> HIDE DEF new, w, v
<1>7. /\ Times(new, p, h) = TimesIn(HandlersAt(new, p), h)
      /\ Times(t, p, h) = TimesIn(HandlersAt(t, p), h) /\ Times(t, p, h) \in Nat
  BY <1>1, TimesCount
<1>8. CASE p = key
  BY <1>4, <1>6, <1>7, <1>8 DEF v, new
<1>9. CASE p # key
  BY <1>5, <1>7, <1>9 DEF new
<1> QED
  BY <1>8, <1>9

LEMMA TimesRemoved ==
  ASSUME NEW t, IsTrie(t), NEW key \in Seq(Chunk), NEW g, RemoveOutcome(t, key) = "ok",
         NEW p, NEW h
  PROVE  Times(RemoveItem(t, key, g), p, h) =
           IF p = key /\ g = h /\ Times(t, p, h) > 0 THEN Times(t, p, h) - 1 ELSE Times(t, p, h)
<1> DEFINE new == RemoveItem(t, key, g)
           v == t[key]
<1>1. key \in DOMAIN t /\ v \in NodeList /\ v # NoValues
  BY DEF RemoveOutcome, IsTrie
<1>2. new = [t EXCEPT ![key] = DropValue(v, g)] /\ IsTrie(new)
  BY RemoveKeepsNodes, RemoveIsTrie
<1>3. DropValue(v, g) \in NodeList /\ DropValue(v, g) # NoValues
  BY <1>1, DropValueType, TrieAssumption DEF NodeList
<1> HIDE DEF new, v
<1>4. HandlersAt(t, key) = v /\ HandlersAt(new, key) = DropValue(v, g)
  BY <1>1, <1>2, <1>3 DEF HandlersAt, v
<1>5. ASSUME p # key PROVE HandlersAt(new, p) = HandlersAt(t, p)
  BY <1>2, <1>5 DEF HandlersAt
<1>6. /\ Times(new, p, h) = TimesIn(HandlersAt(new, p), h)
      /\ Times(t, p, h) = TimesIn(HandlersAt(t, p), h)
  BY <1>2, TimesCount
<1>7. CASE p = key
  BY <1>1, <1>4, <1>6, <1>7, TimesInDropped DEF new
<1>8. CASE p # key
  BY <1>5, <1>6, <1>8 DEF new
<1> QED
  BY <1>7, <1>8

LEMMA NothingToRemove ==
  ASSUME NEW t, NEW key, NEW h, RemoveOutcome(t, key) # "ok"
  PROVE  Times(t, key, h) = 0
<1>1. HandlersAt(t, key) = EmptyNodeList
  BY DEF RemoveOutcome, HandlersAt
<1>2. Occurrences(<< >>, h) = 0
  <2>1. {i \in DOMAIN << >> : << >>[i] = h} = {}
    OBVIOUS
  <2> QED
    BY <2>1, FS_EmptySet, Zenon DEF Occurrences
<1> QED
  BY <1>1, <1>2 DEF Times, EmptyNodeList
-----------------------------------------------------------------------------
\* The ids that hold a handler in a list, by their records and not by the ledger.
Held(e) == {u \in Uid : uids[e][u] # NoRef}
Seats(e, p, h) == {u \in Held(e) : home[e][u] = <<p, h>>}

\* As long as the account of its place is kept: a taken id has a record of the handler
\* it was registered with and as many calls outstanding as its record says, and an
\* id that is free has none.
IdRight(e, u) ==
  /\ uids[e][u] # NoRef =>
       /\ home[e][u] \in Pair
       /\ RecordOf(e, u) \in Record /\ RecordOf(e, u).handler = home[e][u][2]
       /\ loose[e][home[e][u]] # Upset =>
            balance[e][u] = IF Counting(e, u) THEN RecordOf(e, u).count ELSE 1
  /\ uids[e][u] = NoRef /\ balance[e][u] > 0 =>
       home[e][u] \in Pair /\ loose[e][home[e][u]] = Upset

\* A handler stands in a list once for each id that holds it there, and as often as
\* it is loose.
PlaceRight(e, p, h) ==
  loose[e][<<p, h>>] # Upset =>
    Times(trie[e], p, h) = loose[e][<<p, h>>] + Cardinality(Seats(e, p, h))

LedgerInv ==
  \A e \in live :
    /\ IsFiniteSet(Held(e))
    /\ \A u \in Uid : IdRight(e, u)
    /\ \A p \in Pattern, h \in Handler : PlaceRight(e, p, h)

LEMMA InitLedger == Init => LedgerInv
<1> SUFFICES ASSUME Init PROVE LedgerInv
  OBVIOUS
<1>1. live = {Session} /\ Session \in Emitter
  BY EmitterAssumption DEF Init
<1>2. /\ \A u \in Uid : uids[Session][u] = NoRef /\ balance[Session][u] = 0
      /\ trie[Session] = EmptyTrie
  BY <1>1 DEF Init
<1>3. Held(Session) = {} /\ \A p, h : Seats(Session, p, h) = {}
  BY <1>2 DEF Held, Seats
<1>4. ASSUME NEW p \in Pattern, NEW h \in Handler PROVE PlaceRight(Session, p, h)
  <2>1. loose[Session][<<p, h>>] = 0
    BY <1>1 DEF Init, Pair
  <2>2. RemoveOutcome(EmptyTrie, p) # "ok"
    <3>1. p # << >>
      BY EmitterAssumption
    <3> QED
      BY <3>1 DEF RemoveOutcome, EmptyTrie
  <2>3. Times(trie[Session], p, h) = 0
    BY <1>2, <2>2, NothingToRemove
  <2> QED
    BY <1>3, <2>1, <2>3, FS_EmptySet DEF PlaceRight
<1>5. \A u \in Uid : IdRight(Session, u)
  BY <1>2 DEF IdRight
<1> QED
  BY <1>1, <1>3, <1>4, <1>5, FS_EmptySet DEF LedgerInv

\* What was right of an id that a step leaves alone is right after it, and so is what
\* was right of a place, whose account may have been given up.
LEMMA IdLeftAlone ==
  ASSUME NEW e, NEW u, IdRight(e, u), uids'[e][u] = uids[e][u],
         balance'[e][u] = balance[e][u], home'[e][u] = home[e][u],
         uids[e][u] # NoRef => records'[u][uids[e][u]] = records[u][uids[e][u]],
         \A x \in Pair : loose[e][x] = Upset => loose'[e][x] = Upset
  PROVE  IdRight(e, u)'
<1>1. uids[e][u] # NoRef => RecordOf(e, u)' = RecordOf(e, u)
  BY DEF RecordOf
<1>2. uids[e][u] # NoRef => (Counting(e, u)' <=> Counting(e, u))
  BY <1>1 DEF Counting
<1> QED
  BY <1>1, <1>2 DEF IdRight

LEMMA SeatsLeftAlone ==
  ASSUME NEW e, uids'[e] = uids[e], home'[e] = home[e]
  PROVE  Held(e)' = Held(e) /\ \A p, h : Seats(e, p, h)' = Seats(e, p, h)
BY DEF Held, Seats

LEMMA PlaceLeftAlone ==
  ASSUME NEW e, NEW p, NEW h, PlaceRight(e, p, h), Seats(e, p, h)' = Seats(e, p, h),
         Times(trie[e], p, h)' = Times(trie[e], p, h),
         loose'[e][<<p, h>>] = loose[e][<<p, h>>] \/ loose'[e][<<p, h>>] = Upset
  PROVE  PlaceRight(e, p, h)'
BY DEF PlaceRight

\* An emitter that the step does not touch.
LEMMA OthersLeftAlone ==
  ASSUME LedgerInv, NEW e \in live, UNCHANGED <<trie[e], uids[e], balance[e], home[e], loose[e]>>,
         \A u \in Uid : uids[e][u] # NoRef => records'[u][uids[e][u]] = records[u][uids[e][u]]
  PROVE  /\ IsFiniteSet(Held(e))'
         /\ \A u \in Uid : IdRight(e, u)'
         /\ \A p \in Pattern, h \in Handler : PlaceRight(e, p, h)'
<1>1. \A u \in Uid : IdRight(e, u)'
  BY IdLeftAlone DEF LedgerInv
<1>2. Held(e)' = Held(e) /\ \A p, h : Seats(e, p, h)' = Seats(e, p, h)
  BY SeatsLeftAlone
<1>3. \A p, h : Times(trie[e], p, h)' = Times(trie[e], p, h)
  BY DEF Times, HandlersAt
<1>4. \A p \in Pattern, h \in Handler : PlaceRight(e, p, h)'
  BY <1>2, <1>3, PlaceLeftAlone DEF LedgerInv
<1> QED
  BY <1>1, <1>2, <1>4 DEF LedgerInv

LEMMA QuietKeepsLedger ==
  ASSUME LedgerInv, UNCHANGED <<live, trie, uids, records, ledger>>
  PROVE  LedgerInv'
<1>1. UNCHANGED <<live, trie, uids, records, balance, home, loose>>
  BY DEF ledger
<1>2. ASSUME NEW e \in live
      PROVE  /\ IsFiniteSet(Held(e))'
             /\ \A u \in Uid : IdRight(e, u)'
             /\ \A p \in Pattern, h \in Handler : PlaceRight(e, p, h)'
  BY <1>1, OthersLeftAlone
<1> QED
  BY <1>1, <1>2 DEF LedgerInv

\* What append_item and the end of unregister make of the times.
LEMMA AddHandlerTimes ==
  ASSUME TriesOK, NEW e \in live, NEW q \in Pattern, NEW g \in Handler, NEW s \in Section,
         AddHandler(e, q, g, s)
  PROVE  /\ live' = live
         /\ \A x \in live \ {e} : trie'[x] = trie[x]
         /\ \A p, h : Times(trie[e], p, h)' =
              IF p = q /\ h = g THEN Times(trie[e], p, h) + 1 ELSE Times(trie[e], p, h)
<1>1. e \in Emitter /\ IsTrie(trie[e]) /\ q \in Seq(Chunk)
  BY EmitterAssumption DEF TriesOK
<1>2. /\ live' = live /\ trie'[e] = AppendItem(trie[e], q, g, s)
      /\ \A x \in live \ {e} : trie'[x] = trie[x]
  BY <1>1 DEF AddHandler, TriesOK
<1>3. \A p, h : Times(AppendItem(trie[e], q, g, s), p, h) =
        IF p = q /\ h = g THEN Times(trie[e], p, h) + 1 ELSE Times(trie[e], p, h)
  BY <1>1, TimesAppended
<1>4. \A p, h : Times(trie[e], p, h)' = Times(AppendItem(trie[e], q, g, s), p, h)
  BY <1>2 DEF Times, HandlersAt
<1> QED
  BY <1>2, <1>3, <1>4

LEMMA DiscardTimes ==
  ASSUME TriesOK, NEW e \in live, NEW q \in Pattern, NEW g, Discard(e, q, g)
  PROVE  /\ live' = live
         /\ \A x \in live \ {e} : trie'[x] = trie[x]
         /\ \A p, h : Times(trie[e], p, h)' =
              IF p = q /\ h = g /\ Times(trie[e], p, h) > 0
              THEN Times(trie[e], p, h) - 1 ELSE Times(trie[e], p, h)
<1>1. e \in Emitter /\ IsTrie(trie[e]) /\ q \in Seq(Chunk)
  BY EmitterAssumption DEF TriesOK
<1>2. CASE RemoveOutcome(trie[e], q) = "ok"
  <2>1. /\ live' = live /\ trie'[e] = RemoveItem(trie[e], q, g)
        /\ \A x \in live \ {e} : trie'[x] = trie[x]
    BY <1>1, <1>2 DEF Discard, TriesOK
  <2>2. \A p, h : Times(RemoveItem(trie[e], q, g), p, h) =
          IF p = q /\ g = h /\ Times(trie[e], p, h) > 0
          THEN Times(trie[e], p, h) - 1 ELSE Times(trie[e], p, h)
    BY <1>1, <1>2, TimesRemoved
  <2>3. \A p, h : Times(trie[e], p, h)' = Times(RemoveItem(trie[e], q, g), p, h)
    BY <2>1 DEF Times, HandlersAt
  <2> QED
    BY <2>1, <2>2, <2>3
<1>3. CASE RemoveOutcome(trie[e], q) # "ok"
  <2>1. live' = live /\ trie' = trie
    BY <1>3 DEF Discard
  <2>2. Times(trie[e], q, g) = 0
    BY <1>3, NothingToRemove
  <2>3. \A p, h : Times(trie[e], p, h)' = Times(trie[e], p, h)
    BY <2>1 DEF Times, HandlersAt
  <2> QED
    BY <2>1, <2>2, <2>3
<1> QED
  BY <1>2, <1>3

LEMMA PlacesCount ==
  ASSUME TriesOK, IdsOK, LedgerInv, NEW e \in live, NEW p \in Pattern, NEW h \in Handler
  PROVE  /\ <<p, h>> \in Pair
         /\ loose[e][<<p, h>>] \in Nat \cup {Upset}
         /\ Times(trie[e], p, h) \in Nat
         /\ IsFiniteSet(Seats(e, p, h)) /\ Cardinality(Seats(e, p, h)) \in Nat
<1>1. e \in Emitter /\ IsTrie(trie[e]) /\ <<p, h>> \in Pair
  BY DEF TriesOK, Pair
<1>2. IsFiniteSet(Held(e)) /\ Seats(e, p, h) \in SUBSET Held(e)
  BY DEF LedgerInv, Seats
<1> QED
  BY <1>1, <1>2, TimesCount, FS_Subset, FS_CardinalityType DEF IdsOK

LEMMA RegisterKeepsLedger ==
  ASSUME TriesOK, IdsOK, LedgerInv, NEW e \in live, NEW q \in Pattern, NEW g \in Handler,
         NEW s \in Section, Register(e, q, g, s)
  PROVE  LedgerInv'
<1>1. /\ loose' = [loose EXCEPT ![e][<<q, g>>] = OneMore(loose[e][<<q, g>>])]
      /\ UNCHANGED <<uids, records, balance, home>> /\ AddHandler(e, q, g, s)
  BY DEF Register
<1>2. e \in Emitter /\ live \subseteq Emitter /\ <<q, g>> \in Pair
  BY DEF TriesOK, Pair
<1>3. /\ live' = live
      /\ \A x \in live \ {e} : trie'[x] = trie[x]
      /\ \A p, h : Times(trie[e], p, h)' =
           IF p = q /\ h = g THEN Times(trie[e], p, h) + 1 ELSE Times(trie[e], p, h)
  BY <1>1, AddHandlerTimes
<1>4. /\ \A x \in live \ {e} : loose'[x] = loose[x]
      /\ \A y \in Pair : loose'[e][y] = IF y = <<q, g>> THEN OneMore(loose[e][y]) ELSE loose[e][y]
  BY <1>1, <1>2 DEF IdsOK
<1>5. ASSUME NEW x \in live \ {e}
      PROVE  /\ IsFiniteSet(Held(x))'
             /\ \A u \in Uid : IdRight(x, u)'
             /\ \A p \in Pattern, h \in Handler : PlaceRight(x, p, h)'
  BY <1>1, <1>3, <1>4, OthersLeftAlone
<1>6. Held(e)' = Held(e) /\ \A p, h : Seats(e, p, h)' = Seats(e, p, h)
  BY <1>1, SeatsLeftAlone
<1>7. ASSUME NEW u \in Uid PROVE IdRight(e, u)'
  BY <1>1, <1>4, <1>7, IdLeftAlone DEF LedgerInv, OneMore
<1>8. ASSUME NEW p \in Pattern, NEW h \in Handler PROVE PlaceRight(e, p, h)'
  <2>1. PlaceRight(e, p, h)
    BY DEF LedgerInv
  <2>2. CASE p = q /\ h = g
    <3>1. loose'[e][<<p, h>>] = OneMore(loose[e][<<p, h>>])
      BY <1>2, <1>4, <2>2
    <3>2. Times(trie[e], p, h)' = Times(trie[e], p, h) + 1
      BY <1>3, <2>2
    <3> QED
      BY <1>6, <2>1, <3>1, <3>2, PlacesCount DEF PlaceRight, OneMore, Upset
  <2>3. CASE ~ (p = q /\ h = g)
    <3>1. <<p, h>> \in Pair /\ <<p, h>> # <<q, g>>
      BY <2>3 DEF Pair
    <3>2. Times(trie[e], p, h)' = Times(trie[e], p, h) /\ loose'[e][<<p, h>>] = loose[e][<<p, h>>]
      BY <1>3, <1>4, <2>3, <3>1
    <3> QED
      BY <1>6, <2>1, <3>2, PlaceLeftAlone
  <2> QED
    BY <2>2, <2>3
<1> QED
  BY <1>3, <1>5, <1>6, <1>7, <1>8 DEF LedgerInv

LEMMA UnregisterKeepsLedger ==
  ASSUME TriesOK, IdsOK, LedgerInv, NEW e \in live, NEW q \in Pattern, NEW g \in Handler,
         Unregister(e, q, g)
  PROVE  LedgerInv'
<1>1. /\ loose' = [loose EXCEPT ![e][<<q, g>>] = TakenAway(e, q, g)]
      /\ UNCHANGED <<uids, records, balance, home>> /\ Discard(e, q, g)
  BY DEF Unregister
<1>2. e \in Emitter /\ live \subseteq Emitter /\ <<q, g>> \in Pair
  BY DEF TriesOK, Pair
<1>3. /\ live' = live
      /\ \A x \in live \ {e} : trie'[x] = trie[x]
      /\ \A p, h : Times(trie[e], p, h)' =
           IF p = q /\ h = g /\ Times(trie[e], p, h) > 0
           THEN Times(trie[e], p, h) - 1 ELSE Times(trie[e], p, h)
  BY <1>1, DiscardTimes
<1>4. /\ \A x \in live \ {e} : loose'[x] = loose[x]
      /\ \A y \in Pair : loose'[e][y] = IF y = <<q, g>> THEN TakenAway(e, q, g) ELSE loose[e][y]
  BY <1>1, <1>2 DEF IdsOK
<1>5. ASSUME NEW x \in live \ {e}
      PROVE  /\ IsFiniteSet(Held(x))'
             /\ \A u \in Uid : IdRight(x, u)'
             /\ \A p \in Pattern, h \in Handler : PlaceRight(x, p, h)'
  BY <1>1, <1>3, <1>4, OthersLeftAlone
<1>6. Held(e)' = Held(e) /\ \A p, h : Seats(e, p, h)' = Seats(e, p, h)
  BY <1>1, SeatsLeftAlone
<1>7. ASSUME NEW u \in Uid PROVE IdRight(e, u)'
  <2>1. loose[e][<<q, g>>] = Upset => TakenAway(e, q, g) = Upset
    BY DEF TakenAway, OneLess, Upset
  <2> QED
    BY <1>1, <1>4, <1>7, <2>1, IdLeftAlone DEF LedgerInv
<1>8. ASSUME NEW p \in Pattern, NEW h \in Handler PROVE PlaceRight(e, p, h)'
  <2>1. PlaceRight(e, p, h)
    BY DEF LedgerInv
  <2>2. CASE p = q /\ h = g
    <3>1. loose'[e][<<p, h>>] = OneLess(loose[e][<<p, h>>], Times(trie[e], p, h))
      BY <1>2, <1>4, <2>2 DEF TakenAway
    <3>2. Times(trie[e], p, h)' =
            IF Times(trie[e], p, h) > 0 THEN Times(trie[e], p, h) - 1 ELSE Times(trie[e], p, h)
      BY <1>3, <2>2
    <3> QED
      BY <1>6, <2>1, <3>1, <3>2, PlacesCount DEF PlaceRight, OneLess, Upset
  <2>3. CASE ~ (p = q /\ h = g)
    <3>1. <<p, h>> \in Pair /\ <<p, h>> # <<q, g>>
      BY <2>3 DEF Pair
    <3>2. Times(trie[e], p, h)' = Times(trie[e], p, h) /\ loose'[e][<<p, h>>] = loose[e][<<p, h>>]
      BY <1>3, <1>4, <2>3, <3>1
    <3> QED
      BY <1>6, <2>1, <3>2, PlaceLeftAlone
  <2> QED
    BY <2>2, <2>3
<1> QED
  BY <1>3, <1>5, <1>6, <1>7, <1>8 DEF LedgerInv

LEMMA RegisterIdKeepsLedger ==
  ASSUME TriesOK, IdsOK, LedgerInv, NEW e \in live, NEW q \in Pattern, NEW g \in Handler,
         NEW s \in Section, NEW u \in Uid, NEW c \in BOOLEAN, RegisterId(e, q, g, s, u, c)
  PROVE  LedgerInv'
<1>1. PICK r \in Ref \ {uids[x][u] : x \in live \ {e}} :
        /\ uids' = [uids EXCEPT ![e][u] = r]
        /\ records' = [records EXCEPT ![u][r] = [handler |-> g, count |-> IF c THEN 1 ELSE 0]]
  BY DEF RegisterId
<1>2. e \in Emitter /\ live \subseteq Emitter /\ <<q, g>> \in Pair /\ r # NoRef
  BY EmitterAssumption DEF TriesOK, Pair
<1>3. /\ live' = live
      /\ \A x \in live \ {e} : trie'[x] = trie[x]
      /\ \A p, h : Times(trie[e], p, h)' =
           IF p = q /\ h = g THEN Times(trie[e], p, h) + 1 ELSE Times(trie[e], p, h)
  BY AddHandlerTimes DEF RegisterId
<1>4. /\ uids[e][u] = NoRef
      /\ balance' = [balance EXCEPT ![e][u] = 1] /\ home' = [home EXCEPT ![e][u] = <<q, g>>]
      /\ loose' = loose
  BY DEF RegisterId
<1>5. /\ uids'[e][u] = r /\ balance'[e][u] = 1 /\ home'[e][u] = <<q, g>>
      /\ \A v \in Uid \ {u} : /\ uids'[e][v] = uids[e][v] /\ balance'[e][v] = balance[e][v]
                              /\ home'[e][v] = home[e][v]
      /\ \A x \in live \ {e} : /\ uids'[x] = uids[x] /\ balance'[x] = balance[x]
                               /\ home'[x] = home[x]
  BY <1>1, <1>2, <1>4 DEF IdsOK
<1>6. \A v \in Uid : \A y \in Ref : v # u \/ y # r => records'[v][y] = records[v][y]
  BY <1>1 DEF IdsOK
<1>7. ASSUME NEW x \in live \ {e}
      PROVE  /\ IsFiniteSet(Held(x))'
             /\ \A v \in Uid : IdRight(x, v)'
             /\ \A p \in Pattern, h \in Handler : PlaceRight(x, p, h)'
  <2>1. ASSUME NEW v \in Uid, uids[x][v] # NoRef
        PROVE  records'[v][uids[x][v]] = records[v][uids[x][v]]
    <3>1. v = u => uids[x][v] # r
      BY <1>1
    <3>2. uids[x][v] \in Ref
      BY <1>2, <2>1 DEF IdsOK
    <3> QED
      BY <1>6, <3>1, <3>2
  <2> QED
    BY <1>3, <1>4, <1>5, <2>1, OthersLeftAlone
<1>8. IdRight(e, u)'
  <2>1. RecordOf(e, u)' = [handler |-> g, count |-> IF c THEN 1 ELSE 0]
    BY <1>1, <1>5 DEF RecordOf, IdsOK
  <2>2. RecordOf(e, u)' \in Record /\ RecordOf(e, u).handler' = g
        /\ (Counting(e, u)' => RecordOf(e, u).count' = 1)
    BY <2>1, EmitterAssumption DEF Record, Counting
  <2> QED
    BY <1>2, <1>5, <2>2 DEF IdRight
<1>9. ASSUME NEW v \in Uid \ {u} PROVE IdRight(e, v)'
  <2>1. uids[e][v] # NoRef => records'[v][uids[e][v]] = records[v][uids[e][v]]
    BY <1>2, <1>6 DEF IdsOK
  <2> QED
    BY <1>4, <1>5, <2>1, IdLeftAlone DEF LedgerInv
<1>10. /\ Held(e)' = Held(e) \cup {u} /\ u \notin Held(e)
       /\ \A p, h : Seats(e, p, h)' =
            IF p = q /\ h = g THEN Seats(e, p, h) \cup {u} ELSE Seats(e, p, h)
  BY <1>2, <1>4, <1>5 DEF Held, Seats
<1>11. IsFiniteSet(Held(e))'
  BY <1>10, FS_AddElement DEF LedgerInv
<1>12. ASSUME NEW p \in Pattern, NEW h \in Handler PROVE PlaceRight(e, p, h)'
  <2>1. PlaceRight(e, p, h)
    BY DEF LedgerInv
  <2>2. CASE p = q /\ h = g
    <3>1. u \notin Seats(e, p, h)
      BY <1>10 DEF Seats
    <3>2. Cardinality(Seats(e, p, h))' = Cardinality(Seats(e, p, h)) + 1
      BY <1>10, <2>2, <3>1, PlacesCount, FS_AddElement
    <3> QED
      BY <1>3, <1>4, <2>1, <2>2, <3>2, PlacesCount DEF PlaceRight, Upset
  <2>3. CASE ~ (p = q /\ h = g)
    <3>1. Times(trie[e], p, h)' = Times(trie[e], p, h) /\ Seats(e, p, h)' = Seats(e, p, h)
      BY <1>3, <1>10, <2>3
    <3> QED
      BY <1>4, <2>1, <3>1, PlaceLeftAlone
  <2> QED
    BY <2>2, <2>3
<1> QED
  BY <1>3, <1>7, <1>8, <1>9, <1>11, <1>12 DEF LedgerInv

\* A counted call that leaves the id taken: its record and its balance go by the same
\* step, and the account of whoever shares the record is given up.
LEMMA CountKeepsLedger ==
  ASSUME TriesOK, IdsOK, LedgerInv, NEW e \in live, NEW u \in Uid, NEW n \in 1..MaxCount,
         uids[e][u] # NoRef, UNCHANGED <<live, trie, uids, home>>,
         records' = [records EXCEPT ![u][uids[e][u]] = [RecordOf(e, u) EXCEPT !.count = n]],
         balance' = [balance EXCEPT ![e][u] = balance'[e][u]],
         loose[e][home[e][u]] # Upset => balance'[e][u] = n,
         SharersUpset(e, u)
  PROVE  LedgerInv'
<1> DEFINE r == uids[e][u]
<1>1. e \in Emitter /\ live \subseteq Emitter /\ r \in Ref
  BY DEF TriesOK, IdsOK
<1>2. \A x \in Emitter : \A y : loose[x][y] = Upset /\ y \in Pair => loose'[x][y] = Upset
  BY DEF SharersUpset, IdsOK
<1>3. loose'[e] = loose[e]
  BY <1>1 DEF SharersUpset
<1>4. ASSUME NEW x \in live, NEW v \in Uid, uids[x][v] # NoRef, v # u \/ uids[x][v] # r
      PROVE  records'[v][uids[x][v]] = records[v][uids[x][v]]
  <2>1. uids[x][v] \in Ref
    BY <1>1, <1>4 DEF IdsOK
  <2> HIDE DEF r
  <2> QED
    BY <1>1, <1>4, <2>1 DEF IdsOK, r
<1>5. ASSUME NEW x \in live, uids[x][u] = r
      PROVE  RecordOf(x, u)' = [RecordOf(x, u) EXCEPT !.count = n]
  <2> DEFINE new == [RecordOf(e, u) EXCEPT !.count = n]
  <2>1. records'[u][r] = new
    <3>1. records' = [records EXCEPT ![u][r] = new]
      OBVIOUS
    <3> HIDE DEF new, r
    <3> QED
      BY <1>1, <3>1 DEF IdsOK
  <2>2. RecordOf(x, u)' = records'[u][r] /\ RecordOf(x, u) = RecordOf(e, u)
    BY <1>5 DEF RecordOf
  <2> QED
    BY <2>1, <2>2
<1>6. ASSUME NEW x \in live, NEW v \in Uid PROVE IdRight(x, v)'
  <2>0. IdRight(x, v) /\ x \in Emitter
    BY <1>1 DEF LedgerInv
  <2>1. CASE v # u \/ uids[x][v] # r
    <3> DEFINE b == balance'[e][u]
    <3>1. balance' = [balance EXCEPT ![e][u] = b]
      OBVIOUS
    <3>2. ~ (x = e /\ v = u)
      BY <2>1
    <3>3. balance'[x][v] = balance[x][v]
      <4> HIDE DEF b, r
      <4> QED
        BY <1>1, <2>0, <3>1, <3>2 DEF IdsOK
    <3> QED
      BY <1>2, <1>4, <2>0, <2>1, <3>3, IdLeftAlone
  <2>2. CASE v = u /\ uids[x][v] = r
    <3>1. RecordOf(x, u) \in Record /\ home[x][u] \in Pair /\ uids'[x][u] # NoRef
          /\ RecordOf(x, u).handler = home[x][u][2]
      BY <2>0, <2>2 DEF IdRight
    <3>2. /\ RecordOf(x, u)' \in Record /\ RecordOf(x, u).handler' = RecordOf(x, u).handler
          /\ RecordOf(x, u).count' = n /\ Counting(x, u)'
      BY <1>5, <2>2, <3>1 DEF Record, Counting
    <3>3. CASE x = e
      BY <1>3, <2>2, <3>1, <3>2, <3>3 DEF IdRight
    <3>4. CASE x # e
      <4>1. loose'[x] = [loose[x] EXCEPT ![home[x][u]] = Upset]
        BY <2>0, <2>2, <3>4 DEF SharersUpset
      <4>2. loose'[x][home[x][u]] = Upset
        BY <2>0, <3>1, <4>1 DEF IdsOK
      <4> QED
        BY <2>2, <3>1, <3>2, <4>2 DEF IdRight
    <3> QED
      BY <3>3, <3>4
  <2> QED
    BY <2>1, <2>2
<1>7. ASSUME NEW x \in live
      PROVE  Held(x)' = Held(x) /\ \A p, h : Seats(x, p, h)' = Seats(x, p, h)
  BY SeatsLeftAlone
<1>8. ASSUME NEW x \in live, NEW p \in Pattern, NEW h \in Handler PROVE PlaceRight(x, p, h)'
  <2>1. Times(trie[x], p, h)' = Times(trie[x], p, h)
    BY DEF Times, HandlersAt
  <2>2. loose'[x][<<p, h>>] = loose[x][<<p, h>>] \/ loose'[x][<<p, h>>] = Upset
    <3>1. x \in Emitter /\ <<p, h>> \in Pair
      BY <1>1 DEF Pair
    <3> QED
      BY <3>1 DEF SharersUpset, IdsOK
  <2> QED
    BY <1>7, <2>1, <2>2, PlaceLeftAlone DEF LedgerInv
<1> QED
  BY <1>6, <1>7, <1>8 DEF LedgerInv

LEMMA RegisterAgainKeepsLedger ==
  ASSUME TriesOK, IdsOK, LedgerInv, NEW e \in live, NEW u \in Uid, NEW c \in BOOLEAN,
         RegisterAgain(e, u, c)
  PROVE  LedgerInv'
<1>1. CASE ~ c
  BY <1>1, QuietKeepsLedger DEF RegisterAgain, ledger
<1>2. CASE c
  <2> DEFINE n == RecordOf(e, u).count + 1
  <2>1. /\ uids[e][u] # NoRef /\ Counting(e, u) /\ RecordOf(e, u).count < MaxCount
        /\ records' = [records EXCEPT ![u][uids[e][u]].count = @ + 1]
        /\ balance' = [balance EXCEPT ![e][u] = @ + 1]
        /\ SharersUpset(e, u) /\ UNCHANGED <<live, trie, uids, home>>
    BY <1>2, Zenon DEF RegisterAgain
  <2>2. e \in Emitter /\ uids[e][u] \in Ref
    BY <2>1 DEF TriesOK, IdsOK
  <2>3. IdRight(e, u) /\ RecordOf(e, u) \in Record
    BY <2>1 DEF LedgerInv, IdRight
  <2>4. n \in 1..MaxCount
    BY <2>1, <2>3, EmitterAssumption DEF Record
  <2>5. records' = [records EXCEPT ![u][uids[e][u]] = [RecordOf(e, u) EXCEPT !.count = n]]
    BY <2>1, <2>2 DEF RecordOf, IdsOK
  <2>6. balance'[e][u] = balance[e][u] + 1 /\ balance' = [balance EXCEPT ![e][u] = balance'[e][u]]
    BY <2>1, <2>2 DEF IdsOK
  <2>7. loose[e][home[e][u]] # Upset => balance'[e][u] = n
    BY <2>1, <2>3, <2>6 DEF IdRight
  <2> HIDE DEF n
  <2> QED
    BY <2>1, <2>4, <2>5, <2>6, <2>7, CountKeepsLedger
<1> QED
  BY <1>1, <1>2

LEMMA OneOfManyKeepsLedger ==
  ASSUME TriesOK, IdsOK, LedgerInv, NEW e \in live, NEW u \in Uid, UnregisterOneOfMany(e, u)
  PROVE  LedgerInv'
<1> DEFINE n == RecordOf(e, u).count - 1
<1>1. /\ uids[e][u] # NoRef /\ RecordOf(e, u).count > 1
      /\ records' = [records EXCEPT ![u][uids[e][u]].count = @ - 1]
      /\ balance' = [balance EXCEPT ![e][u] = IF @ > 0 THEN @ - 1 ELSE 0]
      /\ SharersUpset(e, u) /\ UNCHANGED <<live, trie, uids, home>>
  BY DEF UnregisterOneOfMany, Match
<1>2. e \in Emitter /\ uids[e][u] \in Ref
  BY <1>1 DEF TriesOK, IdsOK
<1>3. IdRight(e, u) /\ RecordOf(e, u) \in Record
  BY <1>1 DEF LedgerInv, IdRight
<1>4. n \in 1..MaxCount
  BY <1>1, <1>3, EmitterAssumption DEF Record
<1>5. records' = [records EXCEPT ![u][uids[e][u]] = [RecordOf(e, u) EXCEPT !.count = n]]
  BY <1>1, <1>2 DEF RecordOf, IdsOK
<1>6. /\ balance'[e][u] = IF balance[e][u] > 0 THEN balance[e][u] - 1 ELSE 0
      /\ balance' = [balance EXCEPT ![e][u] = balance'[e][u]]
  BY <1>1, <1>2 DEF IdsOK
<1>7. loose[e][home[e][u]] # Upset => balance'[e][u] = n
  BY <1>1, <1>3, <1>6 DEF IdRight, Record, Counting
<1> HIDE DEF n
<1> QED
  BY <1>1, <1>4, <1>5, <1>6, <1>7, CountKeepsLedger

\* What the last call of an id makes of the accounts: under its own name nothing, under
\* another what it leaves behind and what it takes away there.
LEMMA LeftBehindAccounts ==
  ASSUME TriesOK, IdsOK, NEW e \in live, NEW q \in Pattern, NEW u \in Uid,
         home[e][u] \in Pair, RecordOf(e, u).handler = home[e][u][2], LeftBehind(e, q, u)
  PROVE  LET a == home[e][u]
             b == <<q, a[2]>>
         IN  /\ \A x \in live \ {e} : loose'[x] = loose[x]
             /\ \A y \in Pair : loose'[e][y] =
                  IF b = a THEN loose[e][y]
                  ELSE IF y = a THEN OneMore(loose[e][y])
                  ELSE IF y = b THEN OneLess(loose[e][y], Times(trie[e], q, a[2]))
                  ELSE loose[e][y]
<1> DEFINE a == home[e][u]
           b == <<q, a[2]>>
           n == TakenAway(e, q, RecordOf(e, u).handler)
<1>1. e \in Emitter /\ live \subseteq Emitter /\ a = <<a[1], a[2]>> /\ b \in Pair
  BY DEF TriesOK, Pair
<1>2. b = a <=> q = a[1]
  BY <1>1
<1>3. CASE q = a[1]
  BY <1>1, <1>2, <1>3 DEF LeftBehind
<1>4. CASE q # a[1]
  <2>1. loose' = [loose EXCEPT ![e][a] = OneMore(@), ![e][b] = n]
    BY <1>4 DEF LeftBehind
  <2>2. n = OneLess(loose[e][b], Times(trie[e], q, a[2]))
    BY DEF TakenAway
  <2> HIDE DEF a, b, n
  <2> QED
    BY <1>1, <1>2, <1>4, <2>1, <2>2 DEF IdsOK, a, b
<1> QED
  BY <1>3, <1>4

LEMMA UnregisterIdKeepsLedger ==
  ASSUME TriesOK, IdsOK, LedgerInv, NEW e \in live, NEW q \in Pattern, NEW u \in Uid,
         UnregisterId(e, q, u)
  PROVE  LedgerInv'
<1> DEFINE a == home[e][u]
           g == a[2]
           b == <<q, g>>
<1>1. /\ uids[e][u] # NoRef /\ RecordOf(e, u).count <= 1
      /\ Discard(e, q, RecordOf(e, u).handler)
      /\ uids' = [uids EXCEPT ![e][u] = NoRef]
      /\ records' = [records EXCEPT ![u] = KeptRecords(e, u)]
      /\ balance' = [balance EXCEPT ![e][u] = IF @ > 0 THEN @ - 1 ELSE 0]
      /\ LeftBehind(e, q, u)
      /\ home' = [home EXCEPT ![e][u] = IF balance[e][u] > 1 THEN @ ELSE NoRef]
  BY DEF UnregisterId, Match
<1>2. /\ e \in Emitter /\ live \subseteq Emitter
      /\ a \in Pair /\ a = <<a[1], g>> /\ a[1] \in Pattern /\ g \in Handler /\ b \in Pair
      /\ RecordOf(e, u) \in Record /\ RecordOf(e, u).handler = g
  BY <1>1 DEF TriesOK, LedgerInv, IdRight, Pair
<1>3. /\ live' = live
      /\ \A x \in live \ {e} : trie'[x] = trie[x]
      /\ \A p, h : Times(trie[e], p, h)' =
           IF p = q /\ h = g /\ Times(trie[e], p, h) > 0
           THEN Times(trie[e], p, h) - 1 ELSE Times(trie[e], p, h)
  BY <1>1, <1>2, DiscardTimes
<1>4. /\ uids'[e][u] = NoRef
      /\ balance'[e][u] = IF balance[e][u] > 0 THEN balance[e][u] - 1 ELSE 0
      /\ home'[e][u] = IF balance[e][u] > 1 THEN a ELSE NoRef
      /\ balance[e][u] \in Nat
      /\ \A v \in Uid \ {u} : /\ uids'[e][v] = uids[e][v] /\ balance'[e][v] = balance[e][v]
                              /\ home'[e][v] = home[e][v]
      /\ \A x \in live \ {e} : /\ uids'[x] = uids[x] /\ balance'[x] = balance[x]
                               /\ home'[x] = home[x]
  BY <1>1, <1>2 DEF IdsOK
<1>5. ASSUME NEW x \in live, NEW v \in Uid, uids[x][v] # NoRef, x # e \/ v # u
      PROVE  records'[v][uids[x][v]] = records[v][uids[x][v]]
  <2>1. uids[x][v] \in Ref
    BY <1>2, <1>5 DEF IdsOK
  <2>2. CASE v # u
    BY <1>1, <2>2 DEF IdsOK
  <2>3. CASE v = u
    <3>1. x \in live \ {e}
      BY <1>5, <2>3
    <3>2. KeptRecords(e, u)[uids[x][u]] = records[u][uids[x][u]]
      BY <2>1, <2>3, <3>1 DEF KeptRecords
    <3> QED
      BY <1>1, <2>3, <3>2 DEF IdsOK
  <2> QED
    BY <2>2, <2>3
<1>6. /\ \A x \in live \ {e} : loose'[x] = loose[x]
      /\ \A y \in Pair : loose'[e][y] =
           IF b = a THEN loose[e][y]
           ELSE IF y = a THEN OneMore(loose[e][y])
           ELSE IF y = b THEN OneLess(loose[e][y], Times(trie[e], q, g))
           ELSE loose[e][y]
  BY <1>1, <1>2, LeftBehindAccounts
<1> HIDE DEF a, g, b
<1>7. ASSUME NEW x \in live \ {e}
      PROVE  /\ IsFiniteSet(Held(x))'
             /\ \A v \in Uid : IdRight(x, v)'
             /\ \A p \in Pattern, h \in Handler : PlaceRight(x, p, h)'
  BY <1>3, <1>4, <1>5, <1>6, OthersLeftAlone
<1>8. \A y \in Pair : loose[e][y] = Upset => loose'[e][y] = Upset
  BY <1>6 DEF OneMore, OneLess, Upset
<1>9. ASSUME NEW v \in Uid \ {u} PROVE IdRight(e, v)'
  BY <1>4, <1>5, <1>8, IdLeftAlone DEF LedgerInv
<1>10. IdRight(e, u)'
  <2>1. loose[e][a] # Upset => balance[e][u] = 1
    <3>1. loose[e][a] # Upset => balance[e][u] = IF Counting(e, u) THEN RecordOf(e, u).count ELSE 1
      BY <1>1 DEF LedgerInv, IdRight, a
    <3>2. RecordOf(e, u).count \in Nat
      BY <1>2, EmitterAssumption DEF Record
    <3> QED
      BY <1>1, <3>1, <3>2 DEF Counting
  <2>2. CASE balance[e][u] > 1
    BY <1>2, <1>4, <1>8, <2>1, <2>2 DEF IdRight
  <2>3. CASE ~ (balance[e][u] > 1)
    BY <1>4, <2>3 DEF IdRight
  <2> QED
    BY <2>2, <2>3
<1>11. /\ Held(e)' = Held(e) \ {u} /\ u \in Held(e)
       /\ \A p, h : Seats(e, p, h)' =
            IF <<p, h>> = a THEN Seats(e, p, h) \ {u} ELSE Seats(e, p, h)
       /\ \A p, h : u \in Seats(e, p, h) <=> <<p, h>> = a
  <2>1. Held(e)' = Held(e) \ {u} /\ u \in Held(e)
    BY <1>1, <1>4 DEF Held
  <2>2. \A p, h : u \in Seats(e, p, h) <=> <<p, h>> = a
    BY <2>1 DEF Seats, a
  <2>3. \A p, h : Seats(e, p, h)' = Seats(e, p, h) \ {u}
    BY <1>4, <2>1 DEF Seats, Held
  <2> QED
    BY <2>1, <2>2, <2>3
<1>12. IsFiniteSet(Held(e))'
  BY <1>11, FS_RemoveElement DEF LedgerInv
<1>13. ASSUME NEW p \in Pattern, NEW h \in Handler PROVE PlaceRight(e, p, h)'
  <2>0. PlaceRight(e, p, h) /\ <<p, h>> \in Pair
    BY DEF LedgerInv, Pair
  <2>1. CASE <<p, h>> = a
    <3>1. /\ Cardinality(Seats(e, p, h))' = Cardinality(Seats(e, p, h)) - 1
          /\ Cardinality(Seats(e, p, h)) > 0
      <4>1. Seats(e, p, h) # {}
        BY <1>11, <2>1
      <4> QED
        BY <1>11, <2>1, <4>1, PlacesCount, FS_RemoveElement, FS_EmptySet
    <3>2. CASE b = a
      <4>1. p = q /\ h = g
        BY <2>1, <3>2 DEF b
      <4> QED
        BY <1>3, <1>6, <2>0, <2>1, <3>1, <3>2, <4>1, PlacesCount DEF PlaceRight, Upset
    <3>3. CASE b # a
      <4>1. ~ (p = q /\ h = g)
        BY <2>1, <3>3 DEF b
      <4>2. loose'[e][<<p, h>>] = OneMore(loose[e][<<p, h>>])
        BY <1>6, <2>0, <2>1, <3>3
      <4>3. Times(trie[e], p, h)' = Times(trie[e], p, h)
        BY <1>3, <4>1
      <4> QED
        BY <2>0, <3>1, <4>2, <4>3, PlacesCount DEF PlaceRight, OneMore, Upset
    <3> QED
      BY <3>2, <3>3
  <2>2. CASE <<p, h>> # a /\ <<p, h>> = b
    <3>1. p = q /\ h = g
      BY <2>2 DEF b
    <3>2. loose'[e][<<p, h>>] = OneLess(loose[e][<<p, h>>], Times(trie[e], p, h))
      BY <1>6, <2>0, <2>2, <3>1
    <3>3. Times(trie[e], p, h)' =
            IF Times(trie[e], p, h) > 0 THEN Times(trie[e], p, h) - 1 ELSE Times(trie[e], p, h)
      BY <1>3, <3>1
    <3>4. Seats(e, p, h)' = Seats(e, p, h)
      BY <1>11, <2>2
    <3> QED
      BY <2>0, <3>2, <3>3, <3>4, PlacesCount DEF PlaceRight, OneLess, Upset
  <2>3. CASE <<p, h>> # a /\ <<p, h>> # b
    <3>1. ~ (p = q /\ h = g)
      BY <2>3 DEF b
    <3>2. /\ Times(trie[e], p, h)' = Times(trie[e], p, h) /\ Seats(e, p, h)' = Seats(e, p, h)
          /\ loose'[e][<<p, h>>] = loose[e][<<p, h>>]
      BY <1>3, <1>6, <1>11, <2>0, <2>3, <3>1
    <3> QED
      BY <2>0, <3>2, PlaceLeftAlone
  <2> QED
    BY <2>1, <2>2, <2>3
<1> QED
  BY <1>3, <1>7, <1>9, <1>10, <1>12, <1>13 DEF LedgerInv

LEMMA CopyKeepsLedger ==
  ASSUME TriesOK, IdsOK, LedgerInv, NEW e \in live, NEW new \in Emitter, Copy(e, new)
  PROVE  LedgerInv'
<1>1. /\ live' = live \cup {new} /\ new \notin live /\ live \subseteq Emitter
      /\ \A x \in live : /\ trie'[x] = trie[x] /\ uids'[x] = uids[x] /\ loose'[x] = loose[x]
                         /\ balance'[x] = balance[x] /\ home'[x] = home[x]
      /\ trie'[new] = trie[e] /\ uids'[new] = uids[e] /\ balance'[new] = balance[e]
      /\ home'[new] = home[e] /\ loose'[new] = loose[e] /\ records' = records
  BY DEF Copy, TriesOK, IdsOK
<1>2. ASSUME NEW x \in live
      PROVE  /\ IsFiniteSet(Held(x))'
             /\ \A u \in Uid : IdRight(x, u)'
             /\ \A p \in Pattern, h \in Handler : PlaceRight(x, p, h)'
  BY <1>1, OthersLeftAlone
<1>3. Held(new)' = Held(e) /\ \A p, h : Seats(new, p, h)' = Seats(e, p, h)
  BY <1>1 DEF Held, Seats
<1>4. ASSUME NEW u \in Uid PROVE IdRight(new, u)'
  <2>1. RecordOf(new, u)' = RecordOf(e, u)
    BY <1>1 DEF RecordOf
  <2>2. Counting(new, u)' <=> Counting(e, u)
    BY <2>1 DEF Counting
  <2> QED
    BY <1>1, <2>1, <2>2 DEF LedgerInv, IdRight
<1>5. ASSUME NEW p \in Pattern, NEW h \in Handler PROVE PlaceRight(new, p, h)'
  <2>1. Times(trie[new], p, h)' = Times(trie[e], p, h)
    BY <1>1 DEF Times, HandlersAt
  <2> QED
    BY <1>1, <1>3, <2>1 DEF LedgerInv, PlaceRight
<1> QED
  BY <1>1, <1>2, <1>3, <1>4, <1>5 DEF LedgerInv

LEMMA StepKeepsLedger == TriesOK /\ IdsOK /\ LedgerInv /\ [Next]_vars => LedgerInv'
<1> SUFFICES ASSUME TriesOK, IdsOK, LedgerInv, [Next]_vars PROVE LedgerInv'
  OBVIOUS
<1>1. CASE UNCHANGED vars
  BY <1>1, QuietKeepsLedger DEF vars, ledger
<1>2. ASSUME NEW e \in live, Calls(e) PROVE LedgerInv'
  <2>1. ASSUME NEW ev \in Event, Emit(e, ev) PROVE LedgerInv'
    BY <2>1, QuietKeepsLedger DEF Emit, uidVars
  <2>2. ASSUME NEW p \in Pattern, NEW h \in Handler, NEW s \in Section, Register(e, p, h, s)
        PROVE  LedgerInv'
    BY <2>2, RegisterKeepsLedger
  <2>3. ASSUME NEW p \in Pattern, NEW h \in Handler, NEW s \in Section, NEW u \in Uid,
               NEW c \in BOOLEAN, RegisterId(e, p, h, s, u, c)
        PROVE  LedgerInv'
    BY <2>3, RegisterIdKeepsLedger
  <2>4. ASSUME NEW u \in Uid, NEW c \in BOOLEAN, RegisterAgain(e, u, c) PROVE LedgerInv'
    BY <2>4, RegisterAgainKeepsLedger
  <2>5. ASSUME NEW u \in Uid, NEW c \in BOOLEAN, CountMismatch(e, u, c) PROVE LedgerInv'
    BY <2>5, QuietKeepsLedger DEF CountMismatch, uidVars
  <2>6. ASSUME NEW p \in Pattern, NEW h \in Handler, Unregister(e, p, h) PROVE LedgerInv'
    BY <2>6, UnregisterKeepsLedger
  <2>7. ASSUME NEW u \in Uid, UnregisterUnknownId(e, u) PROVE LedgerInv'
    BY <2>7, QuietKeepsLedger DEF UnregisterUnknownId, uidVars
  <2>8. ASSUME NEW u \in Uid, UnregisterOneOfMany(e, u) PROVE LedgerInv'
    BY <2>8, OneOfManyKeepsLedger
  <2>9. ASSUME NEW p \in Pattern, NEW u \in Uid, UnregisterId(e, p, u) PROVE LedgerInv'
    BY <2>9, UnregisterIdKeepsLedger
  <2>10. ASSUME NEW new \in Emitter, Copy(e, new) PROVE LedgerInv'
    BY <2>10, CopyKeepsLedger
  <2> QED
    BY <1>2, <2>1, <2>2, <2>3, <2>4, <2>5, <2>6, <2>7, <2>8, <2>9, <2>10 DEF Calls
<1> QED
  BY <1>1, <1>2 DEF Next

\* The ids that hold a handler in a list by their records are those whose calls are
\* unmatched by the ledger.
LEMMA LedgerTells == IdsOK /\ TriesOK /\ LedgerInv => CallsWhatIsDue
<1> SUFFICES ASSUME IdsOK, TriesOK, LedgerInv, NEW e \in live, NEW p \in Pattern,
                    NEW h \in Handler, loose[e][<<p, h>>] # Upset
             PROVE  Times(trie[e], p, h) = loose[e][<<p, h>>] + Cardinality(Due(e, p, h))
  BY DEF CallsWhatIsDue
<1>1. ASSUME NEW u \in Uid, uids[e][u] # NoRef, home[e][u] = <<p, h>> PROVE balance[e][u] > 0
  <2>1. /\ RecordOf(e, u) \in Record
        /\ balance[e][u] = IF Counting(e, u) THEN RecordOf(e, u).count ELSE 1
    BY <1>1 DEF LedgerInv, IdRight
  <2> QED
    BY <2>1, EmitterAssumption DEF Record, Counting
<1>2. ASSUME NEW u \in Uid, balance[e][u] > 0, home[e][u] = <<p, h>> PROVE uids[e][u] # NoRef
  BY <1>2 DEF LedgerInv, IdRight
<1>3. Due(e, p, h) = Seats(e, p, h)
  BY <1>1, <1>2 DEF Due, Seats, Held
<1> QED
  BY <1>3 DEF LedgerInv, PlaceRight

\* In every reachable state an emitter has under each name what its callers have
\* outstanding there, however many emitters share the records of the ids.
THEOREM OnlyWhatIsDueIsCalled == Spec => []CallsWhatIsDue
<1>1. Init => TriesOK /\ IdsOK /\ LedgerInv
  BY InitTypes, InitLedger
<1>2. (TriesOK /\ IdsOK /\ LedgerInv) /\ [Next]_vars => (TriesOK /\ IdsOK /\ LedgerInv)'
  BY StepTypes, StepKeepsLedger
<1> QED
  BY <1>1, <1>2, LedgerTells, PTL DEF Spec
-----------------------------------------------------------------------------
(***************************************************************************)
(* The order of a search.  The walk is a recursive function, and so is the *)
(* flattening of a sequence of lists: that such a function exists, and is  *)
(* the only one, is proved by the least argument where it would fail.      *)
(***************************************************************************)

\* What FlattenSeq computes for the first i lists.
Flattens(f, ss, n) ==
  /\ f[1] = ss[1]
  /\ \A i \in 2..n : f[i] = f[i - 1] \o ss[i]

LEMMA FlattenExists ==
  ASSUME NEW H, NEW ss \in Seq(Seq(H)), NEW N \in Nat, N = Len(ss), N # 0
  PROVE  \E f \in [1..N -> Seq(H)] : Flattens(f, ss, N)
<1> DEFINE Good(n) == \E f \in [1..n -> Seq(H)] : Flattens(f, ss, n)
           Bad == {n \in 1..N : ~ Good(n)}
<1>1. ASSUME Bad # {}
      PROVE  FALSE
  <2>1. Bad \in SUBSET (1..N)
    OBVIOUS
  <2>2. PICK m \in Bad : \A k \in Bad : m <= k
    <3> HIDE DEF Bad
    <3> QED BY <1>1, <2>1, LeastIndex
  <2>3. m \in 1..N /\ ~ Good(m)
    OBVIOUS
  <2>4. m # 1
    <3>1. [i \in 1..1 |-> ss[1]] \in [1..1 -> Seq(H)]
      OBVIOUS
    <3>2. Flattens([i \in 1..1 |-> ss[1]], ss, 1)
      BY DEF Flattens
    <3>3. Good(1)
      BY <3>1, <3>2
    <3> HIDE DEF Good
    <3> QED BY <2>3, <3>3
  <2>5. m - 1 \in 1..N /\ m - 1 \notin Bad
    <3>1. m - 1 \in 1..N /\ ~ (m <= m - 1)
      BY <2>3, <2>4
    <3> HIDE DEF Bad
    <3> QED BY <2>2, <3>1
  <2>6. Good(m - 1)
    <3> HIDE DEF Good
    <3> QED BY <2>5
  <2>7. PICK f \in [1..(m - 1) -> Seq(H)] : Flattens(f, ss, m - 1)
    BY <2>6
  <2> DEFINE g == [i \in 1..m |-> IF i = m THEN f[m - 1] \o ss[m] ELSE f[i]]
  <2>8. f[m - 1] \o ss[m] \in Seq(H)
    <3>1. f[m - 1] \in Seq(H) /\ ss[m] \in Seq(H)
      BY <2>3, <2>4, <2>7
    <3> QED BY <3>1
  <2>9. g \in [1..m -> Seq(H)]
    BY <2>3, <2>8
  <2>10. g[1] = ss[1]
    BY <2>3, <2>4, <2>7 DEF Flattens
  <2>11. ASSUME NEW i \in 2..m
         PROVE  g[i] = g[i - 1] \o ss[i]
    <3>1. i \in 1..m /\ i - 1 \in 1..(m - 1) /\ g[i - 1] = f[i - 1]
      BY <2>3, <2>11
    <3>2. CASE i = m
      BY <3>1, <3>2
    <3>3. CASE i # m
      <4>1. i \in 2..(m - 1) /\ g[i] = f[i]
        BY <2>3, <2>11, <3>3
      <4> QED BY <2>7, <3>1, <4>1 DEF Flattens
    <3> QED BY <3>2, <3>3
  <2>12. Flattens(g, ss, m)
    <3> HIDE DEF g
    <3> QED BY <2>10, <2>11 DEF Flattens
  <2> HIDE DEF g
  <2> QED BY <2>3, <2>9, <2>12
<1>2. N \in 1..N
  OBVIOUS
<1> HIDE DEF Good
<1> QED
  BY <1>1, <1>2 DEF Good

\* Two functions that compute it agree.
LEMMA FlattenUnique ==
  ASSUME NEW ss, NEW N \in Nat, NEW f, NEW g, Flattens(f, ss, N), Flattens(g, ss, N)
  PROVE  \A i \in 1..N : f[i] = g[i]
<1> DEFINE Bad == {i \in 1..N : f[i] # g[i]}
<1>1. ASSUME Bad # {}
      PROVE  FALSE
  <2>1. Bad \in SUBSET (1..N)
    OBVIOUS
  <2>2. PICK m \in Bad : \A k \in Bad : m <= k
    <3> HIDE DEF Bad
    <3> QED BY <1>1, <2>1, LeastIndex
  <2>3. m \in 2..N
    BY DEF Flattens
  <2>4. m - 1 \in 1..N /\ ~ (m <= m - 1)
    BY <2>3
  <2>5. f[m - 1] = g[m - 1]
    BY <2>2, <2>4
  <2>6. f[m] = g[m]
    BY <2>3, <2>5 DEF Flattens
  <2> QED BY <2>6
<1> QED
  BY <1>1

LEMMA FlattenIs ==
  ASSUME NEW H, NEW ss \in Seq(Seq(H)), NEW N \in Nat, N = Len(ss), N # 0,
         NEW f, Flattens(f, ss, N)
  PROVE  FlattenSeq(ss) = f[N] /\ FlattenSeq(ss) \in Seq(H)
<1> DEFINE G(g) == g = [i \in 1..N |-> IF i = 1 THEN ss[i] ELSE g[i - 1] \o ss[i]]
           flat == CHOOSE g : G(g)
<1>1. FlattenSeq(ss) = flat[N]
  BY DEF FlattenSeq
<1>2. PICK h \in [1..N -> Seq(H)] : Flattens(h, ss, N)
  BY FlattenExists
<1>3. G(h)
  <2>1. ASSUME NEW i \in 1..N
        PROVE  h[i] = IF i = 1 THEN ss[i] ELSE h[i - 1] \o ss[i]
    <3>1. i = 1 \/ i \in 2..N
      OBVIOUS
    <3> QED BY <1>2, <3>1 DEF Flattens
  <2> QED BY <2>1
<1>4. G(flat)
  <2> HIDE DEF G
  <2> QED BY <1>3
<1>5. flat[1] = ss[1] /\ \A i \in 2..N : flat[i] = flat[i - 1] \o ss[i]
  <2> HIDE DEF flat
  <2>1. \A i \in 1..N : flat[i] = IF i = 1 THEN ss[i] ELSE flat[i - 1] \o ss[i]
    BY <1>4
  <2>2. 1 \in 1..N /\ \A i \in 2..N : i \in 1..N /\ i # 1
    OBVIOUS
  <2> HIDE DEF G
  <2> QED BY <2>1, <2>2
<1> HIDE DEF flat, G
<1>6. Flattens(flat, ss, N)
  BY <1>5 DEF Flattens
<1>7. flat[N] = f[N] /\ flat[N] = h[N]
  BY <1>6, <1>2, FlattenUnique
<1> QED
  BY <1>1, <1>2, <1>7

\* One list more.
LEMMA FlattenAppend ==
  ASSUME NEW H, NEW ss \in Seq(Seq(H)), NEW x \in Seq(H)
  PROVE  FlattenSeq(ss \o <<x>>) = FlattenSeq(ss) \o x /\ FlattenSeq(ss) \in Seq(H)
<1> DEFINE N == Len(ss)
           tt == ss \o <<x>>
<1>1. /\ N \in Nat /\ tt \in Seq(Seq(H)) /\ Len(tt) = N + 1
      /\ tt[N + 1] = x /\ \A i \in 1..N : tt[i] = ss[i]
  <2>1. <<x>> \in Seq(Seq(H)) /\ Len(<<x>>) = 1 /\ <<x>>[1] = x
    OBVIOUS
  <2> QED BY <2>1, ConcatProperties
<1>2. CASE N = 0
  <2>1. ss = << >> /\ FlattenSeq(ss) = << >>
    BY <1>2 DEF FlattenSeq
  <2>2. Flattens([i \in 1..1 |-> x], tt, 1)
    BY <1>1, <1>2 DEF Flattens
  <2>3. FlattenSeq(tt) = [i \in 1..1 |-> x][1]
    <3> HIDE DEF tt, N
    <3>1. Len(tt) = 1
      BY <1>1, <1>2
    <3>2. 1 \in Nat /\ 1 # 0
      OBVIOUS
    <3>5. 1 = Len(tt) /\ tt \in Seq(Seq(H))
      BY <1>1, <3>1, Zenon
    <3> DEFINE f == [i \in 1..1 |-> x]
    <3>3. Flattens(f, tt, 1)
      BY <2>2
    <3> HIDE DEF f
    <3>4. FlattenSeq(tt) = f[1]
      BY <3>2, <3>3, <3>5, FlattenIs
    <3> QED BY <3>4 DEF f
  <2>4. << >> \o x = x
    BY ConcatEmptySeq
  <2>5. FlattenSeq(tt) = x
    BY <2>3
  <2>6. << >> \in Seq(H)
    OBVIOUS
  <2> HIDE DEF N, tt
  <2> QED BY <2>1, <2>4, <2>5, <2>6 DEF tt
<1>3. CASE N # 0
  <2>1. PICK f \in [1..N -> Seq(H)] : Flattens(f, ss, N)
    BY <1>1, <1>3, FlattenExists
  <2>2. FlattenSeq(ss) = f[N] /\ FlattenSeq(ss) \in Seq(H)
    BY <1>1, <1>3, <2>1, FlattenIs
  <2> DEFINE g == [i \in 1..(N + 1) |-> IF i = N + 1 THEN f[N] \o x ELSE f[i]]
  <2> HIDE DEF N, tt
  <2>3. g[1] = tt[1]
    BY <1>1, <1>3, <2>1 DEF Flattens
  <2>4. \A i \in 2..(N + 1) : g[i] = g[i - 1] \o tt[i]
    <3> SUFFICES ASSUME NEW i \in 2..(N + 1)
                 PROVE  g[i] = g[i - 1] \o tt[i]
      OBVIOUS
    <3>1. i - 1 \in 1..N /\ g[i - 1] = f[i - 1]
      BY <1>1
    <3>2. CASE i = N + 1
      <4>1. i - 1 = N /\ i \in 1..(N + 1)
        BY <1>1, <3>2
      <4>2. g[i] = f[N] \o x
        BY <3>2, <4>1
      <4> HIDE DEF g
      <4> QED BY <1>1, <3>1, <3>2, <4>1, <4>2
    <3>3. CASE i # N + 1
      <4>1. i \in 2..N /\ g[i] = f[i] /\ tt[i] = ss[i]
        BY <1>1, <3>3
      <4> HIDE DEF g
      <4> QED BY <2>1, <3>1, <4>1 DEF Flattens
    <3> QED BY <3>2, <3>3
  <2>5. g[N + 1] = f[N] \o x
    BY <1>1
  <2> HIDE DEF g
  <2>6. Flattens(g, tt, N + 1)
    BY <2>3, <2>4 DEF Flattens
  <2>7. FlattenSeq(tt) = g[N + 1]
    <3>1. N + 1 \in Nat /\ N + 1 # 0 /\ N + 1 = Len(tt) /\ tt \in Seq(Seq(H))
      BY <1>1
    <3> QED BY <2>6, <3>1, FlattenIs
  <2> QED BY <2>2, <2>5, <2>7 DEF tt
<1> QED
  BY <1>2, <1>3

\* Concatenation under a name, for the provers to instantiate its laws.
Cat(u, v) == u \o v

LEMMA CatAssociates ==
  ASSUME NEW T, NEW u \in Seq(T), NEW v \in Seq(T), NEW w \in Seq(T)
  PROVE  Cat(Cat(u, v), w) = Cat(u, Cat(v, w)) /\ Cat(u, v) \in Seq(T)
<1>1. (u \o v) \o w = u \o (v \o w)
  OBVIOUS
<1>2. u \o v \in Seq(T)
  OBVIOUS
<1> QED
  BY <1>1, <1>2 DEF Cat

LEMMA CatFlattens ==
  ASSUME NEW H, NEW ss \in Seq(Seq(H)), NEW x \in Seq(H)
  PROVE  FlattenSeq(Cat(ss, <<x>>)) = Cat(FlattenSeq(ss), x) /\ FlattenSeq(ss) \in Seq(H)
BY FlattenAppend DEF Cat

LEMMA FlattenOneMore ==
  ASSUME NEW H, NEW ss \in Seq(Seq(H)), NEW c \in Seq(Seq(H)), NEW x \in Seq(H),
         FlattenSeq(Cat(ss, c)) = Cat(FlattenSeq(ss), FlattenSeq(c))
  PROVE  FlattenSeq(Cat(ss, Cat(c, <<x>>))) = Cat(FlattenSeq(ss), FlattenSeq(Cat(c, <<x>>)))
<1> DEFINE a == FlattenSeq(ss)
           b == FlattenSeq(c)
           y == <<x>>
<1>1. FlattenSeq(Cat(c, y)) = Cat(b, x) /\ b \in Seq(H) /\ a \in Seq(H)
  BY CatFlattens, Zenon
<1>2. y \in Seq(Seq(H))
  OBVIOUS
<1>3. Cat(ss, c) \in Seq(Seq(H)) /\ Cat(Cat(ss, c), y) = Cat(ss, Cat(c, y))
  <2> HIDE DEF y
  <2> QED BY <1>2, CatAssociates
<1>4. FlattenSeq(Cat(Cat(ss, c), y)) = Cat(FlattenSeq(Cat(ss, c)), x)
  BY <1>3, CatFlattens, Zenon
<1>5. Cat(Cat(a, b), x) = Cat(a, Cat(b, x))
  <2> HIDE DEF a, b
  <2> QED BY <1>1, CatAssociates
<1> HIDE DEF y
<1> QED
  BY <1>1, <1>3, <1>4, <1>5, Zenon DEF y

\* The flattening of a sequence of lists, in two parts.
LEMMA FlattenConcat ==
  ASSUME NEW H, NEW ss \in Seq(Seq(H)), NEW tt \in Seq(Seq(H))
  PROVE  FlattenSeq(ss \o tt) = FlattenSeq(ss) \o FlattenSeq(tt)
<1> DEFINE N == Len(tt)
           Cut(n) == SubSeq(tt, 1, n)
           Good(n) == FlattenSeq(ss \o Cut(n)) = FlattenSeq(ss) \o FlattenSeq(Cut(n))
           Bad == {n \in 1..N : ~ Good(n)}
<1>1. N \in Nat /\ Cut(N) = tt
  BY SubSeqFull
<1>2. \A n \in 0..N : Cut(n) \in Seq(Seq(H)) /\ Len(Cut(n)) = n
  <2> SUFFICES ASSUME NEW n \in 0..N
               PROVE  Cut(n) \in Seq(Seq(H)) /\ Len(Cut(n)) = n
    OBVIOUS
  <2>1. \A j \in 1..n : tt[j] \in Seq(H)
    OBVIOUS
  <2> QED
    BY <2>1, SubSeqProperties
<1>3. Good(0)
  <2>1. Cut(0) = << >>
    BY SubSeqEmpty
  <2>2. FlattenSeq(<< >>) = << >>
    BY DEF FlattenSeq
  <2>3. FlattenSeq(ss) \in Seq(H)
    <3>1. << >> \in Seq(H)
      OBVIOUS
    <3> QED BY <3>1, FlattenAppend
  <2>4. ss \o << >> = ss /\ FlattenSeq(ss) \o << >> = FlattenSeq(ss)
    BY <2>3, ConcatEmptySeq
  <2> QED BY <2>1, <2>2, <2>4
<1>4. ASSUME Bad # {}
      PROVE  FALSE
  <2>1. Bad \in SUBSET (1..N)
    OBVIOUS
  <2>2. PICK m \in Bad : \A k \in Bad : m <= k
    <3> HIDE DEF Bad
    <3> QED BY <1>1, <1>4, <2>1, LeastIndex
  <2>3. m \in 1..N /\ ~ Good(m)
    OBVIOUS
  <2>4. Good(m - 1)
    <3>1. CASE m = 1
      BY <1>3, <3>1
    <3>2. CASE m # 1
      <4>1. m - 1 \in 1..N /\ ~ (m <= m - 1)
        BY <2>3, <3>2
      <4>2. m - 1 \notin Bad
        <5> HIDE DEF Bad
        <5> QED BY <2>2, <4>1
      <4> HIDE DEF Good
      <4> QED BY <4>1, <4>2
    <3> QED BY <3>1, <3>2
  <2> DEFINE c == Cut(m - 1)
             x == tt[m]
  <2>5. c \in Seq(Seq(H)) /\ x \in Seq(H)
    <3>1. m - 1 \in 0..N
      BY <2>3
    <3>2. x \in Seq(H)
      BY <2>3
    <3> HIDE DEF Cut
    <3> QED BY <1>2, <3>1, <3>2
  <2>6. Cut(m) = c \o <<x>>
    <3>1. 1 \in 1..Len(tt) /\ m \in 1..Len(tt)
      BY <2>3
    <3> QED BY <3>1, SubSeqRecursiveSecond
  <2>7. FlattenSeq(Cat(ss, c)) = Cat(FlattenSeq(ss), FlattenSeq(c))
    BY <2>4 DEF Cat
  <2> HIDE DEF c, x
  <2>8. FlattenSeq(Cat(ss, Cat(c, <<x>>))) = Cat(FlattenSeq(ss), FlattenSeq(Cat(c, <<x>>)))
    BY <2>5, <2>7, FlattenOneMore
  <2>9. FlattenSeq(ss \o Cut(m)) = FlattenSeq(ss) \o FlattenSeq(Cut(m))
    <3> HIDE DEF Cut
    <3> QED BY <2>6, <2>8 DEF Cat
  <2> QED BY <2>3, <2>9
<1>5. Good(N)
  <2>1. N = 0 \/ N \in 1..N
    BY <1>1
  <2> HIDE DEF Good
  <2> QED BY <1>3, <1>4, <2>1
<1> QED
  BY <1>1, <1>5

\* The lists of the handlers of some nodes.
Lists(t, s) == [i \in DOMAIN s |-> CompleteOrder(t[s[i]])]

LEMMA NodesHaveLists ==
  ASSUME NEW t, IsTrie(t), NEW V \in SUBSET DOMAIN t
  PROVE  /\ \A p \in V : CompleteOrder(t[p]) \in Seq(Handler)
         /\ \A s \in Seq(V) : Lists(t, s) \in Seq(Seq(Handler)) /\ Len(Lists(t, s)) = Len(s)
<1>1. ASSUME NEW p \in V
      PROVE  CompleteOrder(t[p]) \in Seq(Handler)
  <2>1. t[p] = NoValues \/ t[p] \in NodeList
    BY DEF IsTrie
  <2>2. CASE t[p] = NoValues
    BY <2>2 DEF CompleteOrder
  <2>3. CASE t[p] # NoValues
    <3>1. t[p].first \in Seq(Handler) /\ t[p].middle \in Seq(Handler) /\ t[p].last \in Seq(Handler)
      BY <2>1, <2>3 DEF NodeList
    <3>2. CompleteOrder(t[p]) = (t[p].first \o t[p].middle) \o t[p].last
      BY <2>3 DEF CompleteOrder
    <3>3. t[p].first \o t[p].middle \in Seq(Handler)
      BY <3>1
    <3> QED BY <3>1, <3>2, <3>3
  <2> QED BY <2>2, <2>3
<1>2. ASSUME NEW s \in Seq(V)
      PROVE  Lists(t, s) \in Seq(Seq(Handler)) /\ Len(Lists(t, s)) = Len(s)
  <2>1. Len(s) \in Nat /\ DOMAIN s = 1..Len(s) /\ \A i \in 1..Len(s) : s[i] \in V
    OBVIOUS
  <2>2. Lists(t, s) = [i \in 1..Len(s) |-> CompleteOrder(t[s[i]])]
    BY <2>1 DEF Lists
  <2>3. \A i \in 1..Len(s) : CompleteOrder(t[s[i]]) \in Seq(Handler)
    BY <1>1, <2>1
  <2> QED
    BY <2>1, <2>2, <2>3
<1> QED
  BY <1>1, <1>2

\* The handlers of a sequence of nodes, in two parts, and of a single node.
LEMMA HandlersConcat ==
  ASSUME NEW t, IsTrie(t), NEW V \in SUBSET DOMAIN t, NEW a \in Seq(V), NEW b \in Seq(V)
  PROVE  /\ HandlersOf(t, a \o b) = HandlersOf(t, a) \o HandlersOf(t, b)
         /\ HandlersOf(t, a) \in Seq(Handler)
<1> DEFINE S == Seq(Handler)
           la == Lists(t, a)
           lb == Lists(t, b)
<1>1. /\ Lists(t, a) \in Seq(S) /\ Len(Lists(t, a)) = Len(a)
      /\ Lists(t, b) \in Seq(S) /\ Len(Lists(t, b)) = Len(b)
  BY NodesHaveLists
<1>2. /\ a \o b \in Seq(V) /\ Len(a \o b) = Len(a) + Len(b)
      /\ \A i \in 1..Len(a) + Len(b) : (a \o b)[i] = IF i <= Len(a) THEN a[i] ELSE b[i - Len(a)]
  BY ConcatProperties
<1>3. Lists(t, a \o b) \in Seq(S) /\ Len(Lists(t, a \o b)) = Len(a) + Len(b)
  BY <1>2, NodesHaveLists
<1>4. /\ Lists(t, a) \o Lists(t, b) \in Seq(S) /\ Len(Lists(t, a) \o Lists(t, b)) = Len(a) + Len(b)
      /\ \A i \in 1..Len(a) + Len(b) : (Lists(t, a) \o Lists(t, b))[i] =
           IF i <= Len(a) THEN Lists(t, a)[i] ELSE Lists(t, b)[i - Len(a)]
  <2>1. la \in Seq(S) /\ Len(la) = Len(a) /\ lb \in Seq(S) /\ Len(lb) = Len(b)
    BY <1>1
  <2> HIDE DEF S, la, lb
  <2>2. /\ la \o lb \in Seq(S) /\ Len(la \o lb) = Len(la) + Len(lb)
        /\ \A i \in 1..Len(la) + Len(lb) :
             (la \o lb)[i] = IF i <= Len(la) THEN la[i] ELSE lb[i - Len(la)]
    BY <2>1, ConcatProperties
  <2>3. /\ la \o lb \in Seq(S) /\ Len(la \o lb) = Len(a) + Len(b)
        /\ \A i \in 1..Len(a) + Len(b) :
             (la \o lb)[i] = IF i <= Len(a) THEN la[i] ELSE lb[i - Len(a)]
    BY <2>1, <2>2
  <2> QED BY <2>3 DEF la, lb
<1>5. Len(a) \in Nat /\ Len(b) \in Nat /\ DOMAIN a = 1..Len(a) /\ DOMAIN b = 1..Len(b)
  OBVIOUS
<1>6. \A i \in 1..Len(a) + Len(b) : Lists(t, a \o b)[i] = (Lists(t, a) \o Lists(t, b))[i]
  <2> SUFFICES ASSUME NEW i \in 1..Len(a) + Len(b)
               PROVE  Lists(t, a \o b)[i] = (Lists(t, a) \o Lists(t, b))[i]
    OBVIOUS
  <2>1. Lists(t, a \o b)[i] = CompleteOrder(t[(a \o b)[i]])
    <3>1. DOMAIN (a \o b) = 1..Len(a) + Len(b)
      BY <1>2
    <3> QED BY <3>1 DEF Lists
  <2>2. CASE i <= Len(a)
    <3>1. i \in DOMAIN a
      BY <1>5, <2>2
    <3>2. Lists(t, a)[i] = CompleteOrder(t[a[i]])
      BY <3>1 DEF Lists
    <3> QED BY <1>2, <1>4, <2>1, <2>2, <3>2
  <2>3. CASE ~ (i <= Len(a))
    <3>1. i - Len(a) \in DOMAIN b
      BY <1>5, <2>3
    <3>2. Lists(t, b)[i - Len(a)] = CompleteOrder(t[b[i - Len(a)]])
      BY <3>1 DEF Lists
    <3> QED BY <1>2, <1>4, <2>1, <2>3, <3>2
  <2> QED BY <2>2, <2>3
<1>7. Lists(t, a \o b) = Lists(t, a) \o Lists(t, b)
  <2> DEFINE u == Lists(t, a \o b)
             v == Lists(t, a) \o Lists(t, b)
  <2>1. u \in Seq(S) /\ v \in Seq(S) /\ Len(u) = Len(v) /\ \A i \in 1..Len(u) : u[i] = v[i]
    BY <1>3, <1>4, <1>6
  <2> HIDE DEF u, v, S
  <2>2. u = v
    BY <2>1, SeqEqual
  <2> QED BY <2>2 DEF u, v
<1>8. FlattenSeq(Lists(t, a) \o Lists(t, b)) = FlattenSeq(Lists(t, a)) \o FlattenSeq(Lists(t, b))
  BY <1>1, FlattenConcat
<1>9. FlattenSeq(Lists(t, a)) \in Seq(Handler)
  <2>1. << >> \in Seq(Handler)
    OBVIOUS
  <2> QED BY <1>1, <2>1, FlattenAppend
<1> QED
  BY <1>7, <1>8, <1>9 DEF HandlersOf, Lists

LEMMA HandlersOfOne ==
  ASSUME NEW t, IsTrie(t), NEW V \in SUBSET DOMAIN t, NEW p \in V
  PROVE  HandlersOf(t, <<p>>) = CompleteOrder(t[p]) /\ HandlersOf(t, << >>) = << >>
<1>1. HandlersOf(t, << >>) = << >>
  <2>1. [i \in DOMAIN << >> |-> CompleteOrder(t[<< >>[i]])] = << >>
    OBVIOUS
  <2>2. FlattenSeq(<< >>) = << >>
    BY DEF FlattenSeq
  <2> QED BY <2>1, <2>2 DEF HandlersOf
<1>2. CompleteOrder(t[p]) \in Seq(Handler)
  BY NodesHaveLists
<1>3. Lists(t, <<p>>) = << >> \o << CompleteOrder(t[p]) >>
  <2>1. Lists(t, <<p>>) = << CompleteOrder(t[p]) >>
    BY DEF Lists
  <2>2. << CompleteOrder(t[p]) >> \in Seq(Seq(Handler))
    BY <1>2
  <2> QED BY <2>1, <2>2, ConcatEmptySeq
<1>4. << >> \in Seq(Seq(Handler)) /\ FlattenSeq(<< >>) = << >>
  BY DEF FlattenSeq
<1>5. FlattenSeq(<< >> \o << CompleteOrder(t[p]) >>) = FlattenSeq(<< >>) \o CompleteOrder(t[p])
  BY <1>2, <1>4, FlattenAppend
<1>6. << >> \o CompleteOrder(t[p]) = CompleteOrder(t[p])
  BY <1>2, ConcatEmptySeq
<1>7. HandlersOf(t, <<p>>) = FlattenSeq(Lists(t, <<p>>))
  BY DEF HandlersOf, Lists
<1> QED
  BY <1>1, <1>3, <1>4, <1>5, <1>6, <1>7

\* What the walk collects from node p on, if f is what it collects from others.
Collect(t, key, f, p) ==
  LET under(chunk) ==
        IF Append(p, chunk) \in Matching(t, key) THEN f[Append(p, chunk)] ELSE << >>
  IN  (IF Len(p) = Len(key) THEN << >>
       ELSE under(Wildcard) \o under(key[Len(p) + 1])) \o CompleteOrder(t[p])

LEMMA CollectSame ==
  ASSUME NEW t, NEW key, NEW p, NEW f, NEW g,
         \A c : Append(p, c) \in Matching(t, key) => f[Append(p, c)] = g[Append(p, c)]
  PROVE  Collect(t, key, f, p) = Collect(t, key, g, p)
<1> DEFINE Under(h, c) == IF Append(p, c) \in Matching(t, key) THEN h[Append(p, c)] ELSE << >>
<1>1. \A c : Under(f, c) = Under(g, c)
  OBVIOUS
<1>2. \A h : Collect(t, key, h, p) =
        (IF Len(p) = Len(key) THEN << >>
         ELSE Under(h, Wildcard) \o Under(h, key[Len(p) + 1])) \o CompleteOrder(t[p])
  BY DEF Collect
<1> DEFINE head(h) == IF Len(p) = Len(key) THEN << >>
                      ELSE Under(h, Wildcard) \o Under(h, key[Len(p) + 1])
<1>3. Under(f, Wildcard) = Under(g, Wildcard) /\ Under(f, key[Len(p) + 1]) = Under(g, key[Len(p) + 1])
  <2> HIDE DEF Under
  <2> QED BY <1>1
<1> HIDE DEF Under
<1>4. head(f) = head(g)
  BY <1>3, Zenon
<1>5. Collect(t, key, f, p) = head(f) \o CompleteOrder(t[p])
  BY <1>2
<1>6. Collect(t, key, g, p) = head(g) \o CompleteOrder(t[p])
  BY <1>2
<1> HIDE DEF head
<1> QED
  BY <1>4, <1>5, <1>6, Zenon

\* Visited nodes are sequences no longer than the key.
LEMMA VisitedNodes ==
  ASSUME NEW t, IsTrie(t), NEW key \in Seq(Chunk)
  PROVE  /\ Len(key) \in Nat
         /\ \A p \in Matching(t, key) :
              p \in DOMAIN t /\ p \in Seq(Chunk) /\ Len(p) \in Nat /\ Len(p) <= Len(key)
         /\ \A p \in Seq(Chunk), c \in Chunk :
              Append(p, c) \in Seq(Chunk) /\ Len(Append(p, c)) = Len(p) + 1
<1>1. \A p \in Matching(t, key) : p \in DOMAIN t /\ p \in Seq(Chunk) /\ Len(p) <= Len(key)
  BY DEF Matching, IsTrie
<1>2. \A p \in Seq(Chunk) : Len(p) \in Nat
  OBVIOUS
<1>3. \A p \in Seq(Chunk), c \in Chunk :
        Append(p, c) \in Seq(Chunk) /\ Len(Append(p, c)) = Len(p) + 1
  OBVIOUS
<1> QED
  BY <1>1, <1>2, <1>3

LEMMA VisitedChild ==
  ASSUME NEW t, IsTrie(t), NEW key \in Seq(Chunk), NEW p \in Seq(Chunk), NEW c,
         Append(p, c) \in Matching(t, key)
  PROVE  Len(Append(p, c)) = Len(p) + 1
OBVIOUS

\* The recursive function of PrefixSearch exists: it does on the deepest levels,
\* none at all to begin with, and each level needs only the one below it.
LEMMA WalkExists ==
  ASSUME NEW t, IsTrie(t), NEW key \in Seq(Chunk)
  PROVE  \E f : f = [p \in Matching(t, key) |-> Collect(t, key, f, p)]
<1> DEFINE K == Len(key)
           V == Matching(t, key)
           Deep(n) == {p \in V : Len(p) + n > K}
           Good(n) == \E f : DOMAIN f = Deep(n) /\ \A p \in Deep(n) : f[p] = Collect(t, key, f, p)
           Bad == {n \in 1..(K + 1) : ~ Good(n)}
<1>1. K \in Nat /\ \A p \in V : p \in Seq(Chunk) /\ Len(p) \in Nat /\ Len(p) <= K
  BY VisitedNodes
<1>2. Good(0)
  <2>1. Deep(0) = {}
    BY <1>1
  <2>2. DOMAIN [p \in {} |-> << >>] = {}
    OBVIOUS
  <2> HIDE DEF Deep
  <2> QED BY <2>1, <2>2
<1>3. ASSUME Bad # {}
      PROVE  FALSE
  <2>1. Bad \in SUBSET (1..(K + 1)) /\ K + 1 \in Nat
    BY <1>1
  <2>2. PICK m \in Bad : \A k \in Bad : m <= k
    <3> HIDE DEF Bad, K
    <3> QED BY <1>3, <2>1, LeastIndex
  <2>3. m \in 1..(K + 1) /\ ~ Good(m)
    OBVIOUS
  <2>4. Good(m - 1)
    <3>1. CASE m = 1
      <4> HIDE DEF Good
      <4> QED BY <1>2, <3>1
    <3>2. CASE m # 1
      <4>1. m - 1 \in 1..(K + 1) /\ ~ (m <= m - 1)
        <5> HIDE DEF K
        <5> QED BY <1>1, <2>3, <3>2
      <4>2. m - 1 \notin Bad
        <5> HIDE DEF Bad
        <5> QED BY <2>2, <4>1
      <4> HIDE DEF Good
      <4> QED BY <4>1, <4>2
    <3> QED BY <3>1, <3>2
  <2>5. PICK f : DOMAIN f = Deep(m - 1) /\ \A p \in Deep(m - 1) : f[p] = Collect(t, key, f, p)
    BY <2>4
  <2> DEFINE g == [p \in Deep(m) |-> IF p \in Deep(m - 1) THEN f[p] ELSE Collect(t, key, f, p)]
  <2> HIDE DEF K
  <2>6. m \in Nat /\ Deep(m - 1) \subseteq Deep(m)
    BY <1>1, <2>3
  <2>7. ASSUME NEW p \in Deep(m)
        PROVE  g[p] = Collect(t, key, g, p)
    <3>1. ASSUME NEW c, Append(p, c) \in V
          PROVE  f[Append(p, c)] = g[Append(p, c)]
      <4>1. p \in Seq(Chunk) /\ Len(p) \in Nat /\ Len(p) + m > K
        BY <1>1
      <4>2. Len(Append(p, c)) = Len(p) + 1
        BY <3>1, <4>1, VisitedChild
      <4>3. Append(p, c) \in Deep(m - 1)
        BY <1>1, <2>6, <3>1, <4>1, <4>2
      <4> HIDE DEF Deep
      <4> QED BY <2>6, <4>3
    <3>2. Collect(t, key, f, p) = Collect(t, key, g, p)
      <4> HIDE DEF g
      <4> QED BY <3>1, CollectSame
    <3>3. g[p] = Collect(t, key, f, p)
      <4> HIDE DEF Deep
      <4>1. g[p] = IF p \in Deep(m - 1) THEN f[p] ELSE Collect(t, key, f, p)
        OBVIOUS
      <4> QED BY <2>5, <4>1
    <3> QED BY <3>2, <3>3
  <2>8. DOMAIN g = Deep(m)
    OBVIOUS
  <2>9. Good(m)
    <3> HIDE DEF g, Deep
    <3> QED BY <2>7, <2>8
  <2> HIDE DEF Good
  <2> QED BY <2>3, <2>9
<1>4. Good(K + 1)
  <2>1. K + 1 \in 1..(K + 1)
    BY <1>1
  <2> HIDE DEF Good, K
  <2> QED BY <1>3, <2>1
<1>5. PICK f : DOMAIN f = Deep(K + 1) /\ \A p \in Deep(K + 1) : f[p] = Collect(t, key, f, p)
  BY <1>4
<1>6. Deep(K + 1) = V
  BY <1>1
<1> DEFINE h == [p \in V |-> f[p]]
<1> HIDE DEF Deep
<1>7. ASSUME NEW p \in V
      PROVE  h[p] = Collect(t, key, h, p)
  <2>1. \A c : Append(p, c) \in Matching(t, key) => f[Append(p, c)] = h[Append(p, c)]
    OBVIOUS
  <2>2. h[p] = Collect(t, key, f, p)
    BY <1>5, <1>6
  <2> HIDE DEF h
  <2> QED BY <2>1, <2>2, CollectSame
<1>8. h = [p \in V |-> Collect(t, key, h, p)]
  <2>1. h = [p \in V |-> h[p]]
    OBVIOUS
  <2> HIDE DEF h, V
  <2> QED BY <1>7, <2>1
<1> QED
  BY <1>8

LEMMA WalkIs ==
  ASSUME NEW t, IsTrie(t), NEW key \in Seq(Chunk)
  PROVE  \E f : /\ \A p \in Matching(t, key) : f[p] = Collect(t, key, f, p)
                /\ << >> \in Matching(t, key) => PrefixSearch(t, key) = f[<< >>]
<1> DEFINE V == Matching(t, key)
           W(f) == f = [p \in V |-> Collect(t, key, f, p)]
           walk == CHOOSE f : W(f)
<1>1. PrefixSearch(t, key) = walk[<< >>]
  BY DEF PrefixSearch, Collect
<1>2. W(walk)
  <2>1. \E f : W(f)
    BY WalkExists
  <2> HIDE DEF W
  <2> QED BY <2>1
<1> HIDE DEF walk
<1>3. \A p \in V : walk[p] = Collect(t, key, walk, p)
  <2> HIDE DEF V
  <2> QED BY <1>2
<1> QED
  BY <1>1, <1>3

-----------------------------------------------------------------------------
\* Two paths with the same first m chunks.
Agree(p, q, m) == \A k \in 1..m : p[k] = q[k]

LEMMA SubSeqAgree ==
  ASSUME NEW p \in Seq(Chunk), NEW q \in Seq(Chunk), NEW m \in Nat, m <= Len(p), m <= Len(q)
  PROVE  SubSeq(p, 1, m) = SubSeq(q, 1, m) <=> Agree(p, q, m)
<1> DEFINE u == SubSeq(p, 1, m)
           v == SubSeq(q, 1, m)
<1>1. u \in Seq(Chunk) /\ Len(u) = m /\ \A k \in 1..m : u[k] = p[k]
  OBVIOUS
<1>2. v \in Seq(Chunk) /\ Len(v) = m /\ \A k \in 1..m : v[k] = q[k]
  OBVIOUS
<1> HIDE DEF u, v
<1>3. Agree(p, q, m) => u = v
  <2> HAVE Agree(p, q, m)
  <2>1. \A k \in 1..Len(u) : u[k] = v[k]
    BY <1>1, <1>2 DEF Agree
  <2> QED BY <1>1, <1>2, <2>1, SeqEqual
<1>4. u = v => Agree(p, q, m)
  BY <1>1, <1>2 DEF Agree
<1> QED
  BY <1>3, <1>4 DEF u, v

\* A path is the first chunks of itself.
LEMMA WholePath ==
  ASSUME NEW p \in Seq(Chunk)
  PROVE  SubSeq(p, 1, Len(p)) = p
BY SubSeqFull

\* The order of calling, chunk by chunk.
Deeper(p, q) == Len(q) < Len(p) /\ Agree(q, p, Len(q))
WildAt(p, q, i) == /\ i \in 1..Len(p) /\ i <= Len(q)
                   /\ p[i] = Wildcard /\ q[i] # Wildcard /\ Agree(p, q, i - 1)

LEMMA CalledBeforeMeans ==
  ASSUME NEW p \in Seq(Chunk), NEW q \in Seq(Chunk)
  PROVE  CalledBefore(p, q) <=> Deeper(p, q) \/ \E i \in Nat : WildAt(p, q, i)
<1>1. IsStrictPrefix(q, p) <=> Deeper(p, q)
  <2>1. Len(p) \in Nat /\ Len(q) \in Nat
    OBVIOUS
  <2>2. Len(q) <= Len(p) => (SubSeq(q, 1, Len(q)) = SubSeq(p, 1, Len(q)) <=> Agree(q, p, Len(q)))
    BY <2>1, SubSeqAgree
  <2>3. Len(q) = Len(p) /\ Agree(q, p, Len(q)) => q = p
    BY <2>1, <2>2, WholePath
  <2> QED BY <2>1, <2>2, <2>3 DEF IsStrictPrefix, IsPrefix, Deeper
<1>2. ASSUME NEW i \in 1..Len(p), i <= Len(q)
      PROVE  SubSeq(p, 1, i - 1) = SubSeq(q, 1, i - 1) <=> Agree(p, q, i - 1)
  <2>1. i - 1 \in Nat /\ i - 1 <= Len(p) /\ i - 1 <= Len(q)
    BY <1>2
  <2> QED BY <2>1, SubSeqAgree
<1>3. (\E i \in 1..Len(p) : /\ p[i] = Wildcard
                            /\ i <= Len(q) /\ q[i] # Wildcard
                            /\ SubSeq(p, 1, i - 1) = SubSeq(q, 1, i - 1))
      <=> \E i \in Nat : WildAt(p, q, i)
  <2>1. \A i \in 1..Len(p) : i \in Nat
    OBVIOUS
  <2> QED BY <1>2, <2>1 DEF WildAt
<1> QED
  BY <1>1, <1>3 DEF CalledBefore

\* No two paths are called before each other.
LEMMA CalledOneWay ==
  ASSUME NEW p \in Seq(Chunk), NEW q \in Seq(Chunk), CalledBefore(p, q)
  PROVE  ~ CalledBefore(q, p)
<1>1. SUFFICES ASSUME CalledBefore(q, p)
               PROVE  FALSE
  OBVIOUS
<1>2. Len(p) \in Nat /\ Len(q) \in Nat
  OBVIOUS
<1>3. Deeper(p, q) \/ \E i \in Nat : WildAt(p, q, i)
  BY CalledBeforeMeans
<1>4. Deeper(q, p) \/ \E i \in Nat : WildAt(q, p, i)
  BY <1>1, CalledBeforeMeans
<1>5. ~ (Deeper(p, q) /\ Deeper(q, p))
  BY <1>2 DEF Deeper
<1>6. ASSUME NEW a \in Seq(Chunk), NEW b \in Seq(Chunk), Deeper(a, b), NEW i \in Nat
      PROVE  ~ WildAt(a, b, i) /\ ~ WildAt(b, a, i)
  <2>1. Len(a) \in Nat /\ Len(b) \in Nat
    OBVIOUS
  <2> QED BY <1>6, <2>1 DEF Deeper, WildAt, Agree
<1>7. ASSUME NEW i \in Nat, NEW j \in Nat, WildAt(p, q, i), WildAt(q, p, j)
      PROVE  FALSE
  <2>1. i \in 1..Len(p) /\ j \in 1..Len(q) /\ (i < j \/ j < i \/ i = j)
    BY <1>2, <1>7 DEF WildAt
  <2>2. CASE i < j
    BY <1>7, <2>1, <2>2 DEF WildAt, Agree
  <2>3. CASE j < i
    BY <1>7, <2>1, <2>3 DEF WildAt, Agree
  <2>4. CASE i = j
    BY <1>7, <2>4 DEF WildAt
  <2> QED BY <2>1, <2>2, <2>3, <2>4
<1> QED
  BY <1>3, <1>4, <1>5, <1>6, <1>7

\* Every prefix of a node is a node.
LEMMA PrefixesAreNodes ==
  ASSUME NEW t, IsTrie(t), NEW q \in DOMAIN t, NEW n \in 0..Len(q)
  PROVE  SubSeq(q, 1, n) \in DOMAIN t
<1> DEFINE N == Len(q)
           Cut(k) == SubSeq(q, 1, N - k)
           Bad == {k \in 1..N : Cut(k) \notin DOMAIN t}
<1>1. q \in Seq(Chunk) /\ N \in Nat
  BY DEF IsTrie
<1>2. Cut(0) \in DOMAIN t
  <2>1. N - 0 = N
    BY <1>1
  <2>2. SubSeq(q, 1, N) = q
    BY <1>1, WholePath
  <2> HIDE DEF N
  <2> QED BY <2>1, <2>2
<1>3. ASSUME Bad # {}
      PROVE  FALSE
  <2>1. Bad \in SUBSET (1..N)
    OBVIOUS
  <2>2. PICK m \in Bad : \A k \in Bad : m <= k
    <3> HIDE DEF Bad, N
    <3> QED BY <1>1, <1>3, <2>1, LeastIndex
  <2>3. m \in 1..N /\ Cut(m) \notin DOMAIN t
    OBVIOUS
  <2>4. Cut(m - 1) \in DOMAIN t
    <3>1. CASE m = 1
      BY <1>2, <3>1
    <3>2. CASE m # 1
      <4>1. m - 1 \in 1..N /\ ~ (m <= m - 1)
        BY <1>1, <2>3, <3>2
      <4>2. m - 1 \notin Bad
        <5> HIDE DEF Bad
        <5> QED BY <2>2, <4>1
      <4> HIDE DEF Cut
      <4> QED BY <4>1, <4>2
    <3> QED BY <3>1, <3>2
  <2> DEFINE u == Cut(m - 1)
             k == N - (m - 1)
  <2>5. k \in 1..N /\ u = SubSeq(q, 1, k) /\ k - 1 = N - m
    BY <1>1, <2>3
  <2> HIDE DEF u, k
  <2>6. u \in Seq(Chunk) /\ Len(u) = k /\ \A j \in 1..k : u[j] = q[j]
    BY <1>1, <2>5
  <2>7. u # << >> /\ SubSeq(u, 1, Len(u) - 1) \in DOMAIN t
    <3>1. u # << >>
      BY <2>5, <2>6
    <3>2. u \in DOMAIN t
      BY <2>4 DEF u
    <3> QED BY <3>1, <3>2 DEF IsTrie
  <2>8. SubSeq(u, 1, k - 1) = SubSeq(q, 1, k - 1)
    <3>1. k - 1 \in Nat /\ k - 1 <= Len(u) /\ k - 1 <= Len(q)
      BY <1>1, <2>5, <2>6
    <3>2. Agree(u, q, k - 1)
      BY <2>5, <2>6 DEF Agree
    <3> QED BY <1>1, <2>6, <3>1, <3>2, SubSeqAgree
  <2> QED BY <2>3, <2>5, <2>6, <2>7, <2>8
<1>4. N - n \in 0..N /\ SubSeq(q, 1, n) = Cut(N - n)
  BY <1>1
<1> DEFINE j == N - n
<1>5. j = 0 \/ j \in 1..N
  BY <1>1
<1> HIDE DEF Cut, j
<1>6. Cut(j) \in DOMAIN t
  BY <1>2, <1>3, <1>5
<1> QED
  BY <1>4, <1>6 DEF j

-----------------------------------------------------------------------------
\* The visited nodes from p down, and those of them that go on with chunk c.
Under(t, key, p) == {q \in Matching(t, key) : Len(p) <= Len(q) /\ Agree(p, q, Len(p))}
Below(t, key, p, c) == {q \in Under(t, key, p) : Len(p) < Len(q) /\ q[Len(p) + 1] = c}

\* The key has no wildcard, so the two ways on from a node are different.
LEMMA UnderParts ==
  ASSUME NEW t, IsTrie(t), NEW key \in Seq(Chunk \ {Wildcard}), NEW p \in Matching(t, key)
  PROVE  /\ Len(p) = Len(key) => Under(t, key, p) = {p}
         /\ Len(p) # Len(key) =>
              /\ key[Len(p) + 1] \in Chunk /\ key[Len(p) + 1] # Wildcard
              /\ Under(t, key, p) =
                   (Below(t, key, p, Wildcard) \cup Below(t, key, p, key[Len(p) + 1])) \cup {p}
<1> DEFINE V == Matching(t, key)
           U == Under(t, key, p)
           m == Len(p)
<1>0. key \in Seq(Chunk) /\ Len(key) \in Nat /\ \A i \in 1..Len(key) : key[i] \in Chunk \ {Wildcard}
  OBVIOUS
<1>1. \A q \in V : q \in Seq(Chunk) /\ Len(q) \in Nat /\ Len(q) <= Len(key)
  BY <1>0, VisitedNodes
<1>2. m \in Nat /\ m <= Len(key) /\ p \in Seq(Chunk)
  BY <1>1
<1>3. p \in U
  BY <1>2 DEF Under, Agree
<1>4. ASSUME NEW q \in U, Len(q) = m
      PROVE  q = p
  <2>1. q \in Seq(Chunk) /\ \A k \in 1..m : p[k] = q[k]
    BY <1>1 DEF Under, Agree
  <2> QED BY <1>2, <1>4, <2>1, SeqEqual
<1>5. \A q \in U : q \in V /\ m <= Len(q)
  BY DEF Under
<1>6. CASE m = Len(key)
  <2>1. \A q \in U : Len(q) = m
    BY <1>1, <1>2, <1>5, <1>6
  <2> HIDE DEF U
  <2> QED BY <1>3, <1>4, <1>6, <2>1 DEF U
<1>7. CASE m # Len(key)
  <2>1. m + 1 \in 1..Len(key)
    BY <1>0, <1>2, <1>7
  <2>2. key[m + 1] \in Chunk /\ key[m + 1] # Wildcard
    BY <1>0, <2>1
  <2>3. ASSUME NEW q \in U, q # p
        PROVE  q \in Below(t, key, p, Wildcard) \/ q \in Below(t, key, p, key[m + 1])
    <3>1. m < Len(q)
      BY <1>1, <1>2, <1>4, <1>5, <2>3
    <3>2. m + 1 \in 1..Len(q)
      BY <1>1, <1>2, <1>5, <3>1
    <3>3. q[m + 1] \in {key[m + 1], Wildcard}
      BY <1>5, <3>2 DEF Matching
    <3> QED BY <3>1, <3>3 DEF Below
  <2>4. \A c : Below(t, key, p, c) \subseteq U
    BY DEF Below
  <2> HIDE DEF U, V
  <2>5. U = (Below(t, key, p, Wildcard) \cup Below(t, key, p, key[m + 1])) \cup {p}
    BY <1>3, <2>3, <2>4
  <2> QED BY <1>7, <2>2, <2>5 DEF U
<1> QED
  BY <1>6, <1>7

\* What goes on with chunk c is what is under the child for c, if it is a node.
LEMMA BelowIsUnderChild ==
  ASSUME NEW t, IsTrie(t), NEW key \in Seq(Chunk), NEW p \in Matching(t, key), NEW c \in Chunk
  PROVE  Below(t, key, p, c) =
           IF Append(p, c) \in Matching(t, key) THEN Under(t, key, Append(p, c)) ELSE {}
<1> DEFINE V == Matching(t, key)
           m == Len(p)
           a == Append(p, c)
<1>1. \A q \in V : q \in DOMAIN t /\ q \in Seq(Chunk) /\ Len(q) \in Nat /\ Len(q) <= Len(key)
  BY VisitedNodes
<1>2. m \in Nat /\ p \in Seq(Chunk)
  BY <1>1
<1>3. a \in Seq(Chunk) /\ Len(a) = m + 1 /\ a[m + 1] = c /\ \A k \in 1..m : a[k] = p[k]
  BY <1>2
<1> HIDE DEF a
<1>4. ASSUME NEW q \in V
      PROVE  q \in Below(t, key, p, c) <=> Len(a) <= Len(q) /\ Agree(a, q, Len(a))
  <2>1. Len(q) \in Nat /\ (m <= Len(q) /\ m < Len(q) <=> m + 1 <= Len(q))
    BY <1>1, <1>2
  <2>2. q \in Below(t, key, p, c) <=>
          /\ m <= Len(q) /\ Agree(p, q, m) /\ m < Len(q) /\ q[m + 1] = c
    BY DEF Below, Under
  <2>3. Agree(a, q, m + 1) <=> Agree(p, q, m) /\ q[m + 1] = c
    <3>1. \A k \in 1..(m + 1) : k \in 1..m \/ k = m + 1
      BY <1>2
    <3>2. m + 1 \in 1..(m + 1) /\ \A k \in 1..m : k \in 1..(m + 1)
      BY <1>2
    <3> HIDE DEF m
    <3>3. Agree(a, q, m + 1) => Agree(p, q, m) /\ q[m + 1] = c
      BY <1>3, <3>2 DEF Agree
    <3>4. Agree(p, q, m) /\ q[m + 1] = c => Agree(a, q, m + 1)
      BY <1>3, <3>1 DEF Agree
    <3> QED BY <3>3, <3>4
  <2> HIDE DEF m
  <2> QED BY <1>3, <2>1, <2>2, <2>3
<1>5. \A q \in Below(t, key, p, c) : q \in V
  BY DEF Below, Under
<1>6. CASE a \in V
  <2>1. \A q : q \in Under(t, key, a) <=> q \in V /\ Len(a) <= Len(q) /\ Agree(a, q, Len(a))
    BY DEF Under
  <2>2. \A q : q \in Below(t, key, p, c) <=> q \in Under(t, key, a)
    BY <1>4, <1>5, <2>1
  <2>3. Below(t, key, p, c) = Under(t, key, a)
    BY <2>2
  <2> QED BY <1>6, <2>3 DEF a
<1>7. CASE a \notin V
  <2>1. ASSUME NEW q \in Below(t, key, p, c)
        PROVE  FALSE
    <3>1. q \in V /\ Len(a) <= Len(q) /\ Agree(a, q, Len(a))
      BY <1>4, <1>5
    <3>2. q \in DOMAIN t /\ q \in Seq(Chunk) /\ Len(q) \in Nat /\ Len(q) <= Len(key)
      BY <1>1, <3>1
    <3>3. Len(a) \in 0..Len(q) /\ Len(a) \in Nat
      BY <1>2, <1>3, <3>1, <3>2
    <3>4. SubSeq(q, 1, Len(a)) \in DOMAIN t
      BY <3>2, <3>3, PrefixesAreNodes
    <3>5. SubSeq(q, 1, Len(a)) = a
      <4>1. SubSeq(a, 1, Len(a)) = SubSeq(q, 1, Len(a))
        BY <1>3, <3>1, <3>2, <3>3, SubSeqAgree
      <4>2. SubSeq(a, 1, Len(a)) = a
        BY <1>3, WholePath
      <4> QED BY <4>1, <4>2
    <3>6. \A i \in 1..Len(q) : q[i] \in {key[i], Wildcard}
      BY <3>1 DEF Matching
    <3>7. \A i \in 1..Len(a) : i \in 1..Len(q) /\ a[i] = q[i]
      BY <3>1, <3>2, <3>3 DEF Agree
    <3>8. Len(a) <= Len(key)
      BY <3>1, <3>2, <3>3
    <3>9. a \in V
      BY <3>4, <3>5, <3>6, <3>7, <3>8 DEF Matching
    <3> QED BY <1>7, <3>9
  <2>2. Below(t, key, p, c) = {}
    BY <2>1
  <2> QED BY <1>7, <2>2 DEF a
<1> QED
  BY <1>6, <1>7

\* Where paths part, the wildcard branch is called first; a node comes last.
LEMMA BranchOrder ==
  ASSUME NEW t, IsTrie(t), NEW key \in Seq(Chunk), NEW p \in Matching(t, key),
         NEW d, d # Wildcard
  PROVE  /\ \A x \in Below(t, key, p, Wildcard), y \in Below(t, key, p, d) : CalledBefore(x, y)
         /\ \A c : \A x \in Below(t, key, p, c) : CalledBefore(x, p)
<1> DEFINE m == Len(p)
<1>1. \A q \in Matching(t, key) : q \in Seq(Chunk) /\ Len(q) \in Nat
  BY VisitedNodes
<1>2. \A c : \A q \in Below(t, key, p, c) :
        q \in Seq(Chunk) /\ Len(q) \in Nat /\ Agree(p, q, m) /\ m < Len(q) /\ q[m + 1] = c
  BY <1>1 DEF Below, Under
<1>3. p \in Seq(Chunk) /\ m \in Nat
  BY <1>1
<1>4. ASSUME NEW x \in Below(t, key, p, Wildcard), NEW y \in Below(t, key, p, d)
      PROVE  CalledBefore(x, y)
  <2>1. m + 1 \in Nat /\ m + 1 \in 1..Len(x) /\ m + 1 <= Len(y) /\ (m + 1) - 1 = m
    BY <1>2, <1>3
  <2>2. Agree(x, y, m) /\ x[m + 1] = Wildcard /\ y[m + 1] # Wildcard
    BY <1>2, <1>3 DEF Agree
  <2>3. WildAt(x, y, m + 1)
    <3> HIDE DEF m
    <3> QED BY <2>1, <2>2 DEF WildAt
  <2> QED BY <1>2, <2>1, <2>3, CalledBeforeMeans
<1>5. ASSUME NEW c, NEW x \in Below(t, key, p, c)
      PROVE  CalledBefore(x, p)
  <2>1. Deeper(x, p)
    BY <1>2, <1>3 DEF Deeper
  <2> QED BY <1>2, <1>3, <2>1, CalledBeforeMeans
<1> QED
  BY <1>4, <1>5

\* s lists the nodes of U, each one before the nodes it is called before.
InOrder(s, U) ==
  /\ \A i \in 1..Len(s) : s[i] \in U
  /\ \A u \in U : \E i \in 1..Len(s) : s[i] = u
  /\ \A i, j \in 1..Len(s) : i < j => CalledBefore(s[i], s[j])

LEMMA JoinInOrder ==
  ASSUME NEW V, NEW a \in Seq(V), NEW b \in Seq(V), NEW A, NEW B, InOrder(a, A), InOrder(b, B),
         \A x \in A, y \in B : CalledBefore(x, y)
  PROVE  a \o b \in Seq(V) /\ InOrder(a \o b, A \cup B)
<1> DEFINE s == a \o b
           m == Len(a)
           n == Len(b)
<1>1. /\ s \in Seq(V) /\ Len(s) = m + n
      /\ \A i \in 1..(m + n) : s[i] = IF i <= m THEN a[i] ELSE b[i - m]
  BY ConcatProperties
<1>2. m \in Nat /\ n \in Nat
  OBVIOUS
<1> HIDE DEF s, m, n
<1>3. ASSUME NEW i \in 1..(m + n)
      PROVE  \/ i \in 1..m /\ s[i] = a[i] /\ s[i] \in A
             \/ i - m \in 1..n /\ s[i] = b[i - m] /\ s[i] \in B /\ i > m
  <2>1. CASE i <= m
    <3>1. i \in 1..m /\ s[i] = a[i]
      BY <1>1, <1>2, <2>1
    <3> QED BY <3>1 DEF InOrder, m
  <2>2. CASE ~ (i <= m)
    <3>1. i - m \in 1..n /\ s[i] = b[i - m] /\ i > m
      BY <1>1, <1>2, <2>2
    <3>2. b[i - m] \in B
      BY <3>1 DEF InOrder, n
    <3> QED BY <3>1, <3>2
  <2> QED BY <2>1, <2>2
<1>4. \A i \in 1..Len(s) : s[i] \in A \cup B
  BY <1>1, <1>3
<1>5. ASSUME NEW u \in A \cup B
      PROVE  \E i \in 1..Len(s) : s[i] = u
  <2>1. CASE u \in A
    <3>1. PICK i \in 1..m : a[i] = u
      BY <2>1 DEF InOrder, m
    <3>2. i \in 1..(m + n) /\ i <= m
      BY <1>2
    <3> QED BY <1>1, <3>1, <3>2
  <2>2. CASE u \in B
    <3>1. PICK i \in 1..n : b[i] = u
      BY <2>2 DEF InOrder, n
    <3>2. i + m \in 1..(m + n) /\ ~ (i + m <= m) /\ (i + m) - m = i
      BY <1>2
    <3>3. s[i + m] = u
      BY <1>1, <3>1, <3>2
    <3> QED BY <1>1, <3>2, <3>3
  <2> QED BY <2>1, <2>2
<1>6. ASSUME NEW i \in 1..Len(s), NEW j \in 1..Len(s), i < j
      PROVE  CalledBefore(s[i], s[j])
  <2>1. i \in 1..(m + n) /\ j \in 1..(m + n)
    BY <1>1
  <2>2. CASE j \in 1..m /\ s[j] = a[j]
    <3>1. i \in 1..m /\ s[i] = a[i]
      BY <1>1, <1>2, <1>6, <2>1, <2>2
    <3> QED BY <1>6, <2>2, <3>1 DEF InOrder, m
  <2>3. CASE j - m \in 1..n /\ s[j] = b[j - m] /\ s[j] \in B /\ j > m
    <3>1. CASE s[i] \in A
      BY <2>3, <3>1
    <3>2. CASE i - m \in 1..n /\ s[i] = b[i - m]
      <4>1. i - m < j - m
        BY <1>2, <1>6, <2>1
      <4> QED BY <2>3, <3>2, <4>1 DEF InOrder, n
    <3> QED BY <1>3, <2>1, <3>1, <3>2
  <2> QED BY <1>3, <2>1, <2>2, <2>3
<1>7. InOrder(s, A \cup B)
  BY <1>4, <1>5, <1>6 DEF InOrder
<1> QED
  BY <1>1, <1>7 DEF s

LEMMA OneInOrder ==
  ASSUME NEW V, NEW p \in V
  PROVE  /\ <<p>> \in Seq(V) /\ InOrder(<<p>>, {p})
         /\ << >> \in Seq(V) /\ InOrder(<< >>, {})
<1>1. <<p>> \in Seq(V) /\ Len(<<p>>) = 1 /\ <<p>>[1] = p
  OBVIOUS
<1>2. \A i \in 1..1 : i = 1
  OBVIOUS
<1>3. 1 \in 1..1 /\ ~ (1 < 1)
  OBVIOUS
<1>4. << >> \in Seq(V) /\ Len(<< >>) = 0 /\ 1..0 = {}
  OBVIOUS
<1>5. InOrder(<<p>>, {p})
  BY <1>1, <1>2, <1>3 DEF InOrder
<1>6. InOrder(<< >>, {})
  BY <1>4 DEF InOrder
<1> QED
  BY <1>1, <1>4, <1>5, <1>6

\* What the walk found from p down, found are the handlers of the nodes under p in order.
FoundInOrder(t, key, f, p) ==
  \E s \in Seq(Matching(t, key)) :
    InOrder(s, Under(t, key, p)) /\ f[p] = HandlersOf(t, s)

LEMMA BranchInOrder ==
  ASSUME NEW t, IsTrie(t), NEW key \in Seq(Chunk), NEW p \in Matching(t, key), NEW c \in Chunk,
         NEW f, Append(p, c) \in Matching(t, key) => FoundInOrder(t, key, f, Append(p, c))
  PROVE  \E s \in Seq(Matching(t, key)) :
           /\ InOrder(s, Below(t, key, p, c))
           /\ HandlersOf(t, s) =
                IF Append(p, c) \in Matching(t, key) THEN f[Append(p, c)] ELSE << >>
<1> DEFINE V == Matching(t, key)
<1>1. Below(t, key, p, c) = IF Append(p, c) \in V THEN Under(t, key, Append(p, c)) ELSE {}
  BY BelowIsUnderChild
<1>2. CASE Append(p, c) \in V
  BY <1>1, <1>2, Zenon DEF FoundInOrder
<1>3. CASE Append(p, c) \notin V
  <2>1. << >> \in Seq(V) /\ InOrder(<< >>, {})
    BY OneInOrder
  <2>2. V \in SUBSET DOMAIN t
    BY DEF Matching
  <2>3. HandlersOf(t, << >>) = << >>
    BY <2>2, HandlersOfOne
  <2> QED BY <1>1, <1>3, <2>1, <2>3
<1> QED
  BY <1>2, <1>3

LEMMA StepInOrder ==
  ASSUME NEW t, IsTrie(t), NEW key \in Seq(Chunk \ {Wildcard}), NEW p \in Matching(t, key),
         NEW f, f[p] = Collect(t, key, f, p),
         \A c : Append(p, c) \in Matching(t, key) => FoundInOrder(t, key, f, Append(p, c))
  PROVE  FoundInOrder(t, key, f, p)
<1> DEFINE V == Matching(t, key)
           H(s) == HandlersOf(t, s)
           own == CompleteOrder(t[p])
           found(c) == IF Append(p, c) \in V THEN f[Append(p, c)] ELSE << >>
           d == key[Len(p) + 1]
<1>1. key \in Seq(Chunk) /\ Wildcard \in Chunk /\ V \in SUBSET DOMAIN t
  BY TrieAssumption DEF Matching
<1>2. f[p] = (IF Len(p) = Len(key) THEN << >> ELSE found(Wildcard) \o found(d)) \o own
  BY DEF Collect
<1>3. <<p>> \in Seq(V) /\ InOrder(<<p>>, {p})
  BY OneInOrder
<1>4. H(<<p>>) = own /\ own \in Seq(Handler)
  BY <1>1, HandlersOfOne, NodesHaveLists
<1>5. CASE Len(p) = Len(key)
  <2>1. Under(t, key, p) = {p}
    BY <1>5, UnderParts
  <2>2. f[p] = << >> \o own
    BY <1>2, <1>5
  <2>3. << >> \o own = own
    BY <1>4, ConcatEmptySeq
  <2> HIDE DEF own, V
  <2>4. f[p] = H(<<p>>) /\ InOrder(<<p>>, Under(t, key, p))
    BY <1>3, <1>4, <2>1, <2>2, <2>3
  <2> QED BY <1>3, <2>4, Zenon DEF FoundInOrder, V
<1>6. CASE Len(p) # Len(key)
  <2>1. d \in Chunk /\ d # Wildcard
    BY <1>6, UnderParts
  <2>2. Under(t, key, p) = (Below(t, key, p, Wildcard) \cup Below(t, key, p, d)) \cup {p}
    BY <1>6, UnderParts
  <2>3. f[p] = (found(Wildcard) \o found(d)) \o own
    BY <1>2, <1>6
  <2> HIDE DEF d
  <2>4. PICK a \in Seq(V) : InOrder(a, Below(t, key, p, Wildcard)) /\ H(a) = found(Wildcard)
    BY <1>1, BranchInOrder
  <2>5. PICK b \in Seq(V) : InOrder(b, Below(t, key, p, d)) /\ H(b) = found(d)
    BY <1>1, <2>1, BranchInOrder
  <2>6. /\ \A x \in Below(t, key, p, Wildcard), y \in Below(t, key, p, d) : CalledBefore(x, y)
        /\ \A c : \A x \in Below(t, key, p, c) : CalledBefore(x, p)
    BY <1>1, <2>1, BranchOrder
  <2> HIDE DEF V, found, own
  <2>7. a \o b \in Seq(V)
        /\ InOrder(a \o b, Below(t, key, p, Wildcard) \cup Below(t, key, p, d))
    BY <2>4, <2>5, <2>6, JoinInOrder
  <2> DEFINE ab == a \o b
             s == ab \o <<p>>
  <2>8. \A x \in Below(t, key, p, Wildcard) \cup Below(t, key, p, d), y \in {p} : CalledBefore(x, y)
    BY <2>6
  <2>9. s \in Seq(V) /\ InOrder(s, Under(t, key, p))
    <3>1. ab \in Seq(V) /\ InOrder(ab, Below(t, key, p, Wildcard) \cup Below(t, key, p, d))
      BY <2>7
    <3> DEFINE low == Below(t, key, p, Wildcard) \cup Below(t, key, p, d)
               one == <<p>>
               top == {p}
    <3>2. InOrder(ab, low) /\ one \in Seq(V) /\ InOrder(one, top)
          /\ \A x \in low, y \in top : CalledBefore(x, y)
      BY <1>3, <2>8, <3>1
    <3> HIDE DEF ab, low, one, top
    <3>3. ab \o one \in Seq(V) /\ InOrder(ab \o one, low \cup top)
      BY <3>1, <3>2, JoinInOrder
    <3> QED BY <2>2, <3>3 DEF low, one, top
  <2>10. H(ab) = H(a) \o H(b)
    BY <1>1, <2>4, <2>5, HandlersConcat
  <2>11. H(s) = H(ab) \o H(<<p>>)
    <3>1. ab \in Seq(V)
      BY <2>7
    <3> HIDE DEF ab
    <3> QED BY <1>1, <1>3, <3>1, HandlersConcat
  <2> HIDE DEF s, ab, H
  <2>12. f[p] = H(s)
    BY <1>4, <2>3, <2>4, <2>5, <2>10, <2>11, Zenon
  <2> QED BY <2>9, <2>12, Zenon DEF FoundInOrder, V, H
<1> QED
  BY <1>5, <1>6

\* The walk from any visited node finds the nodes under it in order: else there
\* is a deepest node where it does not.
LEMMA WalkInOrder ==
  ASSUME NEW t, IsTrie(t), NEW key \in Seq(Chunk \ {Wildcard}), NEW f,
         \A p \in Matching(t, key) : f[p] = Collect(t, key, f, p)
  PROVE  \A p \in Matching(t, key) : FoundInOrder(t, key, f, p)
<1> DEFINE V == Matching(t, key)
           K == Len(key)
           Good(p) == FoundInOrder(t, key, f, p)
           Height(p) == (K + 1) - Len(p)
           Bad == {n \in 1..(K + 1) : \E p \in V : Height(p) = n /\ ~ Good(p)}
<1>0. key \in Seq(Chunk)
  OBVIOUS
<1>1. K \in Nat /\ \A p \in V : p \in Seq(Chunk) /\ Len(p) \in Nat /\ Len(p) <= K
  BY <1>0, VisitedNodes
<1>2. ASSUME Bad # {}
      PROVE  FALSE
  <2>1. Bad \in SUBSET (1..(K + 1)) /\ K + 1 \in Nat
    BY <1>1
  <2>2. PICK m \in Bad : \A k \in Bad : m <= k
    <3> HIDE DEF Bad, K
    <3> QED BY <1>2, <2>1, LeastIndex
  <2>3. PICK p \in V : Height(p) = m /\ ~ Good(p)
    OBVIOUS
  <2>4. m \in 1..(K + 1)
    OBVIOUS
  <2>5. ASSUME NEW c, Append(p, c) \in V
        PROVE  Good(Append(p, c))
    <3> DEFINE a == Append(p, c)
    <3>1. Len(a) = Len(p) + 1 /\ a \in V
      BY <1>0, <1>1, <2>5, VisitedChild
    <3> HIDE DEF a
    <3>2. Height(a) \in 1..(K + 1) /\ ~ (m <= Height(a))
      <4> HIDE DEF K, V
      <4> QED BY <1>1, <2>3, <2>4, <3>1
    <3>3. Height(a) \notin Bad
      <4> HIDE DEF Bad, Height
      <4> QED BY <2>2, <3>2
    <3>4. Good(a)
      <4> HIDE DEF Good, Height
      <4> QED BY <3>1, <3>2, <3>3
    <3> QED BY <3>4 DEF a
  <2>6. Good(p)
    BY <2>3, <2>5, StepInOrder
  <2> QED BY <2>3, <2>6
<1>3. ASSUME NEW p \in V
      PROVE  Good(p)
  <2>1. Height(p) \in 1..(K + 1)
    <3> HIDE DEF K, V
    <3> QED BY <1>1
  <2> HIDE DEF Good, Height
  <2> QED BY <1>2, <2>1
<1> QED
  BY <1>3

LEMMA SearchInOrder ==
  ASSUME NEW t, IsTrie(t), NEW key \in Seq(Chunk \ {Wildcard})
  PROVE  \E s \in Seq(Matching(t, key)) :
           InOrder(s, Matching(t, key)) /\ PrefixSearch(t, key) = HandlersOf(t, s)
<1> DEFINE V == Matching(t, key)
<1>1. key \in Seq(Chunk) /\ Len(key) \in Nat
  OBVIOUS
<1>2. << >> \in V
  <2>1. Len(<< >>) = 0 /\ 1..0 = {} /\ << >> \in DOMAIN t
    BY DEF IsTrie
  <2> QED BY <1>1, <2>1 DEF Matching
<1>3. Under(t, key, << >>) = V
  <2>1. Len(<< >>) = 0 /\ 1..0 = {}
    OBVIOUS
  <2>2. \A q \in V : 0 <= Len(q)
    BY <1>1, VisitedNodes
  <2>3. \A q \in V : q \in Under(t, key, << >>)
    BY <2>1, <2>2 DEF Under, Agree
  <2>4. \A q \in Under(t, key, << >>) : q \in V
    BY DEF Under
  <2> QED BY <2>3, <2>4
<1>4. PICK f : /\ \A p \in V : f[p] = Collect(t, key, f, p)
               /\ << >> \in V => PrefixSearch(t, key) = f[<< >>]
  BY <1>1, WalkIs
<1>5. FoundInOrder(t, key, f, << >>)
  BY <1>2, <1>4, WalkInOrder
<1> HIDE DEF V
<1> QED
  BY <1>2, <1>3, <1>4, <1>5, Zenon DEF FoundInOrder, V

-----------------------------------------------------------------------------
\* Nodes in order are all different, and as many as there are.
LEMMA InOrderCounts ==
  ASSUME NEW V \in SUBSET Seq(Chunk), NEW s \in Seq(V), InOrder(s, V)
  PROVE  /\ \A i, j \in 1..Len(s) : s[i] = s[j] => i = j
         /\ Cardinality(V) = Len(s)
         /\ \A i \in 1..Len(s) : Cardinality({q \in V : CalledBefore(q, s[i])}) = i - 1
<1> DEFINE N == Len(s)
<1>1. N \in Nat /\ \A i \in 1..N : s[i] \in V /\ s[i] \in Seq(Chunk)
  OBVIOUS
<1>2. ASSUME NEW i \in 1..N, NEW j \in 1..N, i < j
      PROVE  CalledBefore(s[i], s[j]) /\ ~ CalledBefore(s[j], s[i])
  <2>1. CalledBefore(s[i], s[j])
    BY <1>2 DEF InOrder
  <2> QED BY <1>1, <2>1, CalledOneWay
<1>3. ASSUME NEW i \in 1..N
      PROVE  ~ CalledBefore(s[i], s[i])
  BY <1>1, CalledOneWay
<1> HIDE DEF N
<1>4. ASSUME NEW i \in 1..N, NEW j \in 1..N, s[i] = s[j]
      PROVE  i = j
  <2>1. i < j \/ j < i \/ i = j
    BY <1>1
  <2>2. ~ (i < j) /\ ~ (j < i)
    BY <1>2, <1>3, <1>4
  <2> QED BY <2>1, <2>2
<1>5. ASSUME NEW n \in 0..N
      PROVE  Cardinality({s[j] : j \in 1..n}) = n
  <2> DEFINE S == {s[j] : j \in 1..n}
             g == [j \in 1..n |-> s[j]]
  <2>1. n \in Nat /\ \A j \in 1..n : j \in 1..N
    BY <1>1
  <2>2. g \in [1..n -> S]
    OBVIOUS
  <2>3. \A i, j \in 1..n : g[i] = g[j] => i = j
    BY <1>4, <2>1
  <2>4. \A u \in S : \E j \in 1..n : g[j] = u
    OBVIOUS
  <2> HIDE DEF g, S
  <2>5. g \in Bijection(1..n, S)
    BY <2>2, <2>3, <2>4 DEF Bijection, Injection, Surjection, IsInjective
  <2>6. ExistsBijection(1..n, S)
    BY <2>5 DEF ExistsBijection
  <2>7. Cardinality(S) = n
    BY <2>1, <2>6, FS_CountingElements
  <2> QED BY <2>7 DEF S
<1>6. Cardinality(V) = N
  <2>1. V = {s[j] : j \in 1..N}
    <3>1. \A u \in V : \E j \in 1..N : s[j] = u
      BY DEF InOrder, N
    <3> QED BY <1>1, <3>1
  <2>2. N \in 0..N
    BY <1>1
  <2> QED BY <1>5, <2>1, <2>2
<1>7. ASSUME NEW i \in 1..N
      PROVE  Cardinality({q \in V : CalledBefore(q, s[i])}) = i - 1
  <2>1. i - 1 \in 0..N
    BY <1>1
  <2>2. ASSUME NEW q \in V
        PROVE  CalledBefore(q, s[i]) <=> q \in {s[j] : j \in 1..(i - 1)}
    <3>1. PICK k \in 1..N : s[k] = q
      BY DEF InOrder, N
    <3>2. CalledBefore(q, s[i]) <=> k < i
      <4>1. k < i \/ i < k \/ i = k
        BY <1>1
      <4>2. k < i => CalledBefore(q, s[i])
        BY <1>2, <3>1
      <4>3. i < k => ~ CalledBefore(q, s[i])
        BY <1>2, <3>1
      <4>4. i = k => ~ CalledBefore(q, s[i])
        BY <1>3, <3>1
      <4>5. i < k \/ i = k => ~ (k < i)
        BY <1>1
      <4> QED BY <4>1, <4>2, <4>3, <4>4, <4>5
    <3>3. k < i <=> k \in 1..(i - 1)
      BY <1>1
    <3>4. ASSUME NEW j \in 1..(i - 1), q = s[j]
          PROVE  k = j
      <4>1. j \in 1..N
        BY <1>1
      <4> QED BY <1>4, <3>1, <3>4, <4>1
    <3>5. q \in {s[j] : j \in 1..(i - 1)} <=> k \in 1..(i - 1)
      BY <3>1, <3>4
    <3> QED BY <3>2, <3>3, <3>5
  <2>3. {s[j] : j \in 1..(i - 1)} \subseteq V
    <3>1. \A j \in 1..(i - 1) : j \in 1..N
      BY <1>1
    <3> QED BY <1>1, <3>1
  <2>4. {q \in V : CalledBefore(q, s[i])} = {s[j] : j \in 1..(i - 1)}
    BY <2>2, <2>3
  <2> QED BY <1>5, <2>1, <2>4
<1> QED
  BY <1>4, <1>6, <1>7 DEF N

\* So they are the calling order.
LEMMA InOrderIsCallingOrder ==
  ASSUME NEW V \in SUBSET Seq(Chunk), NEW s \in Seq(V), InOrder(s, V)
  PROVE  s = CallingOrder(V)
<1> DEFINE N == Len(s)
           before(p) == Cardinality({q \in V : CalledBefore(q, p)})
           pick(i) == CHOOSE p \in V : before(p) = i - 1
<1>1. N \in Nat /\ \A i \in 1..N : s[i] \in V
  OBVIOUS
<1>2. /\ \A i, j \in 1..N : s[i] = s[j] => i = j
      /\ Cardinality(V) = N
      /\ \A i \in 1..N : before(s[i]) = i - 1
  BY InOrderCounts
<1>3. CallingOrder(V) = [i \in 1..N |-> pick(i)]
  BY <1>2 DEF CallingOrder
<1>4. \A u \in V : \E i \in 1..N : s[i] = u
  BY DEF InOrder
<1>5. s = [i \in 1..N |-> s[i]]
  OBVIOUS
<1> HIDE DEF N, before
<1>6. ASSUME NEW i \in 1..N
      PROVE  pick(i) = s[i]
  <2>1. pick(i) \in V /\ before(pick(i)) = i - 1
    BY <1>1, <1>2
  <2> HIDE DEF pick
  <2>2. PICK j \in 1..N : s[j] = pick(i)
    BY <1>4, <2>1
  <2>3. j - 1 = i - 1
    BY <1>2, <2>1, <2>2
  <2>4. i = j
    BY <1>1, <2>3
  <2> QED BY <2>2, <2>4
<1> HIDE DEF pick
<1> QED
  BY <1>3, <1>5, <1>6

\* The search of any trie is a sort, in which no node comes twice and none is
\* behind a node above it.
LEMMA SearchSorts ==
  ASSUME NEW t, IsTrie(t), NEW key \in Seq(Chunk \ {Wildcard})
  PROVE  LET nodes == CallingOrder(Matching(t, key))
         IN  /\ PrefixSearch(t, key) = HandlersOf(t, nodes)
             /\ ToSet(nodes) = Matching(t, key) /\ IsInjective(nodes)
             /\ SpecificBeforeGeneral(nodes)
<1> DEFINE V == Matching(t, key)
<1>1. V \in SUBSET Seq(Chunk)
  BY DEF Matching, IsTrie
<1>2. PICK s \in Seq(V) : InOrder(s, V) /\ PrefixSearch(t, key) = HandlersOf(t, s)
  BY SearchInOrder
<1> HIDE DEF V
<1>3. s = CallingOrder(V)
  BY <1>1, <1>2, InOrderIsCallingOrder
<1>4. ToSet(s) = V
  <2>1. \A v \in V : v \in ToSet(s)
    BY <1>2 DEF InOrder, ToSet
  <2>2. \A v \in ToSet(s) : v \in V
    BY DEF ToSet
  <2> QED
    BY <2>1, <2>2
<1>5. IsInjective(s)
  BY <1>1, <1>2, InOrderCounts DEF IsInjective
<1>6. ASSUME NEW i \in DOMAIN s, NEW j \in DOMAIN s, IsStrictPrefix(s[j], s[i]) PROVE i < j
  <2>1. s[i] \in Seq(Chunk) /\ s[j] \in Seq(Chunk) /\ i \in 1..Len(s) /\ j \in 1..Len(s)
    BY <1>1
  <2>2. CalledBefore(s[i], s[j])
    BY <1>6 DEF CalledBefore
  <2>3. ~ CalledBefore(s[j], s[i])
    BY <2>1, <2>2, CalledOneWay
  <2>4. i # j
    BY <2>2, <2>3
  <2>5. ~ (j < i)
    BY <1>2, <2>1, <2>3 DEF InOrder
  <2> QED
    BY <2>1, <2>4, <2>5
<1> QED
  BY <1>2, <1>3, <1>4, <1>5, <1>6 DEF V, SpecificBeforeGeneral

\* hooks.py _get_items: whatever was registered, an event's search calls every node
\* that matches once, a longer name before the shorter ones on its path, and, where
\* two paths part, the one with the wildcard first.
THEOREM SearchesAreSorted == Spec => []SearchIsSorted
<1>1. TypeOK => SearchIsSorted
  <2> SUFFICES ASSUME TypeOK, NEW e \in live, NEW ev \in Event
               PROVE  LET nodes == CallingOrder(Matching(trie[e], ev))
                      IN  /\ PrefixSearch(trie[e], ev) = HandlersOf(trie[e], nodes)
                          /\ ToSet(nodes) = Matching(trie[e], ev) /\ IsInjective(nodes)
                          /\ SpecificBeforeGeneral(nodes)
    BY DEF SearchIsSorted
  <2>1. IsTrie(trie[e])
    BY DEF TypeOK
  <2>2. ev \in Seq(Chunk \ {Wildcard})
    BY EmitterAssumption
  <2> QED BY <2>1, <2>2, SearchSorts
<1> QED
  BY <1>1, TypesHold, PTL
=============================================================================
