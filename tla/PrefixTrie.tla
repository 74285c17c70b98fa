----------------------------- MODULE PrefixTrie -----------------------------
(***************************************************************************)
(* The prefix trie of src/botocore/hooks.py (class _PrefixTrie).           *)
(*                                                                         *)
(* A key such as 'foo.bar.baz' is the sequence of its chunks.  A trie is   *)
(* the function from the paths of its nodes (the root is << >>) to the     *)
(* node's 'values': NoValues (None) until the first append, afterwards a   *)
(* NodeList of three handler lists, which stays even when all are empty.   *)
(***************************************************************************)
EXTENDS Integers, Sequences, FiniteSets, SequencesExt

CONSTANTS
  Chunk,      \* the chunks of event names, Wildcard included
  Wildcard,   \* the chunk '*'
  Handler,    \* event handlers
  NoValues    \* the 'values' of a node nothing was ever appended to

ASSUME TrieAssumption ==
  /\ Wildcard \in Chunk
  /\ NoValues \notin [first : Seq(Handler), middle : Seq(Handler), last : Seq(Handler)]

Section == {"first", "middle", "last"}
NodeList == [first : Seq(Handler), middle : Seq(Handler), last : Seq(Handler)]
EmptyNodeList == [first |-> << >>, middle |-> << >>, last |-> << >>]

\* A trie: rooted, and every node's parent is a node.
IsTrie(t) ==
  /\ DOMAIN t \subseteq Seq(Chunk)
  /\ << >> \in DOMAIN t
  /\ \A p \in DOMAIN t : t[p] \in NodeList \cup {NoValues}
  /\ \A p \in DOMAIN t : p # << >> => SubSeq(p, 1, Len(p) - 1) \in DOMAIN t

EmptyTrie == [p \in {<< >>} |-> NoValues]

\* The nodes from the root to the node of key.
PathTo(key) == {SubSeq(key, 1, i) : i \in 0..Len(key)}

HandlersAt(t, key) ==
  IF key \in DOMAIN t /\ t[key] # NoValues THEN t[key] ELSE EmptyNodeList

\* The handlers of one node in calling order.
CompleteOrder(values) ==
  IF values = NoValues THEN << >> ELSE values.first \o values.middle \o values.last

\* How often a handler stands in the lists of a name.
Occurrences(list, h) == Cardinality({i \in DOMAIN list : list[i] = h})
Times(t, key, h) ==
  LET values == HandlersAt(t, key)
  IN  Occurrences(values.first, h) + Occurrences(values.middle, h) + Occurrences(values.last, h)

-----------------------------------------------------------------------------
\* append_item: the nodes missing on the way to key are created without values.
AppendItem(t, key, value, section) ==
  [p \in DOMAIN t \cup PathTo(key) |->
     IF p = key THEN [HandlersAt(t, key) EXCEPT ![section] = Append(@, value)]
     ELSE IF p \in DOMAIN t THEN t[p] ELSE NoValues]

\* The nodes a search for key visits.
Matching(t, key) ==
  {p \in DOMAIN t : /\ Len(p) <= Len(key)
                    /\ \A i \in 1..Len(p) : p[i] \in {key[i], Wildcard}}

\* Mutant of PrefixSearch: a node's handlers are put behind those collected so far.
PrefixSearch_Extend(t, key) ==
  LET visited == Matching(t, key)
      collected[p \in visited] ==
        LET under(chunk) ==
              IF Append(p, chunk) \in visited THEN collected[Append(p, chunk)] ELSE << >>
        IN  CompleteOrder(t[p]) \o
            (IF Len(p) = Len(key) THEN << >>
             ELSE under(key[Len(p) + 1]) \o under(Wildcard))
  IN collected[<< >>]

\* prefix_search: a depth-first walk, direct child before wildcard child, that
\* puts the handlers of every node it pops in front of those collected so far.
PrefixSearch(t, key) ==
  LET visited == Matching(t, key)
      collected[p \in visited] ==
        LET under(chunk) ==
              IF Append(p, chunk) \in visited THEN collected[Append(p, chunk)] ELSE << >>
        IN  (IF Len(p) = Len(key) THEN << >>
             ELSE under(Wildcard) \o under(key[Len(p) + 1])) \o CompleteOrder(t[p])
  IN collected[<< >>]

\* How remove_item ends: 'key is not in trie' is a ValueError; a node without
\* values makes node_list.first fail on None; a missing value ends normally.
RemoveOutcome(t, key) ==
  IF key \notin DOMAIN t THEN "ValueError"
  ELSE IF t[key] = NoValues THEN "AttributeError" ELSE "ok"

\* The first section that holds the value loses its first occurrence.
DropValue(values, value) ==
  IF Contains(values.first, value) THEN [values EXCEPT !.first = RemoveFirst(@, value)]
  ELSE IF Contains(values.middle, value) THEN [values EXCEPT !.middle = RemoveFirst(@, value)]
  ELSE IF Contains(values.last, value) THEN [values EXCEPT !.last = RemoveFirst(@, value)]
  ELSE values

\* What _remove_item deletes on its way back up: the longest chain of nodes that
\* ends at key's node and in which no node has values or another child ('not
\* children and not values').  A NodeList is a tuple of three lists, so it is
\* true even when all three are empty.
DeletedNodes(t, key) ==
  LET node(i) == SubSeq(key, 1, i)
      bare(i) == /\ t[node(i)] = NoValues
                 /\ \A q \in DOMAIN t :
                      Len(q) = i + 1 /\ SubSeq(q, 1, i) = node(i) => q \in PathTo(key)
  IN  {node(i) : i \in {j \in 1..Len(key) : \A k \in j..Len(key) : bare(k)}}

\* remove_item, when it ends normally.
RemoveItem(t, key, value) ==
  LET dropped == [t EXCEPT ![key] = DropValue(@, value)]
  IN  [p \in DOMAIN t \ DeletedNodes(dropped, key) |-> dropped[p]]

-----------------------------------------------------------------------------
\* The order of calling as a sort: a node comes before the nodes above it, and,
\* where two matching paths part, the one with the wildcard comes first.
CalledBefore(p, q) ==
  \/ IsStrictPrefix(q, p)
  \/ \E i \in 1..Len(p) : /\ p[i] = Wildcard
                          /\ i <= Len(q) /\ q[i] # Wildcard
                          /\ SubSeq(p, 1, i - 1) = SubSeq(q, 1, i - 1)

\* Nodes in that order: i - 1 of them are called before the i-th.
CallingOrder(nodes) ==
  [i \in 1..Cardinality(nodes) |->
     CHOOSE p \in nodes : Cardinality({q \in nodes : CalledBefore(q, p)}) = i - 1]

\* The handlers of a sequence of nodes, one node after the other.
HandlersOf(t, nodes) == FlattenSeq([i \in DOMAIN nodes |-> CompleteOrder(t[nodes[i]])])
=============================================================================
