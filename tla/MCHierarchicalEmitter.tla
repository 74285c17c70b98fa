----------------------- MODULE MCHierarchicalEmitter -----------------------
(***************************************************************************)
(* HierarchicalEmitter for TLC: the session's emitter and the copy that a  *)
(* client gets.                                                            *)
(***************************************************************************)
EXTENDS HierarchicalEmitter

Chunks == {"retry", "s3", "Copy", "*"}

\* Names that part at the root, with wildcards on the first level and the second;
\* one is the beginning of another.
Names == {<<"*", "s3">>, <<"retry", "*">>, <<"retry", "*", "Copy">>}
Events == {<<"retry", "s3", "Copy">>, <<"retry", "s3">>}

\* Two names whose nodes lie on two paths, for ids, which are never looked up.
IdNames == {<<"retry", "*">>, <<"retry", "s3">>}

\* References and handlers are interchangeable.
Interchangeable == Permutations(Ref) \cup Permutations(Handler)

\* A bound: the session's emitter alone has up to MaxHandlers handlers, the two
\* together have no more than two.
FewerBesideACopy == live = {Session} \/ TotalSize <= 2
BoundedSpec == Init /\ [][Next /\ FewerBesideACopy']_vars
=============================================================================
