------------------------ MODULE OperationCallProofs ------------------------
(***************************************************************************)
(* Once an operation's node has its list of handlers, any number of        *)
(* threads may call the operation: no request leaves unsigned.             *)
(* And whether or not it has one, the emitter holds no closure and no      *)
(* cached lookup when no call is in progress.                              *)
(***************************************************************************)
EXTENDS OperationCall, FiniteSetTheorems, WellFoundedInduction, TLAPS

\* A non-empty set of indices has a least element: < is well founded on the naturals.
LEMMA LeastIndex ==
  ASSUME NEW n \in Nat, NEW T \in SUBSET (1..n), T # {}
  PROVE  \E m \in T : \A k \in T : m <= k
<1> DEFINE Less == {p \in Nat \X Nat : p[1] < p[2]}
<1>1. IsWellFoundedOn(Less, Nat)
  BY NatLessThanWellFounded DEF OpToRel
<1>2. T \subseteq Nat
  OBVIOUS
<1>3. PICK m \in T : \A k \in T : ~ (<<k, m>> \in Less)
  <2> HIDE DEF Less
  <2> QED BY <1>1, <1>2, WFMin, Zenon
<1>4. \A k \in T : ~ (k < m)
  BY <1>2, <1>3
<1> QED
  BY <1>2, <1>4

InSeq(t, s) == \E i \in DOMAIN s : s[i] = t

\* The chain of nodes is complete and nobody changes it.
WarmChain ==
  /\ \A l \in 0..(Depth - 1) : child[<<l, Past>>] = <<l + 1, Past>>
  /\ listOf[<<Depth, Past>>] = Past

\* Where the threads are: on the chain, never about to make a node or a list.
OnChain ==
  /\ pc \in [Thread -> PC \ {"link", "setlist"}]
  /\ DOMAIN at = Thread
  /\ \A t \in Thread : at[t] \in (0..Depth) \X {Past}
  /\ \A t \in Thread : pc[t] \in {"values", "append"} => at[t][1] = Depth

Sequences ==
  /\ DOMAIN contents = List
  /\ contents[Past] \in Seq(Thread)
  /\ found \in [Thread -> Seq(Thread)]
  /\ pos \in [Thread -> Nat \ {0}]
  /\ signedBy \in [Thread -> Thread \cup {Nobody}]

Calling == {"added", "lookup", "search", "store", "handlers", "lock", "sign", "send", "remove"}

\* From append to remove, the list holds the call's own closure.
OwnClosureListed ==
  \A t \in Thread : pc[t] \in Calling => InSeq(t, contents[Past])

\* So every search finds one, and no empty result is ever cached.
FoundSomething ==
  /\ cached = Nobody \/ (cached \in Seq(Thread) /\ cached # << >>)
  /\ \A t \in Thread : pc[t] \in {"store", "handlers", "lock", "sign"} => found[t] # << >>

\* The first closure found signs.
FirstSigns ==
  \A t \in Thread :
    /\ pc[t] \in {"search", "store", "lock", "sign"} => pos[t] = 1
    /\ pc[t] = "handlers" /\ signedBy[t] = Nobody => pos[t] = 1

AllSigned ==
  \A t \in Thread : pc[t] = "send" => signedBy[t] # Nobody

\* What holds when the operation was called before.
IInv == /\ WarmChain /\ OnChain /\ Sequences
        /\ OwnClosureListed /\ FoundSomething /\ FirstSigns
        /\ AllSigned
-----------------------------------------------------------------------------
\* Taking t's first entry out leaves a sequence with the others' entries.
LEMMA WithoutKeeps ==
  ASSUME NEW s \in Seq(Thread), NEW t
  PROVE  /\ Without(s, t) \in Seq(Thread)
         /\ \A u : u # t /\ InSeq(u, s) => InSeq(u, Without(s, t))
<1>1. CASE ~ \E i \in DOMAIN s : s[i] = t
  BY <1>1 DEF Without
<1>2. CASE \E i \in DOMAIN s : s[i] = t
  <2> DEFINE Is(i) == i \in DOMAIN s /\ s[i] = t /\ \A j \in 1..(i - 1) : s[j] # t
             first == CHOOSE i \in DOMAIN s : s[i] = t /\ \A j \in 1..(i - 1) : s[j] # t
             r == [j \in 1..(Len(s) - 1) |-> IF j < first THEN s[j] ELSE s[j + 1]]
  <2>1. \E i \in DOMAIN s : s[i] = t /\ \A j \in 1..(i - 1) : s[j] # t
    <3>1. PICK m \in {i \in DOMAIN s : s[i] = t} : \A k \in {i \in DOMAIN s : s[i] = t} : m <= k
      <4>1. {i \in DOMAIN s : s[i] = t} \in SUBSET (1..Len(s)) /\ Len(s) \in Nat
        OBVIOUS
      <4>2. {i \in DOMAIN s : s[i] = t} # {}
        BY <1>2
      <4>3. QED BY <4>1, <4>2, LeastIndex
    <3>2. QED BY <3>1
  <2>2. first \in DOMAIN s /\ s[first] = t
    BY <2>1
  <2>3. Without(s, t) = r
    BY <1>2 DEF Without
  <2> HIDE DEF first
  <2>4. r \in Seq(Thread) /\ Len(r) = Len(s) - 1 /\ DOMAIN r = 1..(Len(s) - 1)
    BY <2>2
  <2>5. ASSUME NEW u, u # t, InSeq(u, s) PROVE InSeq(u, r)
    <3>1. PICK i \in DOMAIN s : s[i] = u
      BY <2>5 DEF InSeq
    <3>2. CASE i < first
      <4>1. i \in DOMAIN r /\ r[i] = u
        BY <3>1, <3>2, <2>2, <2>4
      <4>2. QED BY <4>1 DEF InSeq
    <3>3. CASE i > first
      <4>1. i - 1 \in DOMAIN r /\ r[i - 1] = u
        BY <3>1, <3>3, <2>2, <2>4
      <4>2. QED BY <4>1 DEF InSeq
    <3>4. i # first
      BY <3>1, <2>2, <2>5
    <3>5. QED BY <3>2, <3>3, <3>4, <2>2
  <2>6. QED BY <2>3, <2>4, <2>5
<1>3. QED BY <1>1, <1>2

LEMMA InitIInv == warm /\ Init => IInv
<1> SUFFICES ASSUME warm, Init PROVE IInv
  OBVIOUS
<1>1. WarmChain
  BY CallAssumption DEF Init, WarmChain, Node, Call, Past
<1>2. OnChain /\ Sequences
  BY CallAssumption DEF Init, OnChain, Sequences, PC, Root, Past, List, Call
<1>3. OwnClosureListed /\ FoundSomething /\ FirstSigns /\ AllSigned
  BY DEF Init, OwnClosureListed, FoundSomething, FirstSigns, AllSigned, Calling
<1>4. QED BY <1>1, <1>2, <1>3 DEF IInv

\* The next node is always there, and it is on the chain.
LEMMA OnTheChain ==
  ASSUME IInv, NEW t \in Thread
  PROVE  /\ at[t] = <<at[t][1], Past>> /\ at[t][1] \in 0..Depth
         /\ at[t][1] < Depth => /\ child[at[t]] = <<at[t][1] + 1, Past>>
                                /\ child[at[t]] # NoNode
         /\ at[t][1] = Depth => listOf[at[t]] = Past /\ Past # NoList
<1>1. at[t] = <<at[t][1], Past>> /\ at[t][1] \in 0..Depth
  BY DEF IInv, OnChain
<1>2. at[t][1] < Depth => child[at[t]] = <<at[t][1] + 1, Past>>
  BY <1>1, CallAssumption DEF IInv, WarmChain
<1>3. \A l \in 0..Depth : <<l, Past>> # NoNode
  BY CallAssumption DEF Node, Past, Call
<1>4. at[t][1] < Depth => child[at[t]] # NoNode
  BY <1>1, <1>2, <1>3, CallAssumption
<1>5. at[t][1] = Depth => listOf[at[t]] = Past
  BY <1>1 DEF IInv, WarmChain
<1>6. Past # NoList
  BY CallAssumption DEF List, Call, Past
<1>7. QED BY <1>1, <1>2, <1>4, <1>5, <1>6

\* A walk down the chain, in register, in a search or in unregister.
LEMMA DescendKeeps ==
  ASSUME IInv, NEW t \in Thread, Descend(t),
         UNCHANGED <<treeVars, cached, pc, found, pos, signedBy>>,
         pc[t] \in {"walk", "search", "remove"}
  PROVE  IInv'
<1>1. at' = [at EXCEPT ![t] = <<at[t][1] + 1, Past>>] /\ at[t][1] + 1 \in 0..Depth
  <2>1. at[t][1] \in 0..Depth /\ at[t][1] < Depth
    BY OnTheChain DEF Descend
  <2>2. child[at[t]] = <<at[t][1] + 1, Past>>
    BY <2>1, OnTheChain
  <2>3. at' = [at EXCEPT ![t] = child[at[t]]]
    BY DEF Descend
  <2>4. QED
    BY <2>1, <2>2, <2>3, CallAssumption
<1>2. OnChain'
  BY <1>1 DEF IInv, OnChain
<1>3. QED
  BY <1>2 DEF IInv, WarmChain, Sequences, OwnClosureListed, FoundSomething, FirstSigns,
              AllSigned, treeVars, InSeq

LEMMA RegisterKeeps ==
  ASSUME IInv, NEW t \in Thread, Register(t)
  PROVE  IInv'
<1> USE DEF IInv, treeVars, threadVars, Goto
<1>1. CASE Walk(t)
  <2>1. CASE at[t][1] = Depth /\ Goto(t, "values") /\ UNCHANGED at
    <3>1. OnChain'
      BY <1>1, <2>1 DEF Walk, OnChain, PC
    <3>2. QED
      BY <3>1, <1>1, <2>1 DEF Walk, OnChain, WarmChain, Sequences, OwnClosureListed, FoundSomething,
                              FirstSigns, AllSigned, InSeq, Calling
  <2>2. CASE Descend(t) /\ UNCHANGED pc
    BY <1>1, <2>2, DescendKeeps DEF Walk
  <2>3. QED BY <1>1, <2>1, <2>2, OnTheChain DEF Walk
<1>2. CASE Link(t)
  BY <1>2 DEF Link, OnChain
<1>3. CASE Values(t)
  <2>1. pc[t] = "values" /\ pc' = [pc EXCEPT ![t] = "append"]
    BY <1>3, OnTheChain DEF Values, OnChain
  <2>2. OnChain'
    BY <1>3, <2>1 DEF Values, OnChain, PC
  <2>3. QED
    BY <2>2, <2>1, <1>3 DEF Values, OnChain, WarmChain, Sequences, OwnClosureListed, FoundSomething,
                            FirstSigns, AllSigned, InSeq, Calling
<1>4. CASE SetList(t)
  BY <1>4 DEF SetList, OnChain
<1>5. CASE AppendHandler(t)
  <2>1. /\ contents' = [contents EXCEPT ![Past] = Append(@, t)]
        /\ pc[t] = "append" /\ pc' = [pc EXCEPT ![t] = "added"]
    BY <1>5, OnTheChain DEF AppendHandler, OnChain
  <2>2. Past \in List
    BY DEF List, Call, Past
  <2>3. contents'[Past] = Append(contents[Past], t) /\ contents'[Past] \in Seq(Thread)
    BY <2>1, <2>2 DEF Sequences
  <2>4. \A u \in Thread : InSeq(u, contents[Past]) \/ u = t => InSeq(u, contents'[Past])
    <3>1. InSeq(t, contents'[Past])
      <4>1. Len(contents[Past]) + 1 \in DOMAIN contents'[Past]
        BY <2>3 DEF Sequences
      <4>2. contents'[Past][Len(contents[Past]) + 1] = t
        BY <2>3 DEF Sequences
      <4>3. QED BY <4>1, <4>2 DEF InSeq
    <3>2. ASSUME NEW u \in Thread, NEW i \in DOMAIN contents[Past], contents[Past][i] = u
          PROVE  InSeq(u, contents'[Past])
      <4>1. i \in DOMAIN contents'[Past] /\ contents'[Past][i] = u
        BY <2>3, <3>2 DEF Sequences
      <4>2. QED BY <4>1 DEF InSeq
    <3>3. QED BY <3>1, <3>2 DEF InSeq
  <2>5. OnChain' /\ Sequences'
    BY <1>5, <2>1, <2>3 DEF AppendHandler, OnChain, Sequences, PC
  <2>6. OwnClosureListed'
    BY <2>1, <2>4 DEF OwnClosureListed, OnChain, Calling
  <2>7. QED
    BY <2>1, <2>5, <2>6, <1>5 DEF AppendHandler, OnChain, WarmChain, FoundSomething, FirstSigns,
                                  AllSigned
<1>6. CASE Registered(t)
  <2>1. OnChain' /\ Sequences'
    BY <1>6 DEF Registered, OnChain, Sequences, PC
  <2>2. OwnClosureListed'
    BY <1>6 DEF Registered, OnChain, OwnClosureListed, Calling
  <2>3. QED
    BY <2>1, <2>2, <1>6 DEF Registered, OnChain, WarmChain, FoundSomething, FirstSigns,
                            AllSigned, Sequences
<1>7. QED BY <1>1, <1>2, <1>3, <1>4, <1>5, <1>6 DEF Register

LEMMA EmitKeeps ==
  ASSUME IInv, NEW t \in Thread, Emit(t)
  PROVE  IInv'
<1> USE DEF IInv, treeVars, threadVars, Goto
<1>1. CASE Lookup(t)
  <2>1. Root \in (0..Depth) \X {Past}
    BY CallAssumption DEF Root
  <2>2. OnChain' /\ Sequences'
    <3>1. found' \in [Thread -> Seq(Thread)]
      BY <1>1, Zenon DEF Lookup, Sequences, FoundSomething
    <3>2. OnChain'
      BY <1>1, <2>1 DEF Lookup, OnChain, PC
    <3>3. Sequences'
      <4>1. pos' = [pos EXCEPT ![t] = 1] /\ UNCHANGED <<contents, signedBy>>
        BY <1>1 DEF Lookup
      <4>2. QED BY <3>1, <4>1 DEF Sequences
    <3>4. QED BY <3>2, <3>3
  <2>3. OwnClosureListed'
    BY <1>1 DEF Lookup, OnChain, OwnClosureListed, Calling
  <2>4. QED
    <3>1. FoundSomething' /\ FirstSigns' /\ AllSigned'
      <4>1. CASE cached = Nobody
        <5>1. pc' = [pc EXCEPT ![t] = "search"] /\ pos' = [pos EXCEPT ![t] = 1]
              /\ UNCHANGED <<found, cached, signedBy>>
          BY <4>1, <1>1 DEF Lookup
        <5>2. FoundSomething'
          BY <5>1 DEF OnChain, FoundSomething
        <5>3. FirstSigns'
          BY <5>1 DEF OnChain, FirstSigns, Sequences
        <5>4. AllSigned'
          BY <5>1 DEF OnChain, AllSigned
        <5>5. QED BY <5>2, <5>3, <5>4
      <4>2. CASE cached # Nobody
        <5>1. pc' = [pc EXCEPT ![t] = "handlers"] /\ pos' = [pos EXCEPT ![t] = 1]
              /\ found' = [found EXCEPT ![t] = cached] /\ UNCHANGED <<cached, signedBy>>
          BY <4>2, <1>1 DEF Lookup
        <5>2. FoundSomething'
          BY <5>1, <4>2 DEF OnChain, FoundSomething, Sequences
        <5>3. FirstSigns'
          BY <5>1 DEF OnChain, FirstSigns, Sequences
        <5>4. AllSigned'
          BY <5>1 DEF OnChain, AllSigned
        <5>5. QED BY <5>2, <5>3, <5>4
      <4>3. QED BY <4>1, <4>2
    <3>2. QED BY <2>2, <2>3, <3>1, <1>1 DEF Lookup, WarmChain
<1>2. CASE Search(t)
  <2>1. CASE Descend(t) /\ UNCHANGED <<pc, found>>
    BY <1>2, <2>1, DescendKeeps DEF Search
  <2>2. CASE ~ (Descend(t) /\ UNCHANGED <<pc, found>>)
    <3>1. /\ pc[t] = "search" /\ pc' = [pc EXCEPT ![t] = "store"]
          /\ found' = [found EXCEPT ![t] = contents[Past]]
      BY <1>2, <2>2, OnTheChain, CallAssumption DEF Search
    <3>2. contents[Past] # << >>
      BY <3>1 DEF OwnClosureListed, Calling, InSeq
    <3>3. OnChain' /\ Sequences'
      BY <1>2, <3>1, <2>2 DEF Search, OnChain, Sequences, PC
    <3>4. OwnClosureListed'
      BY <1>2, <3>1 DEF Search, OnChain, OwnClosureListed, Calling
    <3>5. QED
      BY <3>1, <3>2, <3>3, <3>4, <1>2 DEF Search, OnChain, WarmChain, FoundSomething, FirstSigns,
                                          AllSigned, Sequences
  <2>3. QED BY <2>1, <2>2
<1>3. CASE Store(t)
  <2>1. OnChain' /\ OwnClosureListed'
    BY <1>3 DEF Store, OnChain, OwnClosureListed, Calling, PC
  <2>2. QED
    BY <2>1, <1>3 DEF Store, OnChain, WarmChain, FoundSomething, FirstSigns, AllSigned,
                      Sequences
<1>4. CASE RunHandler(t)
  <2>1. OnChain' /\ OwnClosureListed'
    BY <1>4 DEF RunHandler, OnChain, OwnClosureListed, Calling, PC
  <2>2. Sequences'
    <3>1. pos' \in [Thread -> Nat \ {0}]
      <4>1. pos' = pos \/ pos' = [pos EXCEPT ![t] = pos[t] + 1]
        BY <1>4 DEF RunHandler
      <4>2. pos[t] + 1 \in Nat \ {0}
        BY DEF Sequences
      <4>3. QED BY <4>1, <4>2 DEF Sequences
    <3>2. QED BY <1>4, <3>1 DEF RunHandler, Sequences
  <2>3. QED
    BY <2>1, <2>2, <1>4 DEF RunHandler, OnChain, WarmChain, FoundSomething, FirstSigns,
                            AllSigned, Sequences
<1>5. CASE Acquire(t)
  <2>1. OnChain' /\ OwnClosureListed'
    BY <1>5 DEF Acquire, OnChain, OwnClosureListed, Calling, PC
  <2>2. QED
    BY <2>1, <1>5 DEF Acquire, OnChain, WarmChain, FoundSomething, FirstSigns,
                      AllSigned, Sequences
<1>6. CASE Sign(t)
  <2>1. OnChain' /\ OwnClosureListed'
    BY <1>6 DEF Sign, OnChain, OwnClosureListed, Calling, PC
  <2>2. pos[t] = 1 /\ found[t][pos[t]] \in Thread /\ found[t][pos[t]] # Nobody
    BY <1>6, CallAssumption DEF Sign, FirstSigns, FoundSomething, Sequences
  <2>3. signedBy'[t] # Nobody /\ signedBy' \in [Thread -> Thread \cup {Nobody}]
    BY <1>6, <2>2, CallAssumption DEF Sign, Sequences
  <2>4. Sequences'
    BY <1>6, <2>3 DEF Sign, Sequences
  <2>5. QED
    BY <2>1, <2>3, <2>4, <1>6 DEF Sign, OnChain, WarmChain, FoundSomething, FirstSigns,
                                  AllSigned, Sequences
<1>7. CASE EmitDone(t)
  <2>1. OnChain' /\ OwnClosureListed'
    BY <1>7 DEF EmitDone, OnChain, OwnClosureListed, Calling, PC
  <2>2. signedBy[t] # Nobody
    BY <1>7 DEF EmitDone, FirstSigns, FoundSomething, Sequences
  <2>3. QED
    BY <2>1, <2>2, <1>7 DEF EmitDone, OnChain, WarmChain, FoundSomething, FirstSigns,
                            AllSigned, Sequences
<1>8. QED BY <1>1, <1>2, <1>3, <1>4, <1>5, <1>6, <1>7 DEF Emit

LEMMA FinishKeeps ==
  ASSUME IInv, NEW t \in Thread, Finish(t)
  PROVE  IInv'
<1> USE DEF IInv, treeVars, threadVars, Goto
<1>1. CASE SendAndRetry(t)
  <2>1. OnChain' /\ OwnClosureListed' /\ Sequences'
    BY <1>1 DEF SendAndRetry, OnChain, OwnClosureListed, Calling, PC, Sequences
  <2>2. QED
    BY <2>1, <1>1 DEF SendAndRetry, OnChain, WarmChain, FoundSomething, FirstSigns,
                      AllSigned, Sequences
<1>2. CASE SendAndEnd(t)
  <2>1. Root \in (0..Depth) \X {Past}
    BY CallAssumption DEF Root
  <2>2. OnChain' /\ OwnClosureListed' /\ Sequences'
    BY <1>2, <2>1 DEF SendAndEnd, OnChain, OwnClosureListed, Calling, PC, Sequences
  <2>3. QED
    BY <2>2, <1>2 DEF SendAndEnd, OnChain, WarmChain, FoundSomething, FirstSigns,
                      AllSigned, Sequences
<1>3. CASE Remove(t)
  <2>1. CASE Descend(t) /\ UNCHANGED <<pc, contents>>
    BY <1>3, <2>1, DescendKeeps DEF Remove
  <2>2. CASE ~ (Descend(t) /\ UNCHANGED <<pc, contents>>)
    <3>1. /\ pc[t] = "remove" /\ pc' = [pc EXCEPT ![t] = "removed"] /\ at' = at
          /\ contents' = [contents EXCEPT ![Past] = Without(@, t)]
      BY <1>3, <2>2, OnTheChain, CallAssumption DEF Remove
    <3>2. Past \in List
      BY DEF List, Call, Past
    <3>3. /\ contents'[Past] \in Seq(Thread)
          /\ \A u \in Thread : u # t /\ InSeq(u, contents[Past]) => InSeq(u, contents'[Past])
      BY <3>1, <3>2, WithoutKeeps DEF Sequences
    <3>4. OnChain' /\ Sequences'
      BY <1>3, <3>1, <3>3 DEF Remove, OnChain, Sequences, PC
    <3>5. OwnClosureListed'
      BY <3>1, <3>3 DEF OnChain, OwnClosureListed, Calling
    <3>6. QED
      BY <3>1, <3>4, <3>5, <1>3 DEF Remove, OnChain, WarmChain, FoundSomething, FirstSigns,
                                    AllSigned, Sequences
  <2>3. QED BY <2>1, <2>2
<1>4. CASE Unregistered(t)
  <2>1. OnChain' /\ OwnClosureListed'
    BY <1>4 DEF Unregistered, OnChain, OwnClosureListed, Calling, PC
  <2>2. QED
    BY <2>1, <1>4 DEF Unregistered, OnChain, WarmChain, FoundSomething, FirstSigns,
                      AllSigned, Sequences
<1>5. CASE Fail(t)
  <2>1. OnChain' /\ OwnClosureListed'
    BY <1>5 DEF Fail, OnChain, OwnClosureListed, Calling, PC
  <2>2. QED
    BY <2>1, <1>5 DEF Fail, OnChain, WarmChain, FoundSomething, FirstSigns,
                      AllSigned, Sequences
<1>6. QED BY <1>1, <1>2, <1>3, <1>4, <1>5 DEF Finish

LEMMA StartKeeps ==
  ASSUME IInv, NEW t \in Thread, Start(t)
  PROVE  IInv'
<1> USE DEF IInv, treeVars, threadVars, Goto
<1>1. Root \in (0..Depth) \X {Past}
  BY CallAssumption DEF Root
<1>2. OnChain' /\ OwnClosureListed'
  BY <1>1 DEF Start, OnChain, OwnClosureListed, Calling, PC
<1>3. QED
  BY <1>2 DEF Start, OnChain, WarmChain, FoundSomething, FirstSigns, AllSigned, Sequences

LEMMA StutterKeeps == IInv /\ UNCHANGED vars => IInv'
  BY DEF IInv, vars, treeVars, threadVars, WarmChain, OnChain, Sequences, OwnClosureListed,
         FoundSomething, FirstSigns, AllSigned, InSeq

LEMMA NextKeeps == (warm => IInv) /\ [Next]_vars => (warm => IInv)'
<1>1. ASSUME IInv, NEW t \in Thread, Step(t) PROVE IInv'
  BY <1>1, StartKeeps, RegisterKeeps, EmitKeeps, FinishKeeps DEF Step
<1>2. [Next]_vars => warm' = warm
  BY DEF Next, Step, Done, vars
<1>3. QED BY <1>1, <1>2, StutterKeeps DEF Next, Done

\* Any number of threads, calls and attempts: as long as the operation has been
\* called once before (its node holds a list of handlers), every request that
\* Operation.call sends has been signed, although registrations, look-ups, signing
\* and removals of the threads interleave freely and share one lookup cache.
THEOREM WarmRequestsAreSigned == Spec => []NoUnsignedRequest
<1>1. (warm => IInv) => NoUnsignedRequest
  BY DEF IInv, AllSigned, NoUnsignedRequest
<1>2. Init => (warm => IInv)
  BY InitIInv
<1>3. QED
  BY <1>2, NextKeeps, <1>1, PTL DEF Spec
-----------------------------------------------------------------------------
\* What the types rest on, whether or not the operation was called before: a thread
\* that makes a node has one below it to make, one that appends has a list, one that
\* signs has a closure.
Ready ==
  \A t \in Thread :
    /\ pc[t] = "link" => at[t][1] < Depth
    /\ pc[t] # "idle" => calls[t] >= 1
    /\ pc[t] = "append" => listOf[at[t]] # NoList
    /\ pc[t] \in {"lock", "sign"} => pos[t] <= Len(found[t])

LEMMA InitTypes == Init => TypeOK /\ Ready
<1> SUFFICES ASSUME Init PROVE TypeOK /\ Ready
  OBVIOUS
<1> USE CallAssumption
<1>1. Past \in Call /\ Root \in Node /\ \A l \in 0..(Depth - 1) : <<l + 1, Past>> \in Node
  BY DEF Call, Past, Root, Node
<1>2. child \in [Node -> Node \cup {NoNode}]
  <2>1. ASSUME NEW n \in Node, n[2] = Past, n[1] < (IF warm THEN Depth ELSE 1)
        PROVE  <<n[1] + 1, Past>> \in Node
    BY <1>1, <2>1 DEF Node
  <2> QED
    BY <2>1 DEF Init
<1>3. listOf \in [Node -> List \cup {NoList}]
  BY <1>1 DEF Init, List
<1>4. contents \in [List -> Seq(Thread)] /\ found \in [Thread -> Seq(Thread)]
  BY DEF Init
<1>5. /\ cached = Nobody /\ lock = Nobody /\ pc \in [Thread -> PC] /\ at \in [Thread -> Node]
      /\ pos \in [Thread -> Nat \ {0}] /\ signedBy \in [Thread -> Thread \cup {Nobody}]
      /\ attempt \in [Thread -> 0..MaxAttempts] /\ calls \in [Thread -> 0..MaxCalls]
  BY <1>1 DEF Init, PC
<1>6. warm \in BOOLEAN
  BY DEF Init
<1>7. Ready
  BY DEF Init, Ready
<1> QED
  BY <1>2, <1>3, <1>4, <1>5, <1>6, <1>7, Zenon DEF TypeOK

\* A step of t changes a variable of the threads at t, to a value of its type.
Own(v, w, t, T) == w = [v EXCEPT ![t] = w[t]] /\ w[t] \in T

ReadyAt(t) ==
  /\ pc[t] = "link" => at[t][1] < Depth
  /\ pc[t] # "idle" => calls[t] >= 1
  /\ pc[t] = "append" => listOf[at[t]] # NoList
  /\ pc[t] \in {"lock", "sign"} => pos[t] <= Len(found[t])

LEMMA OwnUnchanged ==
  ASSUME NEW t \in Thread, NEW T, NEW v \in [Thread -> T], NEW w, w = v
  PROVE  Own(v, w, t, T)
BY DEF Own

LEMMA OwnSet ==
  ASSUME NEW t \in Thread, NEW T, NEW v \in [Thread -> T], NEW w, NEW x \in T,
         w = [v EXCEPT ![t] = x]
  PROVE  Own(v, w, t, T) /\ w[t] = x
BY DEF Own

ThreadTypes == /\ pc \in [Thread -> PC] /\ at \in [Thread -> Node]
               /\ found \in [Thread -> Seq(Thread)] /\ pos \in [Thread -> Nat \ {0}]
               /\ signedBy \in [Thread -> Thread \cup {Nobody}]
               /\ attempt \in [Thread -> 0..MaxAttempts] /\ calls \in [Thread -> 0..MaxCalls]

\* The types and Ready after a step of t, part by part: the other threads are as they
\* were, and no list is taken away.
LEMMA StepKeeps ==
  ASSUME TypeOK, Ready, NEW t \in Thread, warm' = warm,
         child' \in [Node -> Node \cup {NoNode}],
         listOf' \in [Node -> List \cup {NoList}],
         \A n \in Node : listOf[n] # NoList => listOf'[n] # NoList,
         contents' \in [List -> Seq(Thread)],
         cached' \in Seq(Thread) \cup {Nobody},
         lock' \in Thread \cup {Nobody},
         Own(pc, pc', t, PC), Own(at, at', t, Node), Own(found, found', t, Seq(Thread)),
         Own(pos, pos', t, Nat \ {0}), Own(signedBy, signedBy', t, Thread \cup {Nobody}),
         Own(attempt, attempt', t, 0..MaxAttempts), Own(calls, calls', t, 0..MaxCalls),
         ReadyAt(t)'
  PROVE  TypeOK' /\ Ready'
<1>1. ThreadTypes
  BY Zenon DEF TypeOK, ThreadTypes
<1>2. ThreadTypes' /\ \A u \in Thread \ {t} :
         /\ pc'[u] = pc[u] /\ at'[u] = at[u] /\ calls'[u] = calls[u]
         /\ pos'[u] = pos[u] /\ found'[u] = found[u]
  <2>1. pc' \in [Thread -> PC] /\ \A u \in Thread \ {t} : pc'[u] = pc[u]
    BY <1>1 DEF ThreadTypes, Own
  <2>2. at' \in [Thread -> Node] /\ \A u \in Thread \ {t} : at'[u] = at[u]
    BY <1>1 DEF ThreadTypes, Own
  <2>3. found' \in [Thread -> Seq(Thread)] /\ \A u \in Thread \ {t} : found'[u] = found[u]
    BY <1>1 DEF ThreadTypes, Own
  <2>4. pos' \in [Thread -> Nat \ {0}] /\ \A u \in Thread \ {t} : pos'[u] = pos[u]
    BY <1>1 DEF ThreadTypes, Own
  <2>5. calls' \in [Thread -> 0..MaxCalls] /\ \A u \in Thread \ {t} : calls'[u] = calls[u]
    BY <1>1 DEF ThreadTypes, Own
  <2>6. signedBy' \in [Thread -> Thread \cup {Nobody}] /\ attempt' \in [Thread -> 0..MaxAttempts]
    BY <1>1 DEF ThreadTypes, Own
  <2> QED
    BY <2>1, <2>2, <2>3, <2>4, <2>5, <2>6, Zenon DEF ThreadTypes
<1>3. TypeOK'
  <2>1. warm' \in BOOLEAN
    BY DEF TypeOK
  <2> QED
    BY <1>2, <2>1, Zenon DEF ThreadTypes, TypeOK
<1>4. ASSUME NEW u \in Thread \ {t}
      PROVE  ReadyAt(u)'
  <2>1. at[u] \in Node /\ ReadyAt(u)
    BY <1>1 DEF ThreadTypes, Ready, ReadyAt
  <2>2. /\ pc'[u] = pc[u] /\ at'[u] = at[u] /\ calls'[u] = calls[u]
        /\ pos'[u] = pos[u] /\ found'[u] = found[u]
    BY <1>2
  <2> QED
    BY <2>1, <2>2 DEF ReadyAt
<1>5. \A u \in Thread : ReadyAt(u)'
  BY <1>4
<1> QED
  BY <1>3, <1>5 DEF Ready, ReadyAt

\* The parts that no step but some keeps as they are.
LEMMA TreeKept ==
  ASSUME TypeOK
  PROVE  /\ UNCHANGED child => child' \in [Node -> Node \cup {NoNode}]
         /\ UNCHANGED listOf => /\ listOf' \in [Node -> List \cup {NoList}]
                                /\ \A n \in Node : listOf[n] # NoList => listOf'[n] # NoList
         /\ UNCHANGED contents => contents' \in [List -> Seq(Thread)]
         /\ UNCHANGED cached => cached' \in Seq(Thread) \cup {Nobody}
         /\ UNCHANGED lock => lock' \in Thread \cup {Nobody}
BY Zenon DEF TypeOK

LEMMA ThreadKept ==
  ASSUME TypeOK, NEW t \in Thread
  PROVE  /\ UNCHANGED pc => Own(pc, pc', t, PC)
         /\ \A p \in PC : Goto(t, p) => Own(pc, pc', t, PC) /\ pc'[t] = p
         /\ UNCHANGED at => Own(at, at', t, Node)
         /\ \A n \in Node : at' = [at EXCEPT ![t] = n] => Own(at, at', t, Node) /\ at'[t] = n
         /\ UNCHANGED found => Own(found, found', t, Seq(Thread))
         /\ \A f \in Seq(Thread) :
              found' = [found EXCEPT ![t] = f] => Own(found, found', t, Seq(Thread)) /\ found'[t] = f
         /\ UNCHANGED pos => Own(pos, pos', t, Nat \ {0})
         /\ \A i \in Nat \ {0} :
              pos' = [pos EXCEPT ![t] = i] => Own(pos, pos', t, Nat \ {0}) /\ pos'[t] = i
         /\ UNCHANGED signedBy => Own(signedBy, signedBy', t, Thread \cup {Nobody})
         /\ \A b \in Thread \cup {Nobody} :
              signedBy' = [signedBy EXCEPT ![t] = b] => Own(signedBy, signedBy', t, Thread \cup {Nobody})
         /\ UNCHANGED attempt => Own(attempt, attempt', t, 0..MaxAttempts)
         /\ \A i \in 0..MaxAttempts :
              attempt' = [attempt EXCEPT ![t] = i] => Own(attempt, attempt', t, 0..MaxAttempts)
         /\ UNCHANGED calls => Own(calls, calls', t, 0..MaxCalls)
         /\ \A i \in 0..MaxCalls :
              calls' = [calls EXCEPT ![t] = i] => Own(calls, calls', t, 0..MaxCalls) /\ calls'[t] = i
<1>1. ThreadTypes
  BY Zenon DEF TypeOK, ThreadTypes
<1>2. /\ UNCHANGED pc => Own(pc, pc', t, PC)
      /\ \A p \in PC : Goto(t, p) => Own(pc, pc', t, PC) /\ pc'[t] = p
  BY <1>1, OwnUnchanged, OwnSet, Zenon DEF ThreadTypes, Goto
<1>3. /\ UNCHANGED at => Own(at, at', t, Node)
      /\ \A n \in Node : at' = [at EXCEPT ![t] = n] => Own(at, at', t, Node) /\ at'[t] = n
  BY <1>1, OwnUnchanged, OwnSet, Zenon DEF ThreadTypes
<1>4. /\ UNCHANGED found => Own(found, found', t, Seq(Thread))
      /\ \A f \in Seq(Thread) :
           found' = [found EXCEPT ![t] = f] => Own(found, found', t, Seq(Thread)) /\ found'[t] = f
  BY <1>1, OwnUnchanged, OwnSet, Zenon DEF ThreadTypes
<1>5. /\ UNCHANGED pos => Own(pos, pos', t, Nat \ {0})
      /\ \A i \in Nat \ {0} :
           pos' = [pos EXCEPT ![t] = i] => Own(pos, pos', t, Nat \ {0}) /\ pos'[t] = i
  BY <1>1, OwnUnchanged, OwnSet, Zenon DEF ThreadTypes
<1>6. /\ UNCHANGED signedBy => Own(signedBy, signedBy', t, Thread \cup {Nobody})
      /\ \A b \in Thread \cup {Nobody} :
           signedBy' = [signedBy EXCEPT ![t] = b] => Own(signedBy, signedBy', t, Thread \cup {Nobody})
  BY <1>1, OwnUnchanged, OwnSet, Zenon DEF ThreadTypes
<1>7. /\ UNCHANGED attempt => Own(attempt, attempt', t, 0..MaxAttempts)
      /\ \A i \in 0..MaxAttempts :
           attempt' = [attempt EXCEPT ![t] = i] => Own(attempt, attempt', t, 0..MaxAttempts)
  BY <1>1, OwnUnchanged, OwnSet, Zenon DEF ThreadTypes
<1>8. /\ UNCHANGED calls => Own(calls, calls', t, 0..MaxCalls)
      /\ \A i \in 0..MaxCalls :
           calls' = [calls EXCEPT ![t] = i] => Own(calls, calls', t, 0..MaxCalls) /\ calls'[t] = i
  BY <1>1, OwnUnchanged, OwnSet, Zenon DEF ThreadTypes
<1> QED
  BY <1>2, <1>3, <1>4, <1>5, <1>6, <1>7, <1>8, Zenon

\* Every step of a thread keeps the types.
LEMMA StepTypes ==
  ASSUME TypeOK, Ready, NEW t \in Thread, Step(t)
  PROVE  TypeOK' /\ Ready'
<1> USE CallAssumption
<1> DEFINE Owned == /\ Own(pc, pc', t, PC) /\ Own(at, at', t, Node)
                    /\ Own(found, found', t, Seq(Thread)) /\ Own(pos, pos', t, Nat \ {0})
                    /\ Own(signedBy, signedBy', t, Thread \cup {Nobody})
                    /\ Own(attempt, attempt', t, 0..MaxAttempts)
                    /\ Own(calls, calls', t, 0..MaxCalls)
           Shared == /\ child' \in [Node -> Node \cup {NoNode}]
                     /\ listOf' \in [Node -> List \cup {NoList}]
                     /\ \A n \in Node : listOf[n] # NoList => listOf'[n] # NoList
                     /\ contents' \in [List -> Seq(Thread)]
                     /\ cached' \in Seq(Thread) \cup {Nobody}
                     /\ lock' \in Thread \cup {Nobody}
<1>1. warm' = warm
  BY DEF Step
<1>2. Owned /\ Shared /\ ReadyAt(t)' => TypeOK' /\ Ready'
  BY <1>1, StepKeeps
<1>3. /\ calls[t] >= 1 => CallOf(t) \in Call /\ CallOf(t) \in List
      /\ at[t] \in Node /\ at[t][1] \in 0..Depth
      /\ Root \in Node
  BY DEF CallOf, Call, List, Root, Past, Node, TypeOK
<1>4. /\ calls[t] \in 0..MaxCalls /\ attempt[t] \in 0..MaxAttempts /\ pos[t] \in Nat \ {0}
      /\ found[t] \in Seq(Thread) /\ pc[t] \in PC /\ ReadyAt(t)
  BY DEF TypeOK, Ready, ReadyAt
<1>5. {"idle", "walk", "link", "values", "setlist", "append", "added", "lookup", "search",
       "store", "handlers", "lock", "sign", "send", "remove", "removed", "failed"} \subseteq PC
  BY DEF PC
<1> USE <1>5, TreeKept, ThreadKept DEF treeVars, threadVars
<1>6. CASE Start(t)
  <2>1. calls[t] + 1 \in 0..MaxCalls /\ calls[t] + 1 >= 1
    BY <1>4, <1>6 DEF Start
  <2>2. Own(calls, calls', t, 0..MaxCalls) /\ calls'[t] = calls[t] + 1
    BY <1>6, <2>1 DEF Start
  <2>3. Own(at, at', t, Node) /\ Own(attempt, attempt', t, 0..MaxAttempts)
    <3>1. at' = [at EXCEPT ![t] = Root] /\ attempt' = [attempt EXCEPT ![t] = 0]
      BY <1>6 DEF Start
    <3> QED
      BY <1>3, <3>1 DEF Own, TypeOK
  <2>4. Owned /\ Shared /\ pc'[t] = "walk"
    BY <1>6, <2>2, <2>3 DEF Start
  <2> QED
    BY <1>2, <2>1, <2>2, <2>4 DEF ReadyAt
<1>7. CASE Walk(t)
  <2>1. Owned /\ Shared
    <3>1. CASE Descend(t)
      <4>1. child[at[t]] \in Node /\ at' = [at EXCEPT ![t] = child[at[t]]]
        BY <1>3, <3>1 DEF Descend, TypeOK
      <4> QED
        BY <1>7, <3>1, <4>1 DEF Walk
    <3>2. CASE ~ Descend(t)
      BY <1>7, <3>2 DEF Walk
    <3> QED
      BY <3>1, <3>2
  <2>2. ReadyAt(t)'
    BY <1>4, <1>7 DEF Walk, Goto, ReadyAt, TypeOK
  <2> QED
    BY <1>2, <2>1, <2>2
<1>8. CASE Link(t)
  <2>1. <<at[t][1] + 1, CallOf(t)>> \in Node /\ calls[t] >= 1
    BY <1>3, <1>4, <1>8 DEF Link, ReadyAt, Node
  <2>2. child' \in [Node -> Node \cup {NoNode}]
    BY <1>8, <2>1 DEF Link, TypeOK
  <2>3. Owned /\ Shared /\ pc'[t] = "walk" /\ UNCHANGED calls
    BY <1>8, <2>1, <2>2 DEF Link
  <2> QED
    BY <1>2, <2>1, <2>3 DEF ReadyAt
<1>9. CASE Values(t)
  <2>1. Owned /\ Shared
    BY <1>9 DEF Values
  <2>2. ReadyAt(t)'
    BY <1>4, <1>9 DEF Values, Goto, ReadyAt, TypeOK
  <2> QED
    BY <1>2, <2>1, <2>2
<1>10. CASE SetList(t)
  <2>1. CallOf(t) \in List /\ CallOf(t) # NoList /\ calls[t] >= 1
    BY <1>3, <1>4, <1>10 DEF SetList, ReadyAt
  <2>2. /\ listOf' = [listOf EXCEPT ![at[t]] = CallOf(t)]
        /\ contents' = [contents EXCEPT ![CallOf(t)] = << >>]
    BY <1>10 DEF SetList
  <2>3. Shared
    BY <1>3, <1>10, <2>1, <2>2 DEF SetList, TypeOK
  <2>4. Owned /\ pc'[t] = "append" /\ UNCHANGED <<at, calls>>
    BY <1>10 DEF SetList
  <2>5. listOf'[at'[t]] # NoList
    BY <1>3, <2>1, <2>2, <2>4 DEF TypeOK
  <2> QED
    BY <1>2, <2>1, <2>3, <2>4, <2>5 DEF ReadyAt
<1>11. CASE AppendHandler(t)
  <2>1. listOf[at[t]] \in List
    BY <1>3, <1>4, <1>11 DEF AppendHandler, ReadyAt, TypeOK
  <2>2. Append(contents[listOf[at[t]]], t) \in Seq(Thread)
    BY <2>1 DEF TypeOK
  <2>3. contents' \in [List -> Seq(Thread)]
    BY <1>11, <2>2 DEF AppendHandler, TypeOK
  <2>4. Owned /\ Shared /\ pc'[t] = "added" /\ UNCHANGED calls
    BY <1>11, <2>3 DEF AppendHandler
  <2> QED
    BY <1>2, <1>4, <1>11, <2>4 DEF AppendHandler, ReadyAt
<1>12. CASE Registered(t)
  <2>1. Own(attempt, attempt', t, 0..MaxAttempts) /\ Own(signedBy, signedBy', t, Thread \cup {Nobody})
    <3>1. attempt' = [attempt EXCEPT ![t] = 1] /\ signedBy' = [signedBy EXCEPT ![t] = Nobody]
      BY <1>12 DEF Registered
    <3> QED
      BY <3>1 DEF Own, TypeOK
  <2>2. Owned /\ Shared /\ pc'[t] = "lookup" /\ UNCHANGED calls
    BY <1>12, <2>1 DEF Registered
  <2> QED
    BY <1>2, <1>4, <1>12, <2>2 DEF Registered, ReadyAt
<1>13. CASE Lookup(t)
  <2>1. Own(at, at', t, Node) /\ Own(pos, pos', t, Nat \ {0})
    <3>1. at' = [at EXCEPT ![t] = Root] /\ pos' = [pos EXCEPT ![t] = 1]
      BY <1>13 DEF Lookup
    <3> QED
      BY <1>3, <3>1 DEF Own, TypeOK
  <2>2. CASE cached = Nobody
    <3>1. Owned /\ Shared /\ pc'[t] = "search" /\ UNCHANGED calls
      BY <1>13, <2>2, <2>1 DEF Lookup
    <3> QED
      BY <1>2, <1>4, <1>13, <3>1 DEF Lookup, ReadyAt
  <2>3. CASE cached # Nobody
    <3>1. cached \in Seq(Thread)
      BY <2>3 DEF TypeOK
    <3>2. Owned /\ Shared /\ pc'[t] = "handlers" /\ UNCHANGED calls
      BY <1>13, <2>3, <2>1, <3>1 DEF Lookup
    <3> QED
      BY <1>2, <1>4, <1>13, <3>2 DEF Lookup, ReadyAt
  <2> QED
    BY <2>2, <2>3
<1>14. CASE Search(t)
  <2>1. CASE Descend(t) /\ UNCHANGED <<pc, found>>
    <3>1. child[at[t]] \in Node /\ at' = [at EXCEPT ![t] = child[at[t]]]
      BY <1>3, <2>1 DEF Descend, TypeOK
    <3>2. Owned /\ Shared /\ pc'[t] = "search" /\ UNCHANGED calls
      BY <1>14, <2>1, <3>1 DEF Search
    <3> QED
      BY <1>2, <1>4, <1>14, <3>2 DEF Search, ReadyAt
  <2>2. CASE ~ (Descend(t) /\ UNCHANGED <<pc, found>>)
    <3> DEFINE result == IF at[t][1] < Depth \/ listOf[at[t]] = NoList
                         THEN << >> ELSE contents[listOf[at[t]]]
    <3>1. result \in Seq(Thread)
      BY <1>3 DEF TypeOK
    <3>2. found' = [found EXCEPT ![t] = result] /\ Goto(t, "store") /\ UNCHANGED <<at, calls>>
      BY <1>14, <2>2 DEF Search
    <3> HIDE DEF result
    <3>3. Owned /\ Shared /\ pc'[t] = "store"
      BY <1>14, <3>1, <3>2 DEF Search
    <3> QED
      BY <1>2, <1>4, <1>14, <3>2, <3>3 DEF Search, ReadyAt
  <2> QED
    BY <2>1, <2>2
<1>15. CASE Store(t)
  <2>1. Owned /\ Shared /\ pc'[t] = "handlers" /\ UNCHANGED calls
    BY <1>4, <1>15 DEF Store
  <2> QED
    BY <1>2, <1>4, <1>15, <2>1 DEF Store, ReadyAt
<1>16. CASE RunHandler(t)
  <2>1. pos[t] + 1 \in Nat \ {0}
    BY <1>4
  <2>2. CASE signedBy[t] = Nobody
    <3>1. Owned /\ Shared /\ pc'[t] = "lock" /\ UNCHANGED <<calls, pos, found>>
      BY <1>16, <2>2 DEF RunHandler
    <3> QED
      BY <1>2, <1>4, <1>16, <3>1 DEF RunHandler, ReadyAt
  <2>3. CASE signedBy[t] # Nobody
    <3>1. Owned /\ Shared /\ UNCHANGED <<calls, pc>>
      BY <1>16, <2>1, <2>3 DEF RunHandler
    <3> QED
      BY <1>2, <1>4, <1>16, <3>1 DEF RunHandler, ReadyAt
  <2> QED
    BY <2>2, <2>3
<1>17. CASE Acquire(t)
  <2>1. Owned /\ Shared /\ pc'[t] = "sign" /\ UNCHANGED <<calls, pos, found>>
    BY <1>17 DEF Acquire
  <2> QED
    BY <1>2, <1>4, <1>17, <2>1 DEF Acquire, ReadyAt
<1>18. CASE Sign(t)
  <2>1. found[t][pos[t]] \in Thread /\ pos[t] + 1 \in Nat \ {0}
    BY <1>4, <1>18 DEF Sign, ReadyAt
  <2>2. Own(signedBy, signedBy', t, Thread \cup {Nobody})
    <3>1. signedBy[t] \in Thread \cup {Nobody}
      BY DEF TypeOK
    <3> QED
      BY <1>18, <2>1, <3>1 DEF Sign
  <2>3. Owned /\ Shared /\ pc'[t] = "handlers" /\ UNCHANGED calls
    BY <1>18, <2>1, <2>2 DEF Sign
  <2> QED
    BY <1>2, <1>4, <1>18, <2>3 DEF Sign, ReadyAt
<1>19. CASE EmitDone(t)
  <2>1. Owned /\ Shared /\ pc'[t] = "send" /\ UNCHANGED calls
    BY <1>19 DEF EmitDone
  <2> QED
    BY <1>2, <1>4, <1>19, <2>1 DEF EmitDone, ReadyAt
<1>20. CASE SendAndRetry(t)
  <2>1. attempt[t] + 1 \in 0..MaxAttempts
    BY <1>4, <1>20 DEF SendAndRetry
  <2>2. Owned /\ Shared /\ pc'[t] = "lookup" /\ UNCHANGED calls
    BY <1>20, <2>1 DEF SendAndRetry
  <2> QED
    BY <1>2, <1>4, <1>20, <2>2 DEF SendAndRetry, ReadyAt
<1>21. CASE SendAndEnd(t)
  <2>1. Owned /\ Shared /\ pc'[t] = "remove" /\ UNCHANGED calls
    BY <1>3, <1>21 DEF SendAndEnd
  <2> QED
    BY <1>2, <1>4, <1>21, <2>1 DEF SendAndEnd, ReadyAt
<1>22. CASE Remove(t)
  <2>1. contents' \in [List -> Seq(Thread)]
    <3>1. CASE UNCHANGED contents
      BY <3>1
    <3>2. CASE /\ listOf[at[t]] # NoList
               /\ contents' = [contents EXCEPT ![listOf[at[t]]] = Without(@, t)]
      <4>1. listOf[at[t]] \in List
        BY <1>3, <3>2 DEF TypeOK
      <4>2. Without(contents[listOf[at[t]]], t) \in Seq(Thread)
        BY <4>1, WithoutKeeps DEF TypeOK
      <4> QED
        BY <3>2, <4>1, <4>2 DEF TypeOK
    <3> QED
      BY <1>22, <3>1, <3>2 DEF Remove
  <2>2. Own(at, at', t, Node)
    <3>1. CASE Descend(t)
      <4>1. child[at[t]] \in Node /\ at' = [at EXCEPT ![t] = child[at[t]]]
        BY <1>3, <3>1 DEF Descend, TypeOK
      <4> QED
        BY <4>1
    <3> QED
      BY <1>22, <3>1 DEF Remove
  <2>3. Own(pc, pc', t, PC) /\ (pc'[t] \in {"remove", "idle", "failed", "removed"})
    BY <1>22 DEF Remove
  <2>4. Owned /\ Shared /\ UNCHANGED calls
    BY <1>22, <2>1, <2>2, <2>3 DEF Remove
  <2> QED
    BY <1>2, <1>4, <1>22, <2>3, <2>4 DEF Remove, ReadyAt
<1>23. CASE Unregistered(t)
  <2>1. Owned /\ Shared /\ pc'[t] = "idle"
    BY <1>23 DEF Unregistered
  <2> QED
    BY <1>2, <2>1 DEF ReadyAt
<1>24. CASE Fail(t)
  <2>1. Owned /\ Shared /\ pc'[t] = "idle"
    BY <1>24 DEF Fail
  <2> QED
    BY <1>2, <2>1 DEF ReadyAt
<1> QED
  BY <1>6, <1>7, <1>8, <1>9, <1>10, <1>11, <1>12, <1>13, <1>14, <1>15, <1>16, <1>17, <1>18, <1>19,
     <1>20, <1>21, <1>22, <1>23, <1>24 DEF Step, Register, Emit, Finish

\* Every state is of its type, in an operation called before or not (operation.py
\* 147-170, hooks.py 383-408).
THEOREM TypesHold == Spec => []TypeOK
<1>1. TypeOK /\ Ready /\ [Next]_vars => TypeOK' /\ Ready'
  <2> SUFFICES ASSUME TypeOK, Ready, [Next]_vars
               PROVE  TypeOK' /\ Ready'
    OBVIOUS
  <2>1. CASE UNCHANGED vars
    BY <2>1, Zenon DEF vars, treeVars, threadVars, TypeOK, Ready
  <2>2. ASSUME NEW t \in Thread, Step(t)
        PROVE  TypeOK' /\ Ready'
    BY <2>2, StepTypes
  <2> QED
    BY <2>1, <2>2 DEF Next, Done
<1> QED
  BY <1>1, InitTypes, PTL DEF Spec
-----------------------------------------------------------------------------
\* The walk to a node ends here: it has no child, or no list.
CompleteIn(n, c, l) == IF n[1] < Depth THEN c[n] # NoNode ELSE l[n] # NoList
Complete(n) == CompleteIn(n, child, listOf)

\* What a walk may meet: children, and where the threads stand.
Pointed(n) == (\E m \in Node : child[m] = n) \/ (\E t \in Thread : at[t] = n)

\* The last node that existed before the first call.
Top == <<IF warm THEN Depth ELSE 1, Past>>

Making == {"walk", "link", "values", "setlist"}

\* Links lead one level down, and only the last level has lists.
Levels ==
  /\ \A n \in Node : child[n] # NoNode => child[n][1] = n[1] + 1
  /\ \A t \in Thread : pc[t] \in {"values", "setlist", "append"} => at[t][1] = Depth

\* A node made by a call ends the walk only while its maker stands at it.
MakersFinish ==
  \A n \in Node : n[2] # Past /\ Pointed(n) /\ ~ Complete(n) =>
    at[n[2][1]] = n /\ pc[n[2][1]] \in Making

\* The nodes from before the first call, down to Top, stay linked.
PastLinked ==
  /\ \A n \in Node : n[2] = Past /\ Pointed(n) => n[1] <= Top[1]
  /\ \A l \in 0..(Top[1] - 1) : child[<<l, Past>>] # NoNode
  /\ \A t \in Thread : pc[t] = "link" /\ at[t][2] = Past => at[t] = Top

\* Before the first call has got below Top, nothing was made or cached.
TopFirst ==
  ~ Complete(Top) =>
    /\ \A n \in Node : Pointed(n) => n[2] = Past
    /\ cached = Nobody
    /\ \A t \in Thread : pc[t] \in Making \cup {"idle"}

\* Some call in progress will reset the cache.
CacheOwed == cached # Nobody => \E t \in Thread : pc[t] \notin {"idle", "failed"}

\* The nodes that calls may still make are bare, and nothing leads to them.
Unmade ==
  \A t \in Thread, k \in 1..MaxCalls, l \in 0..Depth :
    k > calls[t] \/ (k = calls[t] /\ pc[t] \in {"walk", "link"} /\ l > at[t][1]) =>
      LET n == <<l, <<t, k>>>>
      IN  child[n] = NoNode /\ listOf[n] = NoList /\ ~ Pointed(n)

\* A chain of nodes from the root to the last level.
Chain(p) ==
  /\ p \in [0..Depth -> Node]
  /\ p[0] = Root
  /\ \A l \in 0..(Depth - 1) : child[p[l]] = p[l + 1]

\* A closure that is in a list of handlers is there once, its call has not removed
\* it yet, and is on the chain when it is about to.
HeldBy(u, p, s) ==
  InSeq(u, s) =>
    /\ pc[u] \in Calling
    /\ \A i, j \in DOMAIN s : s[i] = u /\ s[j] = u => i = j
    /\ pc[u] = "remove" => at[u] = p[at[u][1]]

\* The list that a search finds holds closures of calls in progress only.
Held ==
  \A p \in [0..Depth -> Node] : Chain(p) /\ listOf[p[Depth]] # NoList =>
    \A t \in Thread : HeldBy(t, p, contents[listOf[p[Depth]]])

TreeInv == Levels /\ MakersFinish /\ PastLinked /\ TopFirst /\ Unmade
IdleInv == TypeOK /\ Ready /\ TreeInv /\ CacheOwed /\ Held

\* A step of t that makes no node: what it may do to the tree and to the thread.
Steady(t) ==
  /\ warm' = warm /\ child' = child
  /\ \A n \in Node : listOf'[n] = listOf[n] \/ (n = at[t] /\ listOf'[n] # NoList)
  /\ \A u \in Thread \ {t} : pc'[u] = pc[u] /\ at'[u] = at[u] /\ calls'[u] = calls[u]
  /\ \/ at'[t] \in {at[t], Root}
     \/ at[t][1] < Depth /\ child[at[t]] # NoNode /\ at'[t] = child[at[t]]
  /\ pc[t] \in Making =>
       \/ at'[t] = at[t] /\ pc'[t] \in Making
       \/ CompleteIn(at[t], child', listOf')
  /\ pc'[t] = "link" => at'[t] = at[t] /\ at[t][1] < Depth /\ child[at[t]] = NoNode
  /\ pc'[t] \in {"values", "setlist", "append"} => at'[t] = at[t] /\ at[t][1] = Depth
  /\ pc[t] \in Making \cup {"idle"} =>
       /\ cached' = cached
       /\ \/ pc'[t] \in Making \cup {"idle"}
          \/ at[t][1] = Depth /\ CompleteIn(at[t], child', listOf')
  /\ \/ calls'[t] = calls[t] + 1 /\ at'[t] = Root
     \/ /\ calls'[t] = calls[t]
        /\ pc'[t] \in {"walk", "link"} => pc[t] \in {"walk", "link"} /\ at'[t][1] >= at[t][1]

LEMMA NodeFacts ==
  /\ Root \in Node /\ Root[2] = Past /\ Root[1] = 0
  /\ \A n \in Node : n[1] \in 0..Depth /\ n[2] \in Call /\ n = <<n[1], n[2]>>
  /\ \A n \in Node : n[2] # Past => n[2][1] \in Thread /\ n[2][2] \in 1..MaxCalls
                                    /\ n[2] = <<n[2][1], n[2][2]>>
  /\ warm \in BOOLEAN => Top \in Node /\ Top[2] = Past /\ Top[1] \in 1..Depth
  /\ NoNode \notin Node /\ NoList \notin List
BY CallAssumption DEF Root, Past, Node, Call, Top, List

\* Walks meet no new nodes.
LEMMA SteadyPoints ==
  ASSUME TypeOK, NEW t \in Thread, Steady(t), NEW n \in Node, Pointed(n)'
  PROVE  Pointed(n) \/ n = Root
<1>1. CASE \E m \in Node : child'[m] = n
  BY <1>1 DEF Steady, Pointed
<1>2. CASE \E u \in Thread : at'[u] = n
  <2>1. PICK u \in Thread : at'[u] = n
    BY <1>2
  <2>2. CASE u # t
    BY <2>1, <2>2 DEF Steady, Pointed
  <2>3. CASE u = t
    <3>1. CASE at'[t] \in {at[t], Root}
      BY <2>1, <2>3, <3>1 DEF Pointed
    <3>2. CASE at'[t] = child[at[t]]
      <4>1. at[t] \in Node
        BY DEF TypeOK
      <4> QED
        BY <2>1, <2>3, <3>2, <4>1 DEF Pointed
    <3> QED
      BY <3>1, <3>2 DEF Steady
  <2> QED
    BY <2>2, <2>3
<1> QED
  BY <1>1, <1>2 DEF Pointed

LEMMA SteadyKeeps ==
  ASSUME TypeOK, TypeOK', TreeInv, NEW t \in Thread, Steady(t)
  PROVE  TreeInv'
<1> USE NodeFacts
<1>1. at[t] \in Node /\ at'[t] \in Node /\ child \in [Node -> Node \cup {NoNode}]
  BY DEF TypeOK
<1>2. \A n \in Node : Complete(n) => Complete(n)'
  BY DEF Steady, Complete, CompleteIn
<1>3. Top' = Top /\ Top \in Node /\ Top[2] = Past /\ Top[1] \in 1..Depth
  <2>1. warm' = warm /\ warm \in BOOLEAN
    BY DEF Steady, TypeOK
  <2> QED
    BY <2>1, Zenon DEF Top
<1>4. Levels'
  <2>1. \A n \in Node : child'[n] # NoNode => child'[n][1] = n[1] + 1
    BY DEF Steady, TreeInv, Levels
  <2>2. ASSUME NEW u \in Thread, pc'[u] \in {"values", "setlist", "append"} PROVE at'[u][1] = Depth
    <3>1. CASE u = t
      BY <2>2, <3>1 DEF Steady
    <3>2. CASE u # t
      BY <2>2, <3>2 DEF Steady, TreeInv, Levels
    <3> QED
      BY <3>1, <3>2
  <2> QED
    BY <2>1, <2>2 DEF Levels
<1>5. MakersFinish'
  <2> SUFFICES ASSUME NEW n \in Node, n[2] # Past, Pointed(n)', ~ Complete(n)'
               PROVE  at'[n[2][1]] = n /\ pc'[n[2][1]] \in Making
    BY DEF MakersFinish
  <2>1. Pointed(n)
    BY SteadyPoints
  <2>2. at[n[2][1]] = n /\ pc[n[2][1]] \in Making /\ n[2][1] \in Thread
    BY <1>2, <2>1 DEF TreeInv, MakersFinish
  <2>3. CASE n[2][1] = t
    <3>1. ~ CompleteIn(at[t], child', listOf')
      BY <2>2, <2>3 DEF Complete
    <3> QED
      BY <2>2, <2>3, <3>1 DEF Steady
  <2>4. CASE n[2][1] # t
    BY <2>2, <2>4 DEF Steady
  <2> QED
    BY <2>3, <2>4
<1>6. PastLinked'
  <2>1. \A n \in Node : n[2] = Past /\ Pointed(n)' => n[1] <= Top'[1]
    BY <1>3, SteadyPoints DEF TreeInv, PastLinked
  <2>2. \A l \in 0..(Top'[1] - 1) : child'[<<l, Past>>] # NoNode
    BY <1>3 DEF Steady, TreeInv, PastLinked
  <2>3. ASSUME NEW u \in Thread, pc'[u] = "link", at'[u][2] = Past PROVE at'[u] = Top'
    <3>1. CASE u = t
      <4>1. at'[t] = at[t] /\ child[at[t]] = NoNode
        BY <2>3, <3>1 DEF Steady
      <4>2. Pointed(at[t])
        BY DEF Pointed
      <4>3. at[t] = <<at[t][1], Past>> /\ at[t][1] <= Top[1]
        BY <1>1, <2>3, <3>1, <4>1, <4>2 DEF TreeInv, PastLinked
      <4>4. ~ (at[t][1] < Top[1])
        BY <1>1, <1>3, <4>1, <4>3 DEF TreeInv, PastLinked
      <4>5. Top = <<Top[1], Past>> /\ at[t][1] = Top[1]
        BY <1>1, <1>3, <4>3, <4>4
      <4> QED
        BY <1>3, <3>1, <4>1, <4>3, <4>5
    <3>2. CASE u # t
      BY <1>3, <2>3, <3>2 DEF Steady, TreeInv, PastLinked
    <3> QED
      BY <3>1, <3>2
  <2> QED
    BY <2>1, <2>2, <2>3 DEF PastLinked
<1>7. TopFirst'
  <2> SUFFICES ASSUME ~ Complete(Top)'
               PROVE  /\ \A n \in Node : Pointed(n)' => n[2] = Past
                      /\ cached' = Nobody
                      /\ \A u \in Thread : pc'[u] \in Making \cup {"idle"}
    BY DEF TopFirst
  <2>1. ~ Complete(Top)
    BY <1>2, <1>3 DEF Complete
  <2>2. /\ \A n \in Node : Pointed(n) => n[2] = Past
        /\ cached = Nobody
        /\ \A u \in Thread : pc[u] \in Making \cup {"idle"}
    BY <2>1 DEF TreeInv, TopFirst
  <2>3. \A n \in Node : Pointed(n)' => n[2] = Past
    BY <2>2, SteadyPoints
  <2>4. cached' = Nobody
    BY <2>2 DEF Steady
  <2>5. pc'[t] \in Making \cup {"idle"}
    <3> SUFFICES ASSUME at[t][1] = Depth, CompleteIn(at[t], child', listOf') PROVE FALSE
      BY <2>2 DEF Steady
    <3>1. Pointed(at[t])
      BY DEF Pointed
    <3>2. at[t] = <<Depth, Past>> /\ Depth <= Top[1]
      BY <1>1, <2>2, <3>1 DEF TreeInv, PastLinked
    <3>3. at[t] = Top
      BY <1>3, <3>2, CallAssumption
    <3> QED
      BY <1>3, <3>3 DEF Complete
  <2> QED
    BY <2>2, <2>3, <2>4, <2>5 DEF Steady
<1>8. Unmade'
  <2> SUFFICES ASSUME NEW u \in Thread, NEW k \in 1..MaxCalls, NEW l \in 0..Depth,
                      k > calls'[u] \/ (k = calls'[u] /\ pc'[u] \in {"walk", "link"} /\ l > at'[u][1])
               PROVE  /\ child'[<<l, <<u, k>>>>] = NoNode /\ listOf'[<<l, <<u, k>>>>] = NoList
                      /\ ~ Pointed(<<l, <<u, k>>>>)'
    BY DEF Unmade
  <2> DEFINE n == <<l, <<u, k>>>>
  <2>1. n \in Node /\ n # Root
    BY CallAssumption DEF Node, Call, Root, Past
  <2>2. k > calls[u] \/ (k = calls[u] /\ pc[u] \in {"walk", "link"} /\ l > at[u][1])
    <3>1. CASE u # t
      BY <3>1 DEF Steady
    <3>2. CASE u = t
      <4>1. calls[t] \in Nat /\ calls'[t] \in Nat /\ at[t][1] \in Nat /\ at'[t][1] \in Nat
        BY <1>1 DEF TypeOK
      <4> QED
        BY <3>2, <4>1 DEF Steady
    <3> QED
      BY <3>1, <3>2
  <2>3. child[n] = NoNode /\ listOf[n] = NoList /\ ~ Pointed(n)
    BY <2>2 DEF TreeInv, Unmade
  <2>4. n # at[t]
    BY <2>3 DEF Pointed
  <2>5. child'[n] = NoNode /\ listOf'[n] = NoList
    BY <2>1, <2>3, <2>4 DEF Steady
  <2>6. ~ Pointed(n)'
    BY <2>1, <2>3, SteadyPoints
  <2> QED
    BY <2>5, <2>6
<1> QED
  BY <1>4, <1>5, <1>6, <1>7, <1>8 DEF TreeInv

\* Every step but the making of a node is of that kind.
LEMMA StepsAreSteady ==
  ASSUME TypeOK, Ready, TreeInv, NEW t \in Thread, Step(t), ~ Link(t)
  PROVE  Steady(t)
<1> USE NodeFacts
<1>1. /\ at[t] \in Node /\ at[t][1] \in 0..Depth /\ calls[t] \in 0..MaxCalls
      /\ DOMAIN at = Thread /\ DOMAIN pc = Thread /\ DOMAIN calls = Thread
      /\ DOMAIN listOf = Node /\ child \in [Node -> Node \cup {NoNode}]
  BY DEF TypeOK
<1>2. warm' = warm /\ Depth \in Nat \ {0}
  BY CallAssumption DEF Step
<1>3. ASSUME NEW v, NEW w, DOMAIN v = Thread, NEW x, w = [v EXCEPT ![t] = x]
      PROVE  w[t] = x /\ \A u \in Thread \ {t} : w[u] = v[u]
  BY <1>3
<1>4. \A p : Goto(t, p) => pc'[t] = p /\ \A u \in Thread \ {t} : pc'[u] = pc[u]
  BY <1>1 DEF Goto
<1> DEFINE Stays == /\ UNCHANGED <<child, listOf, at, calls>>
                    /\ \A u \in Thread \ {t} : pc'[u] = pc[u]
           Jumps == /\ UNCHANGED <<child, listOf, calls>> /\ at'[t] = Root
                    /\ \A u \in Thread \ {t} : pc'[u] = pc[u] /\ at'[u] = at[u]
           Down == /\ UNCHANGED <<child, listOf, calls, pc>>
                   /\ at[t][1] < Depth /\ child[at[t]] # NoNode /\ at'[t] = child[at[t]]
                   /\ \A u \in Thread \ {t} : at'[u] = at[u]
\* Steps outside registration.
<1>5. ASSUME Stays \/ Jumps \/ Down, pc[t] \notin Making \cup {"idle"},
             pc'[t] \notin {"walk", "link", "values", "setlist", "append"}
      PROVE  Steady(t)
  <2>1. CASE Stays
    BY <1>2, <1>5, <2>1 DEF Steady, Making
  <2>2. CASE Jumps
    BY <1>2, <1>5, <2>2 DEF Steady, Making
  <2>3. CASE Down
    BY <1>2, <1>5, <2>3 DEF Steady, Making
  <2> QED
    BY <1>5, <2>1, <2>2, <2>3
<1>6. Descend(t) /\ UNCHANGED <<child, listOf, calls, pc>> => Down
  BY <1>1 DEF Descend
<1>7. CASE Start(t)
  <2>1. /\ pc[t] = "idle" /\ pc'[t] = "walk" /\ at'[t] = Root /\ calls'[t] = calls[t] + 1
        /\ UNCHANGED <<child, listOf, cached>>
        /\ \A u \in Thread \ {t} : pc'[u] = pc[u] /\ at'[u] = at[u] /\ calls'[u] = calls[u]
    BY <1>1, <1>4, <1>7 DEF Start, treeVars
  <2> QED
    BY <1>2, <2>1 DEF Steady, Making
<1>8. CASE Walk(t)
  <2>1. CASE Descend(t) /\ UNCHANGED pc
    <3>1. Down
      BY <1>6, <1>8, <2>1 DEF Walk, treeVars
    <3>2. at'[t][1] = at[t][1] + 1
      BY <1>1, <3>1 DEF TreeInv, Levels
    <3>3. CompleteIn(at[t], child', listOf')
      BY <3>1 DEF CompleteIn
    <3>4. pc[t] = "walk" /\ UNCHANGED cached
      BY <1>8 DEF Walk
    <3> QED
      BY <1>1, <1>2, <3>1, <3>2, <3>3, <3>4 DEF Steady, Making
  <2>2. CASE ~ (Descend(t) /\ UNCHANGED pc)
    <3>1. /\ pc[t] = "walk" /\ Stays /\ UNCHANGED cached
          /\ \/ pc'[t] = "values" /\ at[t][1] = Depth
             \/ pc'[t] = "link" /\ at[t][1] < Depth /\ child[at[t]] = NoNode
      BY <1>4, <1>8, <2>2 DEF Walk, treeVars
    <3> QED
      BY <1>1, <1>2, <3>1 DEF Steady, Making
  <2> QED
    BY <2>1, <2>2
<1>9. CASE Values(t)
  <2>1. /\ pc[t] = "values" /\ Stays /\ UNCHANGED cached /\ at[t][1] = Depth
        /\ \/ pc'[t] = "setlist"
           \/ pc'[t] = "append" /\ listOf[at[t]] # NoList
    BY <1>4, <1>9 DEF Values, treeVars, threadVars, TreeInv, Levels
  <2>2. pc'[t] = "append" => CompleteIn(at[t], child', listOf')
    BY <1>2, <2>1 DEF CompleteIn
  <2> QED
    BY <1>2, <2>1, <2>2 DEF Steady, Making
<1>10. CASE SetList(t)
  <2>1. /\ pc[t] = "setlist" /\ pc'[t] = "append" /\ UNCHANGED <<child, at, calls, cached>>
        /\ at[t][1] = Depth /\ \A u \in Thread \ {t} : pc'[u] = pc[u]
    BY <1>4, <1>10 DEF SetList, threadVars, TreeInv, Levels
  <2>2. listOf' = [listOf EXCEPT ![at[t]] = CallOf(t)] /\ CallOf(t) # NoList
    <3>1. calls[t] >= 1
      BY <2>1 DEF Ready
    <3>2. CallOf(t) \in List
      BY <1>1, <3>1, CallAssumption DEF CallOf, List, Call
    <3> QED
      BY <1>10, <3>2 DEF SetList
  <2>3. \A n \in Node : listOf'[n] = listOf[n] \/ (n = at[t] /\ listOf'[n] # NoList)
    BY <1>1, <2>2
  <2>4. CompleteIn(at[t], child', listOf')
    BY <1>1, <1>2, <2>1, <2>2 DEF CompleteIn
  <2> QED
    BY <1>2, <2>1, <2>3, <2>4 DEF Steady, Making
<1>11. CASE AppendHandler(t)
  BY <1>4, <1>5, <1>11 DEF AppendHandler, threadVars, Making
<1>12. CASE Registered(t)
  BY <1>4, <1>5, <1>12 DEF Registered, treeVars, Making
<1>13. CASE Lookup(t)
  <2>1. Jumps /\ pc[t] = "lookup" /\ pc'[t] \in {"search", "handlers"}
    BY <1>1, <1>4, <1>13 DEF Lookup, treeVars
  <2> QED
    BY <1>5, <2>1 DEF Making
<1>14. CASE Search(t)
  <2>1. pc[t] = "search" /\ (Down \/ (Stays /\ pc'[t] = "store"))
    BY <1>4, <1>6, <1>14 DEF Search, treeVars
  <2> QED
    BY <1>5, <2>1 DEF Making
<1>15. CASE Store(t)
  BY <1>4, <1>5, <1>15 DEF Store, treeVars, threadVars, Making
<1>16. CASE RunHandler(t)
  <2>1. pc[t] = "handlers" /\ Stays /\ pc'[t] \in {"lock", "handlers"}
    BY <1>4, <1>16 DEF RunHandler, treeVars
  <2> QED
    BY <1>5, <2>1 DEF Making
<1>17. CASE Acquire(t)
  BY <1>4, <1>5, <1>17 DEF Acquire, treeVars, threadVars, Making
<1>18. CASE Sign(t)
  BY <1>4, <1>5, <1>18 DEF Sign, treeVars, Making
<1>19. CASE EmitDone(t)
  BY <1>4, <1>5, <1>19 DEF EmitDone, treeVars, threadVars, Making
<1>20. CASE SendAndRetry(t)
  BY <1>4, <1>5, <1>20 DEF SendAndRetry, treeVars, Making
<1>21. CASE SendAndEnd(t)
  <2>1. Jumps /\ pc[t] = "send" /\ pc'[t] = "remove"
    BY <1>1, <1>4, <1>21 DEF SendAndEnd, treeVars
  <2> QED
    BY <1>5, <2>1 DEF Making
<1>22. CASE Remove(t)
  <2>1. pc[t] = "remove" /\ (Down \/ (Stays /\ pc'[t] \in {"idle", "failed", "removed"}))
    BY <1>4, <1>6, <1>22 DEF Remove
  <2> QED
    BY <1>5, <2>1 DEF Making
<1>23. CASE Unregistered(t)
  BY <1>4, <1>5, <1>23 DEF Unregistered, treeVars, threadVars, Making
<1>24. CASE Fail(t)
  BY <1>4, <1>5, <1>24 DEF Fail, treeVars, threadVars, Making
<1> QED
  BY <1>7, <1>8, <1>9, <1>10, <1>11, <1>12, <1>13, <1>14, <1>15, <1>16, <1>17, <1>18, <1>19,
     <1>20, <1>21, <1>22, <1>23, <1>24 DEF Step, Register, Emit, Finish

\* A new node is bare, and hangs where its maker stood.
LEMMA LinkMakes ==
  ASSUME TypeOK, Ready, TreeInv, NEW t \in Thread, Link(t), warm' = warm
  PROVE  LET new == <<at[t][1] + 1, CallOf(t)>>
         IN  /\ new \in Node /\ new[2] # Past /\ new[1] <= Depth /\ new # at[t]
             /\ child[new] = NoNode /\ listOf[new] = NoList /\ ~ Pointed(new)
             /\ at[t][1] < Depth
             /\ child' = [child EXCEPT ![at[t]] = new] /\ listOf' = listOf
             /\ at' = [at EXCEPT ![t] = new] /\ at'[t] = new /\ pc'[t] = "walk" /\ pc[t] = "link"
             /\ \A u \in Thread \ {t} : pc'[u] = pc[u] /\ at'[u] = at[u]
             /\ UNCHANGED <<calls, cached, contents>>
             /\ \A n \in Node : Pointed(n)' => Pointed(n) \/ n = new
<1> DEFINE new == <<at[t][1] + 1, CallOf(t)>>
<1>1. /\ at[t] \in Node /\ at[t][1] \in 0..Depth /\ calls[t] \in 1..MaxCalls /\ at[t][1] < Depth
      /\ DOMAIN at = Thread /\ DOMAIN pc = Thread /\ pc[t] = "link"
      /\ child \in [Node -> Node \cup {NoNode}]
  BY NodeFacts, CallAssumption DEF Link, Ready, TypeOK
<1>2. new \in Node /\ new[2] # Past /\ new[1] <= Depth /\ new # at[t]
  BY <1>1, CallAssumption DEF CallOf, Node, Call, Past
<1>3. child[new] = NoNode /\ listOf[new] = NoList /\ ~ Pointed(new)
  <2>1. /\ at[t][1] + 1 \in 0..Depth /\ at[t][1] + 1 > at[t][1]
    BY <1>1, CallAssumption
  <2> QED
    BY <1>1, <2>1 DEF TreeInv, Unmade, CallOf
<1>4. /\ child' = [child EXCEPT ![at[t]] = new] /\ listOf' = listOf
      /\ at' = [at EXCEPT ![t] = new] /\ pc' = [pc EXCEPT ![t] = "walk"]
      /\ UNCHANGED <<calls, cached, contents>>
  BY DEF Link, Goto
<1>5. /\ at'[t] = new /\ pc'[t] = "walk"
      /\ \A u \in Thread \ {t} : pc'[u] = pc[u] /\ at'[u] = at[u]
  BY <1>1, <1>4
<1> HIDE DEF new
<1>6. ASSUME NEW n \in Node, Pointed(n)', n # new PROVE Pointed(n)
  <2>1. CASE \E m \in Node : child'[m] = n
    BY <1>1, <1>4, <1>6, <2>1 DEF Pointed
  <2>2. CASE \E u \in Thread : at'[u] = n
    BY <1>5, <1>6, <2>2 DEF Pointed
  <2> QED
    BY <1>6, <2>1, <2>2 DEF Pointed
<1> USE DEF new
<1> QED
  BY <1>1, <1>2, <1>3, <1>4, <1>5, <1>6

LEMMA LinkKeeps ==
  ASSUME TypeOK, TypeOK', Ready, TreeInv, NEW t \in Thread, Link(t), warm' = warm
  PROVE  TreeInv'
<1> USE NodeFacts
<1> DEFINE new == <<at[t][1] + 1, CallOf(t)>>
<1>1. /\ new \in Node /\ new[2] # Past /\ new[1] <= Depth /\ new # at[t]
      /\ child[new] = NoNode /\ listOf[new] = NoList /\ ~ Pointed(new)
      /\ at[t][1] < Depth
      /\ child' = [child EXCEPT ![at[t]] = new] /\ listOf' = listOf
      /\ at'[t] = new /\ pc'[t] = "walk" /\ pc[t] = "link"
      /\ \A u \in Thread \ {t} : pc'[u] = pc[u] /\ at'[u] = at[u]
      /\ UNCHANGED <<calls, cached>>
      /\ \A n \in Node : Pointed(n)' => Pointed(n) \/ n = new
  BY LinkMakes
<1>2. new[1] = at[t][1] + 1 /\ new[2] = CallOf(t) /\ new[2][1] = t /\ new[2][2] = calls[t]
  BY DEF CallOf
<1>3. at[t] \in Node /\ child \in [Node -> Node \cup {NoNode}] /\ calls[t] \in Nat
  BY DEF TypeOK
<1> HIDE DEF new
<1>4. child'[at[t]] = new /\ \A n \in Node : n # at[t] => child'[n] = child[n]
  BY <1>1, <1>3
<1>5. \A n \in Node : Complete(n) => Complete(n)'
  BY <1>1, <1>4 DEF Complete, CompleteIn
<1>6. \A n \in Node : n = at[t] => Complete(n)'
  BY <1>1, <1>4 DEF Complete, CompleteIn
<1>7. Top' = Top /\ Top \in Node /\ Top[2] = Past /\ Top[1] \in 1..Depth
  <2>1. warm \in BOOLEAN
    BY DEF TypeOK
  <2> QED
    BY <2>1, Zenon DEF Top
<1>8. Levels'
  <2>1. \A n \in Node : child'[n] # NoNode => child'[n][1] = n[1] + 1
    BY <1>2, <1>4 DEF TreeInv, Levels
  <2>2. \A u \in Thread : pc'[u] \in {"values", "setlist", "append"} => at'[u][1] = Depth
    BY <1>1 DEF TreeInv, Levels
  <2> QED
    BY <2>1, <2>2 DEF Levels
<1>9. MakersFinish'
  <2> SUFFICES ASSUME NEW n \in Node, n[2] # Past, Pointed(n)', ~ Complete(n)'
               PROVE  at'[n[2][1]] = n /\ pc'[n[2][1]] \in Making
    BY DEF MakersFinish
  <2>1. CASE n = new
    BY <1>1, <1>2, <2>1 DEF Making
  <2>2. CASE n # new
    <3>1. at[n[2][1]] = n /\ pc[n[2][1]] \in Making /\ n[2][1] \in Thread
      BY <1>1, <1>5, <2>2 DEF TreeInv, MakersFinish
    <3>2. n[2][1] # t
      BY <1>6, <3>1
    <3> QED
      BY <1>1, <3>1, <3>2
  <2> QED
    BY <2>1, <2>2
<1>10. PastLinked'
  <2>1. \A n \in Node : n[2] = Past /\ Pointed(n)' => n[1] <= Top'[1]
    BY <1>1, <1>7 DEF TreeInv, PastLinked
  <2>2. ASSUME NEW l \in 0..(Top[1] - 1) PROVE child'[<<l, Past>>] # NoNode
    <3>1. <<l, Past>> \in Node
      BY <1>7, CallAssumption DEF Node, Call, Past
    <3> QED
      BY <1>1, <1>4, <3>1 DEF TreeInv, PastLinked
  <2>3. \A u \in Thread : pc'[u] = "link" /\ at'[u][2] = Past => at'[u] = Top'
    BY <1>1, <1>7 DEF TreeInv, PastLinked
  <2> QED
    BY <1>7, <2>1, <2>2, <2>3 DEF PastLinked
<1>11. TopFirst'
  <2> SUFFICES ASSUME ~ Complete(Top)' PROVE FALSE
    BY DEF TopFirst
  <2>1. ~ Complete(Top)
    BY <1>5, <1>7 DEF Complete
  <2>2. Pointed(at[t])
    BY DEF Pointed
  <2>3. at[t][2] = Past
    BY <1>3, <2>1, <2>2 DEF TreeInv, TopFirst
  <2>4. at[t] = Top
    BY <1>1, <2>3 DEF TreeInv, PastLinked
  <2> QED
    BY <1>3, <1>6, <1>7, <2>4 DEF Complete
<1>12. Unmade'
  <2> SUFFICES ASSUME NEW u \in Thread, NEW k \in 1..MaxCalls, NEW l \in 0..Depth,
                      k > calls'[u] \/ (k = calls'[u] /\ pc'[u] \in {"walk", "link"} /\ l > at'[u][1])
               PROVE  /\ child'[<<l, <<u, k>>>>] = NoNode /\ listOf'[<<l, <<u, k>>>>] = NoList
                      /\ ~ Pointed(<<l, <<u, k>>>>)'
    BY DEF Unmade
  <2> DEFINE n == <<l, <<u, k>>>>
  <2>1. n \in Node /\ n[1] = l /\ n[2][1] = u /\ n[2][2] = k
    BY CallAssumption DEF Node, Call
  <2>2. k > calls[u] \/ (k = calls[u] /\ pc[u] \in {"walk", "link"} /\ l > at[u][1])
    <3>1. CASE u # t
      BY <1>1, <3>1
    <3>2. CASE u = t
      BY <1>1, <1>2, <1>3, <3>2
    <3> QED
      BY <3>1, <3>2
  <2>3. child[n] = NoNode /\ listOf[n] = NoList /\ ~ Pointed(n)
    BY <2>2 DEF TreeInv, Unmade
  <2>4. n # new
    <3> SUFFICES ASSUME n = new PROVE FALSE
      OBVIOUS
    <3>1. u = t /\ k = calls[t] /\ l = at[t][1] + 1
      BY <1>2, <2>1
    <3>2. l > at'[t][1]
      BY <1>1, <1>3, <3>1
    <3> QED
      BY <1>1, <1>2, <1>3, <3>1, <3>2
  <2>5. n # at[t]
    BY <2>3 DEF Pointed
  <2>6. child'[n] = NoNode /\ listOf'[n] = NoList
    BY <1>1, <1>4, <2>1, <2>3, <2>5
  <2>7. ~ Pointed(n)'
    BY <1>1, <2>1, <2>3, <2>4
  <2> HIDE DEF n
  <2> QED
    BY <2>6, <2>7 DEF n
<1> QED
  BY <1>8, <1>9, <1>10, <1>11, <1>12 DEF TreeInv

\* A walk that ends early, while something is cached, meets a call that is still
\* making the node it ends at.
LEMMA SomeoneMaking ==
  ASSUME TypeOK, TreeInv, cached # Nobody, NEW n \in Node, Pointed(n), ~ Complete(n)
  PROVE  \E u \in Thread : pc[u] \in Making
<1> USE NodeFacts
<1>1. Top \in Node /\ Top[2] = Past /\ Top[1] \in 1..Depth /\ Complete(Top)
  BY DEF TypeOK, TreeInv, TopFirst
<1>2. n[2] # Past
  <2> SUFFICES ASSUME n[2] = Past PROVE FALSE
    OBVIOUS
  <2>1. n[1] <= Top[1] /\ n[1] \in 0..Depth /\ n = <<n[1], Past>>
    BY DEF TreeInv, PastLinked
  <2>2. n[1] # Top[1]
    BY <1>1, <2>1
  <2>3. n[1] \in 0..(Top[1] - 1) /\ n[1] < Depth
    BY <1>1, <2>1, <2>2, CallAssumption
  <2>4. child[n] # NoNode
    BY <2>1, <2>3 DEF TreeInv, PastLinked
  <2> QED
    BY <2>3, <2>4 DEF Complete, CompleteIn
<1>3. n[2][1] \in Thread /\ pc[n[2][1]] \in Making
  BY <1>2 DEF TreeInv, MakersFinish
<1> QED
  BY <1>3

LEMMA CacheKeeps ==
  ASSUME TypeOK, Ready, TreeInv, CacheOwed, NEW t \in Thread, Step(t)
  PROVE  CacheOwed'
<1> DEFINE Active(q) == q \notin {"idle", "failed"}
<1> SUFFICES ASSUME cached' # Nobody PROVE \E u \in Thread : Active(pc'[u])
  BY DEF CacheOwed
<1>1. DOMAIN pc = Thread /\ at[t] \in Node
  BY DEF TypeOK
<1>2. \A q : Goto(t, q) => pc'[t] = q /\ \A u \in Thread \ {t} : pc'[u] = pc[u]
  BY <1>1 DEF Goto
<1>3. ASSUME cached' = cached, Active(pc[t]) => Active(pc'[t]), \A u \in Thread \ {t} : pc'[u] = pc[u]
      PROVE  \E u \in Thread : Active(pc'[u])
  BY <1>3 DEF CacheOwed
<1>4. CASE Start(t)
  BY <1>2, <1>3, <1>4 DEF Start
<1>5. CASE Walk(t)
  <2>1. Active(pc'[t]) /\ (\A u \in Thread \ {t} : pc'[u] = pc[u]) /\ cached' = cached
    BY <1>2, <1>5 DEF Walk
  <2> QED
    BY <1>3, <2>1
<1>6. CASE Link(t)
  BY <1>2, <1>3, <1>6 DEF Link
<1>7. CASE Values(t)
  BY <1>2, <1>3, <1>7 DEF Values
<1>8. CASE SetList(t)
  BY <1>2, <1>3, <1>8 DEF SetList
<1>9. CASE AppendHandler(t)
  BY <1>2, <1>3, <1>9 DEF AppendHandler
<1>10. CASE Registered(t)
  BY <1>10 DEF Registered
<1>11. CASE Lookup(t)
  <2>1. Active(pc'[t]) /\ (\A u \in Thread \ {t} : pc'[u] = pc[u]) /\ cached' = cached
    BY <1>2, <1>11 DEF Lookup
  <2> QED
    BY <1>3, <2>1
<1>12. CASE Search(t)
  <2>1. Active(pc'[t]) /\ (\A u \in Thread \ {t} : pc'[u] = pc[u]) /\ cached' = cached
    BY <1>2, <1>12 DEF Search
  <2> QED
    BY <1>3, <2>1
<1>13. CASE Store(t)
  <2>1. pc'[t] = "handlers"
    BY <1>2, <1>13 DEF Store
  <2> QED
    BY <2>1
<1>14. CASE RunHandler(t)
  <2>1. Active(pc'[t]) /\ (\A u \in Thread \ {t} : pc'[u] = pc[u]) /\ cached' = cached
    BY <1>2, <1>14 DEF RunHandler
  <2> QED
    BY <1>3, <2>1
<1>15. CASE Acquire(t)
  BY <1>2, <1>3, <1>15 DEF Acquire
<1>16. CASE Sign(t)
  BY <1>2, <1>3, <1>16 DEF Sign
<1>17. CASE EmitDone(t)
  BY <1>2, <1>3, <1>17 DEF EmitDone
<1>18. CASE SendAndRetry(t)
  BY <1>2, <1>3, <1>18 DEF SendAndRetry
<1>19. CASE SendAndEnd(t)
  BY <1>2, <1>3, <1>19 DEF SendAndEnd
<1>20. CASE Remove(t)
  <2>1. pc[t] = "remove" /\ cached' = cached /\ \A u \in Thread \ {t} : pc'[u] = pc[u]
    BY <1>2, <1>20 DEF Remove
  <2>2. CASE Active(pc'[t])
    BY <1>3, <2>1, <2>2
  <2>3. CASE ~ Active(pc'[t])
    <3>1. ~ Complete(at[t])
      BY NodeFacts, CallAssumption, <1>1, <1>2, <1>20, <2>1, <2>3 DEF Remove, Complete, CompleteIn
    <3>2. Pointed(at[t])
      BY DEF Pointed
    <3>3. PICK u \in Thread : pc[u] \in Making
      BY <1>1, <2>1, <3>1, <3>2, SomeoneMaking
    <3> QED
      BY <2>1, <3>3 DEF Making
  <2> QED
    BY <2>2, <2>3
<1>21. CASE Unregistered(t)
  BY <1>21 DEF Unregistered
<1>22. CASE Fail(t)
  BY <1>2, <1>3, <1>22 DEF Fail
<1> QED
  BY <1>4, <1>5, <1>6, <1>7, <1>8, <1>9, <1>10, <1>11, <1>12, <1>13, <1>14, <1>15, <1>16, <1>17,
     <1>18, <1>19, <1>20, <1>21, <1>22 DEF Step, Register, Emit, Finish

\* A thread that is in a list at most once is not in it any more after Without.
LEMMA WithoutFacts ==
  ASSUME NEW s \in Seq(Thread), NEW t \in Thread
  PROVE  /\ ~ InSeq(t, s) => Without(s, t) = s
         /\ (\A i, j \in DOMAIN s : s[i] = t /\ s[j] = t => i = j) => ~ InSeq(t, Without(s, t))
         /\ \A u \in Thread : InSeq(u, Without(s, t)) => InSeq(u, s)
         /\ \A u \in Thread : (\A i, j \in DOMAIN s : s[i] = u /\ s[j] = u => i = j) =>
              \A i, j \in DOMAIN Without(s, t) : Without(s, t)[i] = u /\ Without(s, t)[j] = u => i = j
<1>1. CASE ~ InSeq(t, s)
  <2>1. Without(s, t) = s
    BY <1>1 DEF Without, InSeq
  <2> QED
    BY <1>1, <2>1
<1>2. CASE InSeq(t, s)
  <2> DEFINE T == {i \in 1..Len(s) : s[i] = t}
             IsFirst(i) == i \in DOMAIN s /\ s[i] = t /\ \A j \in 1..(i - 1) : s[j] # t
             first == CHOOSE i \in DOMAIN s : s[i] = t /\ \A j \in 1..(i - 1) : s[j] # t
             At(j) == IF j < first THEN j ELSE j + 1
  <2>1. \E i \in DOMAIN s : s[i] = t /\ \A j \in 1..(i - 1) : s[j] # t
    <3>1. T # {} /\ Len(s) \in Nat /\ DOMAIN s = 1..Len(s)
      BY <1>2 DEF InSeq
    <3>2. PICK m \in T : \A k \in T : m <= k
      BY <3>1, LeastIndex
    <3>3. \A j \in 1..(m - 1) : s[j] # t
      BY <3>1, <3>2
    <3> QED
      BY <3>1, <3>3
  <2>2. first \in DOMAIN s /\ s[first] = t /\ \A j \in 1..(first - 1) : s[j] # t
    BY <2>1
  <2>3. Without(s, t) = [j \in 1..(Len(s) - 1) |-> IF j < first THEN s[j] ELSE s[j + 1]]
    BY <1>2 DEF Without, InSeq
  <2> HIDE DEF first
  <2>4. /\ Len(s) \in Nat /\ DOMAIN s = 1..Len(s) /\ first \in 1..Len(s)
        /\ DOMAIN Without(s, t) = 1..(Len(s) - 1)
    BY <2>2, <2>3
  <2>5. \A j \in DOMAIN Without(s, t) :
          Without(s, t)[j] = s[At(j)] /\ At(j) \in DOMAIN s /\ At(j) # first
    BY <2>3, <2>4
  <2>6. \A i, j \in DOMAIN Without(s, t) : At(i) = At(j) => i = j
    BY <2>4
  <2> HIDE DEF At
  <2>7. (\A i, j \in DOMAIN s : s[i] = t /\ s[j] = t => i = j) => ~ InSeq(t, Without(s, t))
    BY <2>2, <2>5 DEF InSeq
  <2>8. \A u \in Thread : InSeq(u, Without(s, t)) => InSeq(u, s)
    BY <2>5 DEF InSeq
  <2>9. ASSUME NEW u \in Thread, \A i, j \in DOMAIN s : s[i] = u /\ s[j] = u => i = j,
               NEW i \in DOMAIN Without(s, t), NEW j \in DOMAIN Without(s, t),
               Without(s, t)[i] = u, Without(s, t)[j] = u
        PROVE  i = j
    BY <2>5, <2>6, <2>9
  <2> QED
    BY <1>2, <2>7, <2>8, <2>9
<1> QED
  BY <1>1, <1>2

\* A chain after a node was made was one before, or ends in a node without a list.
LEMMA LinkChains ==
  ASSUME TypeOK, Ready, TreeInv, NEW t \in Thread, Link(t), warm' = warm,
         NEW p, Chain(p)', listOf'[p[Depth]] # NoList
  PROVE  Chain(p) /\ listOf' = listOf /\ contents' = contents
<1> DEFINE new == <<at[t][1] + 1, CallOf(t)>>
<1>1. /\ child[new] = NoNode /\ listOf[new] = NoList /\ new \in Node /\ new # at[t]
      /\ child' = [child EXCEPT ![at[t]] = new]
      /\ listOf' = listOf /\ contents' = contents
  BY LinkMakes
<1>2. child \in [Node -> Node \cup {NoNode}] /\ at[t] \in Node /\ Depth \in Nat \ {0}
  BY CallAssumption DEF TypeOK
<1> HIDE DEF new
<1>3. child'[at[t]] = new /\ \A n \in Node : n # at[t] => child'[n] = child[n]
  BY <1>1, <1>2
<1>4. p \in [0..Depth -> Node] /\ p[0] = Root /\ \A l \in 0..(Depth - 1) : child'[p[l]] = p[l + 1]
  BY DEF Chain
<1>5. ASSUME NEW l \in 0..(Depth - 1), p[l] = at[t] PROVE FALSE
  <2>1. p[l + 1] = new
    BY <1>3, <1>4, <1>5
  <2>2. l + 1 # Depth
    BY <1>1, <2>1
  <2>3. l + 1 \in 0..(Depth - 1) /\ l + 2 \in 0..Depth /\ (l + 1) + 1 = l + 2
    BY <1>2, <2>2
  <2>4. child'[p[l + 1]] = p[l + 2] /\ p[l + 2] \in Node
    BY <1>4, <2>3
  <2> QED
    BY <1>1, <1>3, <2>1, <2>4, NodeFacts
<1>6. \A l \in 0..(Depth - 1) : p[l] \in Node /\ p[l] # at[t]
  BY <1>2, <1>4, <1>5
<1> QED
  BY <1>1, <1>3, <1>4, <1>6 DEF Chain

LEMMA HeldKeeps ==
  ASSUME TypeOK, TypeOK', Ready, TreeInv, Held, NEW t \in Thread, Step(t)
  PROVE  Held'
<1> USE NodeFacts
<1> SUFFICES ASSUME NEW p \in [0..Depth -> Node], Chain(p)', listOf'[p[Depth]] # NoList,
                    NEW u \in Thread
             PROVE  HeldBy(u, p, contents[listOf[p[Depth]]])'
  BY DEF Held
<1> DEFINE s == contents[listOf[p[Depth]]]
           LeadsOn(v) == pc[v] \in Calling /\ (pc[v] = "remove" => at[v] = p[at[v][1]])
           Unique(v, q) == \A i, j \in DOMAIN q : q[i] = v /\ q[j] = v => i = j
<1> SUFFICES HeldBy(u, p, s)'
  OBVIOUS
\* Chains are those there were.
<1>1. Chain(p) /\ (~ Link(t) => child' = child)
  <2>1. CASE Link(t)
    BY <2>1, LinkChains DEF Step
  <2>2. CASE ~ Link(t)
    BY <2>2, StepsAreSteady DEF Chain, Steady
  <2> QED
    BY <2>1, <2>2
<1>2. listOf[p[Depth]] # NoList =>
        \A v \in Thread : InSeq(v, s) => LeadsOn(v) /\ Unique(v, s)
  BY <1>1 DEF Held, HeldBy
<1>3. /\ Depth \in Nat \ {0} /\ p[Depth] \in Node /\ p[0] = Root
      /\ \A l \in 0..(Depth - 1) : child[p[l]] = p[l + 1] /\ p[l] \in Node /\ p[l + 1] \in Node
  BY <1>1, CallAssumption DEF Chain
<1>4. /\ DOMAIN pc = Thread /\ DOMAIN at = Thread /\ at[t] \in Node /\ at[t][1] \in 0..Depth
      /\ DOMAIN listOf = Node /\ contents \in [List -> Seq(Thread)]
      /\ listOf[p[Depth]] \in List \cup {NoList} /\ listOf[at[t]] \in List \cup {NoList}
  BY <1>3 DEF TypeOK
<1>5. \A q : Goto(t, q) => pc'[t] = q /\ \A v \in Thread \ {t} : pc'[v] = pc[v]
  BY <1>4 DEF Goto
<1> HIDE DEF s
\* Steps that leave the lists alone.
<1>6. ASSUME listOf' = listOf, contents' = contents,
             \A v \in Thread \ {t} : pc'[v] = pc[v] /\ at'[v] = at[v],
             LeadsOn(t) => LeadsOn(t)'
      PROVE  HeldBy(u, p, s)'
  <2>1. s' = s /\ listOf[p[Depth]] # NoList
    BY <1>6 DEF s
  <2>2. ASSUME InSeq(u, s) PROVE LeadsOn(u)' /\ Unique(u, s)
    <3>1. LeadsOn(u) /\ Unique(u, s)
      BY <1>2, <2>1, <2>2
    <3>2. CASE u = t
      BY <1>6, <3>1, <3>2
    <3>3. CASE u # t
      BY <1>6, <3>1, <3>3
    <3> QED
      BY <3>2, <3>3
  <2> QED
    BY <2>1, <2>2 DEF HeldBy
<1>7. ASSUME listOf' = listOf, contents' = contents, at' = at,
             \A v \in Thread \ {t} : pc'[v] = pc[v],
             pc[t] \notin Calling \/ (pc'[t] \in Calling /\ pc'[t] # "remove")
      PROVE  HeldBy(u, p, s)'
  BY <1>6, <1>7
<1>8. CASE Start(t)
  <2>1. /\ listOf' = listOf /\ contents' = contents /\ pc[t] = "idle"
        /\ \A v \in Thread \ {t} : pc'[v] = pc[v] /\ at'[v] = at[v]
    BY <1>4, <1>5, <1>8 DEF Start, treeVars
  <2> QED
    BY <1>6, <2>1 DEF Calling
<1>9. CASE Walk(t)
  <2>1. /\ listOf' = listOf /\ contents' = contents /\ pc[t] = "walk"
        /\ \A v \in Thread \ {t} : pc'[v] = pc[v] /\ at'[v] = at[v]
    BY <1>4, <1>5, <1>9 DEF Walk, Descend, treeVars
  <2> QED
    BY <1>6, <2>1 DEF Calling
<1>10. CASE Link(t)
  <2>1. /\ listOf' = listOf /\ contents' = contents /\ pc[t] = "link"
        /\ \A v \in Thread \ {t} : pc'[v] = pc[v] /\ at'[v] = at[v]
    BY <1>4, <1>5, <1>10 DEF Link
  <2> QED
    BY <1>6, <2>1 DEF Calling
<1>11. CASE Values(t)
  BY <1>5, <1>7, <1>11 DEF Values, treeVars, threadVars, Calling
<1>12. CASE SetList(t)
  <2>1. /\ pc[t] = "setlist" /\ at' = at /\ \A v \in Thread \ {t} : pc'[v] = pc[v]
        /\ listOf' = [listOf EXCEPT ![at[t]] = CallOf(t)]
        /\ contents' = [contents EXCEPT ![CallOf(t)] = << >>]
    BY <1>5, <1>12 DEF SetList, threadVars
  <2>2. CallOf(t) \in List
    <3>1. calls[t] \in 1..MaxCalls
      BY <2>1, CallAssumption DEF Ready, TypeOK
    <3> QED
      BY <3>1 DEF CallOf, List, Call
  <2>3. CASE listOf'[p[Depth]] = CallOf(t)
    <3>1. s' = << >>
      BY <1>4, <2>1, <2>2, <2>3 DEF s
    <3> QED
      BY <3>1 DEF HeldBy, InSeq
  <2>4. CASE listOf'[p[Depth]] # CallOf(t)
    <3>1. listOf'[p[Depth]] = listOf[p[Depth]]
      BY <1>3, <1>4, <2>1, <2>4
    <3>2. s' = s
      BY <1>4, <2>1, <2>4, <3>1 DEF s
    <3>3. InSeq(u, s) => LeadsOn(u) /\ Unique(u, s) /\ u # t
      BY <1>2, <2>1, <3>1 DEF Calling
    <3> QED
      BY <2>1, <3>2, <3>3 DEF HeldBy
  <2> QED
    BY <2>3, <2>4
<1>13. CASE AppendHandler(t)
  <2>1. /\ pc[t] = "append" /\ pc'[t] = "added" /\ UNCHANGED <<at, listOf>>
        /\ \A v \in Thread \ {t} : pc'[v] = pc[v]
        /\ contents' = [contents EXCEPT ![listOf[at[t]]] = Append(@, t)]
    BY <1>5, <1>13 DEF AppendHandler, threadVars
  <2>2. listOf[p[Depth]] \in List /\ s \in Seq(Thread) /\ s' \in {s, Append(s, t)}
    BY <1>4, <2>1 DEF s
  <2>3. ~ InSeq(t, s)
    BY <1>2, <2>1, <2>2 DEF Calling
  <2>4. InSeq(u, s') => Unique(u, s') /\ (u = t \/ (u # t /\ LeadsOn(u)))
    <3>1. CASE s' = s
      BY <1>2, <2>2, <2>3, <3>1
    <3>2. CASE s' = Append(s, t)
      <4>1. /\ Len(s) \in Nat /\ DOMAIN s = 1..Len(s) /\ DOMAIN s' = 1..(Len(s) + 1)
            /\ s'[Len(s) + 1] = t /\ \A i \in 1..Len(s) : s'[i] = s[i]
        BY <2>2, <3>2
      <4>2. CASE u = t
        BY <2>3, <4>1, <4>2 DEF InSeq
      <4>3. CASE u # t
        <5>1. InSeq(u, s') => InSeq(u, s)
          BY <4>1, <4>3 DEF InSeq
        <5>2. InSeq(u, s) => LeadsOn(u) /\ Unique(u, s)
          BY <1>2, <2>2
        <5>3. Unique(u, s) => Unique(u, s')
          BY <4>1, <4>3
        <5> QED
          BY <4>3, <5>1, <5>2, <5>3
      <4> QED
        BY <4>2, <4>3
    <3> QED
      BY <2>2, <3>1, <3>2
  <2> QED
    BY <2>1, <2>4 DEF HeldBy, Calling
<1>14. CASE Registered(t)
  BY <1>5, <1>7, <1>14 DEF Registered, treeVars, Calling
<1>15. CASE Lookup(t)
  <2>1. /\ listOf' = listOf /\ contents' = contents /\ pc'[t] \in {"search", "handlers"}
        /\ \A v \in Thread \ {t} : pc'[v] = pc[v] /\ at'[v] = at[v]
    BY <1>4, <1>5, <1>15 DEF Lookup, treeVars
  <2> QED
    BY <1>6, <2>1 DEF Calling
<1>16. CASE Search(t)
  <2>1. /\ listOf' = listOf /\ contents' = contents /\ pc'[t] \in {"search", "store"}
        /\ \A v \in Thread \ {t} : pc'[v] = pc[v] /\ at'[v] = at[v]
    BY <1>4, <1>5, <1>16 DEF Search, Descend, treeVars
  <2> QED
    BY <1>6, <2>1 DEF Calling
<1>17. CASE Store(t)
  BY <1>5, <1>7, <1>17 DEF Store, treeVars, threadVars, Calling
<1>18. CASE RunHandler(t)
  <2>1. /\ listOf' = listOf /\ contents' = contents /\ at' = at
        /\ pc'[t] \in {"lock", "handlers"} /\ \A v \in Thread \ {t} : pc'[v] = pc[v]
    BY <1>5, <1>18 DEF RunHandler, treeVars
  <2> QED
    BY <1>7, <2>1 DEF Calling
<1>19. CASE Acquire(t)
  BY <1>5, <1>7, <1>19 DEF Acquire, treeVars, threadVars, Calling
<1>20. CASE Sign(t)
  BY <1>5, <1>7, <1>20 DEF Sign, treeVars, Calling
<1>21. CASE EmitDone(t)
  BY <1>5, <1>7, <1>21 DEF EmitDone, treeVars, threadVars, Calling
<1>22. CASE SendAndRetry(t)
  BY <1>5, <1>7, <1>22 DEF SendAndRetry, treeVars, Calling
<1>23. CASE SendAndEnd(t)
  <2>1. /\ listOf' = listOf /\ contents' = contents /\ pc'[t] = "remove" /\ at'[t] = Root
        /\ \A v \in Thread \ {t} : pc'[v] = pc[v] /\ at'[v] = at[v]
    BY <1>4, <1>5, <1>23 DEF SendAndEnd, treeVars
  <2> QED
    BY <1>3, <1>6, <2>1 DEF Calling
<1>24. CASE Remove(t)
  <2>1. pc[t] = "remove" /\ listOf' = listOf /\ child' = child
    BY <1>24 DEF Remove
  <2>2. CASE Descend(t) /\ UNCHANGED <<pc, contents>>
    <3>1. /\ at[t][1] < Depth /\ child[at[t]] # NoNode /\ at'[t] = child[at[t]]
          /\ \A v \in Thread \ {t} : at'[v] = at[v]
      BY <1>4, <2>2 DEF Descend
    <3>2. LeadsOn(t) => LeadsOn(t)'
      <4> SUFFICES ASSUME at[t] = p[at[t][1]] PROVE at'[t] = p[at'[t][1]]
        BY <2>1, <2>2 DEF Calling
      <4>1. at'[t] = p[at[t][1] + 1]
        <5>1. at[t][1] \in 0..(Depth - 1)
          BY <1>3, <1>4, <3>1
        <5>2. child[p[at[t][1]]] = p[at[t][1] + 1]
          BY <1>3, <5>1
        <5> QED
          BY <3>1, <5>2
      <4>2. at'[t][1] = at[t][1] + 1
        BY <1>4, <3>1 DEF TreeInv, Levels
      <4> QED
        BY <4>1, <4>2
    <3> QED
      BY <1>6, <2>1, <2>2, <3>1, <3>2
  <2>3. CASE at[t][1] < Depth /\ child[at[t]] = NoNode /\ Goto(t, "idle") /\ UNCHANGED <<at, contents>>
    <3>1. ~ LeadsOn(t)
      <4> SUFFICES ASSUME at[t] = p[at[t][1]] PROVE FALSE
        BY <2>1
      <4> QED
        BY <1>3, <1>4, <2>3
    <3> QED
      BY <1>5, <1>6, <2>1, <2>3, <3>1
  <2>4. CASE /\ at[t][1] = Depth /\ listOf[at[t]] = NoList /\ Goto(t, "failed")
             /\ UNCHANGED <<at, contents>>
    <3>1. ~ LeadsOn(t)
      <4> SUFFICES ASSUME at[t] = p[Depth] PROVE FALSE
        BY <2>1, <2>4
      <4> QED
        BY <2>1, <2>4
    <3> QED
      BY <1>5, <1>6, <2>1, <2>4, <3>1
  <2>5. CASE /\ at[t][1] = Depth /\ listOf[at[t]] # NoList /\ Goto(t, "removed") /\ UNCHANGED at
             /\ contents' = [contents EXCEPT ![listOf[at[t]]] = Without(@, t)]
    <3>1. listOf[p[Depth]] \in List /\ s \in Seq(Thread)
      BY <1>4, <2>1 DEF s
    <3>2. InSeq(t, s) => at[t] = p[Depth]
      BY <1>2, <2>1, <2>5, <3>1
    <3>3. s' = Without(s, t) \/ (s' = s /\ ~ InSeq(t, s))
      BY <1>4, <2>1, <2>5, <3>1, <3>2 DEF s
    <3>4. ~ InSeq(t, s')
      <4>1. Unique(t, s) \/ ~ InSeq(t, s)
        BY <1>2, <3>1
      <4> QED
        BY <3>1, <3>3, <4>1, WithoutFacts
    <3>5. ASSUME u # t, InSeq(u, s') PROVE LeadsOn(u)' /\ Unique(u, s')
      <4>1. InSeq(u, s)
        BY <3>1, <3>3, <3>5, WithoutFacts
      <4>2. LeadsOn(u) /\ Unique(u, s)
        BY <1>2, <3>1, <4>1
      <4>3. Unique(u, s')
        BY <3>1, <3>3, <4>2, WithoutFacts
      <4> QED
        BY <1>5, <2>5, <3>5, <4>2, <4>3
    <3> QED
      BY <3>4, <3>5 DEF HeldBy
  <2> QED
    BY <1>24, <2>2, <2>3, <2>4, <2>5 DEF Remove
<1>25. CASE Unregistered(t)
  BY <1>5, <1>7, <1>25 DEF Unregistered, treeVars, threadVars, Calling
<1>26. CASE Fail(t)
  BY <1>5, <1>7, <1>26 DEF Fail, treeVars, threadVars, Calling
<1> QED
  BY <1>8, <1>9, <1>10, <1>11, <1>12, <1>13, <1>14, <1>15, <1>16, <1>17, <1>18, <1>19, <1>20, <1>21,
     <1>22, <1>23, <1>24, <1>25, <1>26 DEF Step, Register, Emit, Finish

\* What the recursive definition of Reached says: there is such a function on every
\* initial part of the levels, the least level without one being impossible.
LEMMA ReachedEquation ==
  /\ Reached[0] = Root
  /\ \A l \in 1..Depth :
       Reached[l] = IF Reached[l - 1] = NoNode THEN NoNode ELSE child[Reached[l - 1]]
<1> DEFINE NodeAt(f, l) == IF l = 0 THEN Root ELSE IF f[l - 1] = NoNode THEN NoNode ELSE child[f[l - 1]]
           Solves(f, n) == f = [l \in 0..n |-> NodeAt(f, l)]
           Solvable(n) == \E f : Solves(f, n)
           Bad == {n \in 1..Depth : ~ Solvable(n)}
<1>1. Depth \in Nat
  BY CallAssumption
<1>2. Solvable(0)
  <2>1. Solves([l \in 0..0 |-> Root], 0)
    OBVIOUS
  <2> QED
    BY <2>1
<1>3. ASSUME NEW m \in 1..Depth, Solvable(m - 1) PROVE Solvable(m)
  <2>1. PICK f : Solves(f, m - 1)
    BY <1>3
  <2> DEFINE g == [l \in 0..m |-> NodeAt(f, l)]
  <2>2. \A l \in 0..(m - 1) : g[l] = f[l]
    BY <1>1, <2>1
  <2>3. ASSUME NEW l \in 0..m PROVE NodeAt(g, l) = NodeAt(f, l)
    <3>1. l # 0 => l - 1 \in 0..(m - 1)
      BY <1>1
    <3> HIDE DEF g
    <3> QED
      BY <2>2, <3>1
  <2>4. Solves(g, m)
    BY <2>3
  <2> QED
    BY <2>4
<1> HIDE DEF Solvable
<1>4. \A n \in 1..Depth : Solvable(n)
  <2> SUFFICES ASSUME Bad # {} PROVE FALSE
    OBVIOUS
  <2>1. PICK m \in Bad : \A k \in Bad : m <= k
    <3>1. Bad \in SUBSET (1..Depth)
      OBVIOUS
    <3> HIDE DEF Bad
    <3> QED
      BY <1>1, <3>1, LeastIndex
  <2>2. m \in 1..Depth /\ m - 1 \notin Bad
    BY <1>1, <2>1
  <2>3. Solvable(m - 1)
    BY <1>1, <1>2, <2>2
  <2> QED
    BY <1>3, <2>1, <2>3
<1>5. \E f : Solves(f, Depth)
  BY <1>1, <1>4, CallAssumption DEF Solvable
<1>6. Reached = [l \in 0..Depth |-> NodeAt(Reached, l)]
  BY <1>5 DEF Reached
<1>7. \A l \in 0..Depth : Reached[l] = NodeAt(Reached, l)
  BY <1>6
<1> QED
  BY <1>1, <1>7

\* The nodes on the way to the end of the name are a chain.
LEMMA ReachedChain ==
  ASSUME TypeOK, Reached[Depth] # NoNode
  PROVE  \E p \in [0..Depth -> Node] : Chain(p) /\ p[Depth] = Reached[Depth]
<1> DEFINE Wrong == {l \in 1..Depth : Reached[l] \notin Node \cup {NoNode}}
           Lost == {k \in 1..(Depth + 1) : Reached[Depth + 1 - k] = NoNode}
           p == [l \in 0..Depth |-> Reached[l]]
<1>1. Depth \in Nat \ {0} /\ Root \in Node /\ child \in [Node -> Node \cup {NoNode}] /\ Root # NoNode
  BY CallAssumption, NodeFacts DEF TypeOK
<1>2. \A l \in 0..Depth : Reached[l] \in Node \cup {NoNode}
  <2> SUFFICES ASSUME Wrong # {} PROVE FALSE
    BY <1>1, ReachedEquation
  <2>1. PICK m \in Wrong : \A k \in Wrong : m <= k
    <3>1. Wrong \in SUBSET (1..Depth)
      OBVIOUS
    <3> HIDE DEF Wrong
    <3> QED
      BY <1>1, <3>1, LeastIndex
  <2>2. m \in 1..Depth /\ m - 1 \notin Wrong
    BY <1>1, <2>1
  <2>3. Reached[m - 1] \in Node \cup {NoNode}
    BY <1>1, <2>2, ReachedEquation
  <2>4. Reached[m] \in Node \cup {NoNode}
    BY <1>1, <2>2, <2>3, ReachedEquation
  <2> QED
    BY <2>1, <2>4
<1>3. \A l \in 0..Depth : Reached[l] # NoNode
  <2> SUFFICES ASSUME Lost # {} PROVE FALSE
    <3>1. \A l \in 0..Depth : (Depth + 1) - l \in 1..(Depth + 1) /\ Depth + 1 - ((Depth + 1) - l) = l
      BY <1>1
    <3> QED
      BY <3>1
  <2>1. PICK m \in Lost : \A k \in Lost : m <= k
    <3>1. Lost \in SUBSET (1..(Depth + 1)) /\ Depth + 1 \in Nat
      BY <1>1
    <3> HIDE DEF Lost
    <3> QED
      BY <3>1, LeastIndex
  <2>2. m \in 1..(Depth + 1) /\ Reached[Depth + 1 - m] = NoNode /\ m - 1 \notin Lost
    BY <1>1, <2>1
  <2>3. m # 1
    <3>1. Depth + 1 - 1 = Depth
      BY <1>1
    <3> QED
      BY <2>2, <3>1
  <2>4. m - 1 \in 1..(Depth + 1)
    BY <1>1, <2>2, <2>3
  <2>5. Reached[Depth + 1 - (m - 1)] # NoNode
    BY <2>2, <2>4
  <2>6. Depth + 1 - (m - 1) \in 1..Depth /\ (Depth + 1 - (m - 1)) - 1 = Depth + 1 - m
    BY <1>1, <2>2, <2>3
  <2> QED
    BY <2>2, <2>5, <2>6, ReachedEquation
<1>4. p \in [0..Depth -> Node] /\ p[Depth] = Reached[Depth] /\ p[0] = Root
  BY <1>1, <1>2, <1>3, ReachedEquation
<1>5. ASSUME NEW l \in 0..(Depth - 1) PROVE child[p[l]] = p[l + 1]
  <2>1. l + 1 \in 1..Depth /\ (l + 1) - 1 = l /\ l \in 0..Depth /\ l + 1 \in 0..Depth
    BY <1>1
  <2>2. Reached[l + 1] = child[Reached[l]]
    BY <1>3, <2>1, ReachedEquation
  <2> QED
    BY <2>1, <2>2
<1> QED
  BY <1>4, <1>5 DEF Chain

LEMMA InitIdle == Init => IdleInv
<1> SUFFICES ASSUME Init PROVE IdleInv
  OBVIOUS
<1> USE NodeFacts
<1> DEFINE linked == IF warm THEN Depth ELSE 1
<1>1. TypeOK /\ Ready
  BY InitTypes
<1>2. /\ child = [n \in Node |-> IF n[2] = Past /\ n[1] < linked THEN <<n[1] + 1, Past>> ELSE NoNode]
      /\ listOf = [n \in Node |-> IF warm /\ n = <<Depth, Past>> THEN Past ELSE NoList]
      /\ contents = [l \in List |-> << >>] /\ cached = Nobody
      /\ pc = [t \in Thread |-> "idle"] /\ at = [t \in Thread |-> Root]
      /\ calls = [t \in Thread |-> 0] /\ warm \in BOOLEAN
  BY DEF Init
<1>3. Depth \in Nat \ {0} /\ linked \in 1..Depth /\ Top = <<linked, Past>>
      /\ Top \in Node /\ Top[1] = linked
  BY <1>2, CallAssumption DEF Top
<1>4. Past \in Call /\ Past \in List
  BY DEF Past, Call, List
<1>5. \A n \in Node : IF n[2] = Past /\ n[1] < linked THEN child[n] = <<n[1] + 1, Past>>
                                                      ELSE child[n] = NoNode
  BY <1>2
<1> HIDE DEF linked
<1>6. \A n \in Node : Pointed(n) => n[2] = Past /\ n[1] <= linked
  <2> SUFFICES ASSUME NEW n \in Node, Pointed(n) PROVE n[2] = Past /\ n[1] <= linked
    OBVIOUS
  <2>1. CASE \E m \in Node : child[m] = n
    <3>1. PICK m \in Node : child[m] = n
      BY <2>1
    <3>2. n = <<m[1] + 1, Past>> /\ m[1] < linked /\ m[1] \in 0..Depth
      BY <1>5, <3>1
    <3> QED
      BY <1>3, <3>2
  <2>2. CASE \E t \in Thread : at[t] = n
    BY <1>2, <1>3, <2>2
  <2> QED
    BY <2>1, <2>2 DEF Pointed
<1>7. Levels
  BY <1>2, <1>5 DEF Levels
<1>8. MakersFinish
  BY <1>6 DEF MakersFinish
<1>9. PastLinked
  <2>1. ASSUME NEW l \in 0..(Top[1] - 1) PROVE child[<<l, Past>>] # NoNode
    <3>1. <<l, Past>> \in Node /\ l < linked /\ <<l + 1, Past>> \in Node
      BY <1>3, <1>4 DEF Node
    <3> QED
      BY <1>5, <3>1
  <2> QED
    BY <1>2, <1>3, <1>6, <2>1 DEF PastLinked
<1>10. TopFirst
  BY <1>2, <1>6 DEF TopFirst
<1>11. Unmade
  <2> SUFFICES ASSUME NEW t \in Thread, NEW k \in 1..MaxCalls, NEW l \in 0..Depth
               PROVE  /\ child[<<l, <<t, k>>>>] = NoNode /\ listOf[<<l, <<t, k>>>>] = NoList
                      /\ ~ Pointed(<<l, <<t, k>>>>)
    BY DEF Unmade
  <2> DEFINE n == <<l, <<t, k>>>>
  <2>1. n \in Node /\ n[2] # Past /\ n # <<Depth, Past>>
    BY CallAssumption DEF Node, Call, Past
  <2> HIDE DEF n
  <2>2. child[n] = NoNode /\ listOf[n] = NoList /\ ~ Pointed(n)
    BY <1>2, <1>5, <1>6, <2>1
  <2> QED
    BY <2>2 DEF n
<1>12. CacheOwed
  BY <1>2 DEF CacheOwed
<1>13. Held
  <2> SUFFICES ASSUME NEW p \in [0..Depth -> Node], listOf[p[Depth]] # NoList, NEW t \in Thread
               PROVE  HeldBy(t, p, contents[listOf[p[Depth]]])
    BY DEF Held
  <2>1. p[Depth] \in Node
    BY <1>3
  <2>2. listOf[p[Depth]] = Past
    BY <1>2, <2>1
  <2>3. contents[listOf[p[Depth]]] = << >>
    BY <1>2, <1>4, <2>2
  <2> QED
    BY <2>3 DEF HeldBy, InSeq
<1> QED
  BY <1>1, <1>7, <1>8, <1>9, <1>10, <1>11, <1>12, <1>13 DEF IdleInv, TreeInv

LEMMA StepIdle == IdleInv /\ [Next]_vars => IdleInv'
<1> SUFFICES ASSUME IdleInv, [Next]_vars PROVE IdleInv'
  OBVIOUS
<1>2. CASE UNCHANGED vars
  <2>1. /\ UNCHANGED <<warm, child, listOf, contents, cached, pc, at, calls>>
    BY <1>2 DEF vars, treeVars, threadVars
  <2>2. TreeInv'
    <3>1. (\A n \in Node : Pointed(n)' <=> Pointed(n)) /\ (\A n \in Node : Complete(n)' <=> Complete(n))
          /\ Top' = Top
      BY <2>1 DEF Pointed, Complete, CompleteIn, Top
    <3>2. Levels' /\ PastLinked'
      BY <2>1, <3>1 DEF IdleInv, TreeInv, Levels, PastLinked
    <3>3. MakersFinish'
      BY <2>1, <3>1 DEF IdleInv, TreeInv, MakersFinish
    <3>4. (Complete(Top))' <=> Complete(Top)
      BY <2>1 DEF Complete, CompleteIn, Top
    <3>5. TopFirst'
      BY <2>1, <3>1, <3>4 DEF IdleInv, TreeInv, TopFirst
    <3>6. Unmade'
      BY <2>1 DEF IdleInv, TreeInv, Unmade, Pointed
    <3> QED
      BY <3>2, <3>3, <3>5, <3>6 DEF TreeInv
  <2>3. CacheOwed'
    BY <2>1 DEF IdleInv, CacheOwed
  <2>4. Held'
    <3>1. \A p : Chain(p)' <=> Chain(p)
      BY <2>1 DEF Chain
    <3>2. \A u \in Thread : \A p, s : HeldBy(u, p, s)' <=> HeldBy(u, p, s)
      BY <2>1, Zenon DEF HeldBy
    <3> HIDE DEF HeldBy, Chain
    <3> SUFFICES ASSUME NEW p \in [0..Depth -> Node], Chain(p)', listOf'[p[Depth]] # NoList,
                        NEW t \in Thread
                 PROVE  HeldBy(t, p, contents[listOf[p[Depth]]])'
      BY DEF Held
    <3>3. HeldBy(t, p, contents[listOf[p[Depth]]])
      BY <2>1, <3>1, Zenon DEF IdleInv, Held
    <3> QED
      BY <2>1, <3>3 DEF HeldBy
  <2>5. TypeOK' /\ Ready'
    BY <1>2 DEF IdleInv, TypeOK, Ready, vars, treeVars, threadVars
  <2> QED
    BY <2>5, <2>2, <2>3, <2>4 DEF IdleInv
<1>3. CASE \E t \in Thread : Step(t)
  <2>1. PICK t \in Thread : Step(t)
    BY <1>3
  <2>2. warm' = warm /\ TypeOK' /\ Ready'
    BY <2>1, StepTypes DEF Step, IdleInv
  <2>3. TreeInv'
    <3>1. CASE Link(t)
      BY <2>2, <3>1, LinkKeeps DEF IdleInv
    <3>2. CASE ~ Link(t)
      BY <2>1, <2>2, <3>2, StepsAreSteady, SteadyKeeps DEF IdleInv
    <3> QED
      BY <3>1, <3>2
  <2>4. CacheOwed'
    BY <2>1, CacheKeeps DEF IdleInv
  <2>5. Held'
    BY <2>1, <2>2, HeldKeeps DEF IdleInv
  <2> QED
    BY <2>2, <2>3, <2>4, <2>5 DEF IdleInv
<1> QED
  BY <1>2, <1>3 DEF Next, Done

\* When no call is in progress, no signing closure is left in the list a search finds
\* and no lookup is cached: the calls a late register crossed on its way have all
\* unregistered theirs (operation.py 166-170, hooks.py 233-251, 394-405).
THEOREM IdleEmitterIsCleanAlways == Spec => []IdleEmitterIsClean
<1>1. Init => IdleInv
  BY InitIdle
<1>2. IdleInv /\ [Next]_vars => IdleInv'
  BY StepIdle
<1>3. IdleInv => IdleEmitterIsClean
  <2> SUFFICES ASSUME IdleInv, \A t \in Thread : pc[t] = "idle",
                      Reached[Depth] # NoNode, listOf[Reached[Depth]] # NoList,
                      contents[listOf[Reached[Depth]]] # << >>
               PROVE  FALSE
    BY DEF IdleInv, CacheOwed, IdleEmitterIsClean
  <2> DEFINE s == contents[listOf[Reached[Depth]]]
  <2>1. PICK p \in [0..Depth -> Node] : Chain(p) /\ p[Depth] = Reached[Depth]
    BY ReachedChain DEF IdleInv
  <2>2. \A t \in Thread : ~ InSeq(t, s)
    BY <2>1 DEF IdleInv, Held, HeldBy, Calling
  <2>3. Reached[Depth] \in Node
    BY <2>1, CallAssumption
  <2>4. s \in Seq(Thread)
    BY <2>3 DEF IdleInv, TypeOK
  <2>5. s[1] \in Thread /\ 1 \in DOMAIN s
    BY <2>4
  <2> QED
    BY <2>2, <2>5 DEF InSeq
<1> QED
  BY <1>1, <1>2, <1>3, PTL DEF Spec
=============================================================================
