-------------------------- MODULE PaginatorProofs --------------------------
(***************************************************************************)
(* Resumed pagination gives every item once and in order, for any result,  *)
(* any limits and any number of iterations, unless a resumed iteration is  *)
(* cut inside a page it got by a token.                                    *)
(*                                                                         *)
(* NothingLostOrRepeated is not inductive: it does not say where the       *)
(* iterator is.  Placed does: how many items the user has when a page is   *)
(* asked for, when it has been yielded and when there is a resume token.   *)
(* ListsPlaced does the same for the lists under secondary result keys.    *)
(***************************************************************************)
EXTENDS Paginator, SequenceTheorems, TLAPS

PageAt(token) == IF token = NoToken THEN 1 ELSE token

\* Which page is asked for, and what is known of its token.
Tokens ==
  /\ phase = "request" /\ first => kwargs = start.token /\ next = NoToken
  /\ phase = "request" /\ ~first => kwargs = next /\ kwargs # NoToken
  /\ first \/ ~Resumed => trunc = 0
  /\ first => phase \in {"request", "TypeError"}
  /\ phase = "more" => resume = NoStart
  /\ phase = "request" => resume = NoStart

\* How far the user has read.
Placed ==
  ~recut /\ ~stuck =>
    /\ phase = "request" /\ first /\ ~Resumed => Len(delivered) = 0
    /\ phase = "request" /\ first /\ Resumed =>
         /\ Len(delivered) = bound[Asked] + start.index
         /\ Len(delivered) <= bound[Asked + 1]
    /\ phase = "request" /\ ~first => Len(delivered) = bound[Asked]
    /\ phase = "more" => Len(delivered) = bound[Asked + 1]
    /\ phase = "done" /\ resume # NoStart =>
         /\ Len(delivered) = bound[PageAt(resume.token)] + resume.index
         /\ Len(delivered) <= bound[PageAt(resume.token) + 1]

IInv == TypeOK /\ Tokens /\ Placed /\ bound[1] = 0 /\ NothingLostOrRepeated
-----------------------------------------------------------------------------
\* Consecutive numbers.
LEMMA NumbersTyped ==
  ASSUME NEW low \in Nat, NEW n \in Nat
  PROVE  Numbers(low, n) \in Seq(Nat \ {0}) /\ Len(Numbers(low, n)) = n
<1>1. \A i \in 1..n : low + i \in Nat \ {0}
  OBVIOUS
<1> QED
  BY <1>1 DEF Numbers

LEMMA NumbersJoin ==
  ASSUME NEW m \in Nat, NEW n \in Nat
  PROVE  Numbers(0, m) \o Numbers(m, n) = Numbers(0, m + n)
<1> DEFINE a == Numbers(0, m)
           b == Numbers(m, n)
<1>1. /\ a \in Seq(Nat) /\ Len(a) = m /\ \A i \in 1..m : a[i] = i
      /\ b \in Seq(Nat) /\ Len(b) = n /\ \A i \in 1..n : b[i] = m + i
  <2>1. a = [i \in 1..m |-> i] /\ b = [i \in 1..n |-> m + i]
    BY DEF Numbers
  <2> QED
    BY <2>1
<1> HIDE DEF a, b
<1>2. a \o b \in Seq(Nat) /\ Len(a \o b) = m + n
  BY <1>1
<1>3. \A i \in 1..(m + n) : (a \o b)[i] = i
  <2>1. \A i \in 1..(m + n) : (a \o b)[i] = IF i <= m THEN a[i] ELSE b[i - m]
    BY <1>1, ConcatProperties
  <2>2. \A i \in 1..(m + n) : i > m => i - m \in 1..n
    OBVIOUS
  <2> QED
    BY <1>1, <2>1, <2>2
<1>4. /\ Numbers(0, m + n) \in Seq(Nat) /\ Len(Numbers(0, m + n)) = m + n
      /\ \A i \in 1..(m + n) : Numbers(0, m + n)[i] = i
  <2>1. Numbers(0, m + n) = [i \in 1..(m + n) |-> i]
    BY DEF Numbers
  <2> QED
    BY <2>1
<1> QED
  BY <1>2, <1>3, <1>4, SeqEqual DEF a, b

\* What TakePage and CutPage rely on: a page is between two bounds, and what is kept
\* of it is a number of its items.
LEMMA PageTyped ==
  ASSUME TypeOK
  PROVE  /\ Asked \in Page /\ bound[Asked] \in Nat /\ bound[Asked + 1] \in Nat
         /\ Lower \in Nat /\ Length \in Nat /\ Truncation \in Nat
         /\ bound[Asked] <= Lower /\ Lower + Length = bound[Asked + 1]
<1>1. Asked \in Page /\ Asked \in 1..(NumPages + 1) /\ Asked + 1 \in 1..(NumPages + 1)
  BY PaginatorAssumption DEF TypeOK, Asked, Token, NoToken, Page
<1>2. bound[Asked] \in Nat /\ bound[Asked + 1] \in Nat /\ bound[Asked] <= bound[Asked + 1]
  BY <1>1 DEF TypeOK
<1>3. Resumed => start.index \in Nat
  BY DEF TypeOK, Start, Resumed
<1>4. Lower \in Nat /\ bound[Asked] <= Lower /\ Lower <= bound[Asked + 1]
  <2>1. CASE first /\ Resumed
    BY <1>2, <1>3, <2>1 DEF Lower, Low
  <2>2. CASE ~(first /\ Resumed)
    BY <1>2, <2>2 DEF Lower
  <2> QED
    BY <2>1, <2>2
<1>5. Truncation \in Nat
  BY <1>3 DEF TypeOK, Truncation
<1> QED
  BY <1>1, <1>2, <1>4, <1>5 DEF Length

\* The kept part of a page that is cut.
LEMMA KeptTyped ==
  ASSUME TypeOK, Excess > 0
  PROVE  /\ Length - Excess \in Nat /\ Length - Excess < Length
         /\ maxItems # NoLimit
<1>1. maxItems # NoLimit
  BY DEF Excess
<1>2. maxItems \in Nat /\ total \in Nat /\ total <= maxItems
  BY <1>1, PaginatorAssumption DEF TypeOK
<1>3. Excess = total + Length - maxItems
  BY <1>1 DEF Excess
<1> QED
  BY <1>1, <1>2, <1>3, PageTyped

\* What is given to the user keeps its type, and continues what he has.
LEMMA Given ==
  ASSUME TypeOK, NEW n \in Nat, Give(n)
  PROVE  /\ delivered' \in Seq(Nat \ {0}) /\ extras' \in Seq(Page)
         /\ ~stuck => Len(delivered') = Len(delivered) + n
         /\ ~stuck /\ delivered = Numbers(0, Len(delivered)) /\ Lower = Len(delivered)
              => delivered' = Numbers(0, Len(delivered'))
<1>1. Numbers(Lower, n) \in Seq(Nat \ {0}) /\ Len(Numbers(Lower, n)) = n
  BY PageTyped, NumbersTyped
<1>2. CASE stuck
  BY <1>2 DEF Give, TypeOK
<1>3. CASE ~stuck
  <2>1. delivered' = delivered \o Numbers(Lower, n)
    BY <1>3 DEF Give
  <2>2. delivered' \in Seq(Nat \ {0}) /\ Len(delivered') = Len(delivered) + n
    <3>1. delivered \in Seq(Nat \ {0})
      BY DEF TypeOK
    <3> QED
      BY <1>1, <2>1, <3>1, ConcatProperties
  <2>3. extras' \in Seq(Page)
    <3>1. extras' = extras \/ extras' = Append(extras, Asked)
      BY <1>3 DEF Give
    <3>2. extras \in Seq(Page) /\ Asked \in Page
      BY PageTyped DEF TypeOK
    <3> QED
      BY <3>1, <3>2
  <2>4. Len(delivered) \in Nat
    BY DEF TypeOK
  <2>5. delivered = Numbers(0, Len(delivered)) /\ Lower = Len(delivered)
          => delivered' = Numbers(0, Len(delivered'))
    BY <2>1, <2>2, <2>4, NumbersJoin
  <2> QED
    BY <2>2, <2>3, <2>5
<1> QED
  BY <1>2, <1>3
-----------------------------------------------------------------------------
\* Typing of the steps, one by one.
LEMMA TakeTyped == TypeOK /\ TakePage => TypeOK'
<1> SUFFICES ASSUME TypeOK, TakePage PROVE TypeOK'
  OBVIOUS
<1>1. Length \in Nat /\ Truncation \in Nat
  BY PageTyped
<1>2. delivered' \in Seq(Nat \ {0}) /\ extras' \in Seq(Page)
  BY <1>1, Given DEF TakePage
<1>3. total' \in Nat /\ (IF maxItems' = NoLimit THEN total' = 0 ELSE total' <= maxItems')
  <2>1. maxItems' = maxItems /\ total \in Nat /\ Excess <= 0
    BY DEF TakePage, user, TypeOK
  <2>2. CASE maxItems = NoLimit
    BY <2>1, <2>2 DEF TakePage, TypeOK
  <2>3. CASE maxItems # NoLimit
    <3>1. maxItems \in Nat
      BY <2>3, PaginatorAssumption DEF TypeOK
    <3>2. total + Length - maxItems <= 0 /\ total' = total + Length
      BY <2>1, <2>3 DEF Excess, TakePage
    <3> QED
      BY <1>1, <2>1, <2>3, <3>1, <3>2
  <2> QED
    BY <2>2, <2>3
<1> QED
  BY <1>1, <1>2, <1>3 DEF TypeOK, TakePage, service, user

LEMMA CutTyped == TypeOK /\ CutPage => TypeOK'
<1> SUFFICES ASSUME TypeOK, CutPage PROVE TypeOK'
  OBVIOUS
<1>1. Length - Excess \in Nat /\ Truncation \in Nat
  BY PageTyped, KeptTyped DEF CutPage
<1>2. delivered' \in Seq(Nat \ {0}) /\ extras' \in Seq(Page)
  BY <1>1, Given DEF CutPage
<1>3. resume' \in Start
  BY <1>1 DEF CutPage, ResumeIndex, Start, TypeOK
<1>4. recut' \in BOOLEAN
  BY DEF CutPage, TypeOK
<1> QED
  BY <1>1, <1>2, <1>3, <1>4 DEF TypeOK, CutPage, service, user

LEMMA MoreTyped ==
  ASSUME TypeOK, NEW token \in Page, MorePages(token)
  PROVE  TypeOK'
<1>1. [token |-> token, index |-> 0] \in Start /\ token \in Token
  BY DEF Start, Token
<1>2. resume' \in Start /\ kwargs' \in Token /\ next' \in Token /\ previous' \in Token
  BY <1>1 DEF MorePages, TypeOK
<1>3. phase' \in {"request", "done", "PaginationError"}
  BY DEF MorePages
<1>4. stuck' \in BOOLEAN
  BY DEF MorePages, TypeOK
<1> QED
  BY <1>2, <1>3, <1>4 DEF TypeOK, MorePages, user, seen

LEMMA GoOnTyped ==
  ASSUME TypeOK, NEW limit \in Limits, GoOn(limit)
  PROVE  TypeOK'
<1>1. kwargs' \in Token /\ next' \in Token /\ previous' \in Token /\ start' \in Start /\ resume' \in Start
  BY DEF GoOn, Begin, TypeOK, Start, NoStart, Token, NoToken
<1>2. resumes' \in 0..MaxResumes
  BY PaginatorAssumption DEF GoOn, TypeOK
<1>3. midway' \in BOOLEAN
  BY DEF GoOn, TypeOK
<1>4. IF maxItems' = NoLimit THEN total' = 0 ELSE total' <= maxItems'
  BY PaginatorAssumption DEF GoOn, Begin
<1> QED
  BY <1>1, <1>2, <1>3, <1>4 DEF TypeOK, GoOn, Begin, service, seen

LEMMA StepTyped == TypeOK /\ [Next]_vars => TypeOK'
<1> SUFFICES ASSUME TypeOK, [Next]_vars PROVE TypeOK'
  OBVIOUS
<1>1. CASE LackKey
  BY <1>1 DEF TypeOK, LackKey, service, user, seen
<1>2. CASE NoMorePages
  BY <1>2 DEF TypeOK, NoMorePages, service, user, seen, Token
<1>3. CASE Stop \/ UNCHANGED vars
  BY <1>3 DEF TypeOK, Stop, vars, service, user, seen
<1> QED
  BY <1>1, <1>2, <1>3, TakeTyped, CutTyped, MoreTyped, GoOnTyped DEF Next, Iterate
-----------------------------------------------------------------------------
\* Where a page is asked for, its items begin where the user's end.
LEMMA AskedInPlace ==
  ASSUME IInv, phase = "request", ~recut, ~stuck
  PROVE  /\ Lower = Len(delivered)
         /\ first /\ ~Resumed => Asked = 1 /\ Len(delivered) = 0
<1>1. TypeOK /\ Tokens /\ Placed /\ bound[1] = 0
  BY DEF IInv
<1>2. Len(delivered) \in Nat /\ bound[Asked] \in Nat /\ bound[Asked + 1] \in Nat
      /\ bound[Asked] <= bound[Asked + 1]
  BY <1>1, PageTyped DEF TypeOK
<1>3. CASE first /\ Resumed
  BY <1>1, <1>2, <1>3 DEF Placed, Lower, Low
<1>4. CASE first /\ ~Resumed
  <2>1. Asked = 1
    BY <1>1, <1>4 DEF Tokens, Resumed, NoStart, Asked, NoToken
  <2> QED
    BY <1>1, <1>2, <1>4, <2>1 DEF Placed, Lower
<1>5. CASE ~first
  BY <1>1, <1>2, <1>5 DEF Placed, Lower
<1> QED
  BY <1>3, <1>4, <1>5

LEMMA TakeKeeps == IInv /\ TakePage => IInv'
<1> SUFFICES ASSUME IInv, TakePage PROVE IInv'
  OBVIOUS
<1>1. TypeOK /\ Tokens /\ TypeOK'
  BY TakeTyped DEF IInv
<1>2. UNCHANGED <<service, user, kwargs, next, previous, resume, recut>>
      /\ phase = "request" /\ phase' = "more" /\ ~first' /\ trunc' = Truncation /\ Give(Length)
  BY DEF TakePage
<1>3. Tokens'
  BY <1>1, <1>2 DEF Tokens, Truncation, Resumed, user
<1>4. ~recut /\ ~stuck =>
        Len(delivered') = bound[Asked + 1] /\ delivered' = Numbers(0, Len(delivered'))
  BY <1>1, <1>2, PageTyped, AskedInPlace, Given DEF IInv, NothingLostOrRepeated
<1>5. Asked' = Asked /\ bound' = bound /\ stuck' = stuck /\ recut' = recut
  BY <1>2 DEF Asked, service
<1>6. Placed'
  BY <1>2, <1>4, <1>5 DEF Placed
<1>7. NothingLostOrRepeated'
  BY <1>2, <1>4, <1>5 DEF NothingLostOrRepeated, Finished
<1> QED
  BY <1>1, <1>3, <1>5, <1>6, <1>7 DEF IInv

LEMMA CutKeeps == IInv /\ CutPage => IInv'
<1> SUFFICES ASSUME IInv, CutPage PROVE IInv'
  OBVIOUS
<1> DEFINE kept == Length - Excess
<1>1. TypeOK /\ Tokens /\ TypeOK' /\ bound[1] = 0
  BY CutTyped DEF IInv
<1>2. kept \in Nat /\ kept < Length /\ Length \in Nat /\ Truncation \in Nat
  BY <1>1, PageTyped, KeptTyped DEF CutPage
<1>3. /\ phase = "request" /\ phase' = "done" /\ Give(kept)
      /\ resume' = [token |-> next, index |-> kept + Truncation]
      /\ UNCHANGED <<service, user, kwargs, next>> /\ ~first' /\ trunc' = Truncation
  BY DEF CutPage, ResumeIndex
<1>4. bound' = bound /\ stuck' = stuck /\ resume' # NoStart
  <2>1. kept + Truncation # -1
    BY <1>2
  <2> HIDE DEF kept
  <2> QED
    BY <1>3, <2>1 DEF service, NoStart
<1>5. Tokens'
  BY <1>1, <1>3 DEF Tokens, Truncation, Resumed, user
<1>6. ASSUME ~recut', ~stuck'
      PROVE  /\ delivered' = Numbers(0, Len(delivered'))
             /\ Len(delivered') = bound[PageAt(next)] + kept + Truncation
             /\ Len(delivered') <= bound[PageAt(next) + 1]
  <2>1. ~recut /\ ~stuck /\ ~(Resumed /\ IF first THEN start.token # NoToken ELSE trunc > 0)
    BY <1>4, <1>6 DEF CutPage
  <2>2. Lower = Len(delivered) /\ Len(delivered') = Len(delivered) + kept
        /\ delivered' = Numbers(0, Len(delivered'))
    BY <1>1, <1>2, <1>3, <2>1, AskedInPlace, Given DEF IInv, NothingLostOrRepeated
  <2>3. PageAt(next) = Asked
    <3>1. CASE first
      BY <1>1, <1>3, <2>1, <3>1 DEF Tokens, PageAt, Asked, Resumed, NoStart
    <3>2. CASE ~first
      BY <1>1, <1>3, <3>2 DEF Tokens, PageAt, Asked
    <3> QED
      BY <3>1, <3>2
  <2>4. Len(delivered) = bound[Asked] + Truncation
    <3>1. CASE first /\ Resumed
      BY <1>1, <1>3, <2>1, <3>1 DEF IInv, Placed, Truncation
    <3>2. CASE first /\ ~Resumed
      BY <1>1, <1>3, <2>1, <3>2, AskedInPlace DEF Tokens, Truncation
    <3>3. CASE ~first
      <4>1. trunc = 0
        BY <1>1, <2>1, <3>3 DEF Tokens, TypeOK
      <4>2. Len(delivered) = bound[Asked]
        BY <1>3, <2>1, <3>3 DEF IInv, Placed
      <4> QED
        BY <1>1, <3>3, <4>1, <4>2, PageTyped DEF Truncation
    <3> QED
      BY <3>1, <3>2, <3>3
  <2>5. bound[Asked] \in Nat /\ bound[Asked + 1] \in Nat /\ Lower + Length = bound[Asked + 1]
    BY <1>1, PageTyped
  <2> HIDE DEF kept
  <2> QED
    BY <1>2, <2>2, <2>3, <2>4, <2>5
<1>7. Placed'
  <2> HIDE DEF kept
  <2>1. resume'.token = next /\ resume'.index = kept + Truncation
    BY <1>3
  <2>2. bound[PageAt(next)] \in Nat
    <3>1. next \in Token /\ bound \in [1..(NumPages + 1) -> Nat]
      BY <1>1 DEF TypeOK
    <3>2. PageAt(next) \in 1..(NumPages + 1)
      BY <3>1, PaginatorAssumption DEF PageAt, Token, Page, NoToken
    <3> HIDE DEF PageAt
    <3> QED
      BY <3>1, <3>2
  <2>3. PageAt(resume'.token) = PageAt(next)
    BY <2>1
  <2> QED
    BY <1>2, <1>3, <1>4, <1>6, <2>1, <2>2, <2>3 DEF Placed, PageAt
<1>8. NothingLostOrRepeated'
  BY <1>3, <1>4, <1>6 DEF NothingLostOrRepeated, Finished
<1> QED
  BY <1>1, <1>4, <1>5, <1>7, <1>8 DEF IInv

LEMMA MoreKeeps ==
  ASSUME IInv, NEW token \in Page, MorePages(token)
  PROVE  IInv'
<1>1. TypeOK /\ Tokens /\ TypeOK' /\ ~first
  BY MoreTyped DEF IInv, Tokens, MorePages
<1>2. phase = "more" /\ bound' = bound /\ UNCHANGED <<user, seen, first, trunc>> /\ next' = token
  BY DEF MorePages
<1>3. token # NoToken /\ token \in 1..NumPages /\ bound[token] \in Nat /\ bound[token + 1] \in Nat
      /\ bound[token] <= bound[token + 1]
  BY <1>1, PaginatorAssumption DEF NoToken, Page, TypeOK
<1>4. \/ phase' = "done" /\ resume' = [token |-> token, index |-> 0]
      \/ phase' = "PaginationError" /\ resume' = resume
      \/ phase' = "request" /\ kwargs' = token /\ resume' = resume
  BY DEF MorePages
<1>5. Tokens'
  BY <1>1, <1>2, <1>3, <1>4 DEF Tokens, Resumed, user
<1>6. ~recut' /\ ~stuck' => ~recut /\ ~stuck /\ token = Asked + 1
  BY <1>2 DEF MorePages, seen
<1>7. ~recut' /\ ~stuck' => Len(delivered') = bound[token] /\ delivered' = Numbers(0, Len(delivered'))
  BY <1>2, <1>6 DEF IInv, Placed, NothingLostOrRepeated, seen
<1>8. [token |-> token, index |-> 0] # NoStart /\ PageAt(token) = token
  BY <1>3 DEF NoStart, PageAt
<1>9. Placed'
  <2>1. CASE phase' = "done" /\ resume' = [token |-> token, index |-> 0]
    <3>1. PageAt(resume'.token) = token /\ resume'.index = 0
      BY <1>8, <2>1
    <3> QED
      BY <1>2, <1>3, <1>7, <2>1, <3>1 DEF Placed, PageAt
  <2>2. CASE phase' = "PaginationError"
    BY <2>2 DEF Placed
  <2>3. CASE phase' = "request" /\ kwargs' = token
    <3>1. Asked' = token
      BY <1>3, <2>3 DEF Asked
    <3> QED
      BY <1>1, <1>2, <1>7, <2>3, <3>1 DEF Placed
  <2> QED
    BY <1>4, <2>1, <2>2, <2>3
<1>10. NothingLostOrRepeated'
  BY <1>4, <1>7, <1>8 DEF NothingLostOrRepeated, Finished
<1> QED
  BY <1>1, <1>2, <1>5, <1>9, <1>10 DEF IInv

LEMMA LastKeeps == IInv /\ NoMorePages => IInv'
<1> SUFFICES ASSUME IInv, NoMorePages PROVE IInv'
  OBVIOUS
<1>1. TypeOK /\ Tokens /\ Placed /\ TypeOK'
  BY StepTyped DEF IInv, Next, Iterate
<1>2. phase = "more" /\ phase' = "done" /\ Asked = NumPages /\ resume' = resume
      /\ UNCHANGED <<service, user, seen, first, trunc>>
  BY DEF NoMorePages
<1>3. resume = NoStart /\ ~first
  BY <1>1, <1>2 DEF Tokens
<1>4. Tokens'
  BY <1>1, <1>2, <1>3 DEF Tokens, Resumed, user
<1>5. Placed'
  BY <1>2, <1>3 DEF Placed
<1>6. NothingLostOrRepeated'
  BY <1>1, <1>2 DEF IInv, Placed, NothingLostOrRepeated, service, seen
<1> QED
  BY <1>1, <1>2, <1>4, <1>5, <1>6 DEF IInv, service

LEMMA GoOnKeeps ==
  ASSUME IInv, NEW limit \in Limits, GoOn(limit)
  PROVE  IInv'
<1>1. TypeOK /\ Placed /\ TypeOK'
  BY GoOnTyped DEF IInv
<1>2. /\ phase = "done" /\ resume # NoStart /\ UNCHANGED <<service, seen>>
      /\ start' = resume /\ kwargs' = resume.token /\ next' = NoToken /\ trunc' = 0 /\ first'
      /\ resume' = NoStart /\ phase' = "request"
  BY DEF GoOn, Begin
<1>3. Tokens'
  BY <1>2 DEF Tokens
<1>4. Asked' = PageAt(resume.token) /\ Resumed'
  BY <1>2 DEF Asked, PageAt, Resumed
<1>5. Placed'
  BY <1>1, <1>2, <1>4 DEF Placed, service, seen
<1>6. NothingLostOrRepeated'
  BY <1>2 DEF IInv, NothingLostOrRepeated, Finished, service, seen
<1> QED
  BY <1>1, <1>2, <1>3, <1>5, <1>6 DEF IInv, service

LEMMA RestKeeps == IInv /\ (LackKey \/ Stop \/ UNCHANGED vars) => IInv'
<1>1. IInv /\ (LackKey \/ Stop \/ UNCHANGED vars) => TypeOK'
  BY StepTyped DEF IInv, Next, Iterate
<1>2. CASE LackKey
  BY <1>1, <1>2 DEF IInv, LackKey, Tokens, Placed, NothingLostOrRepeated, Finished, Resumed,
                    service, user, seen
<1>3. CASE Stop \/ UNCHANGED vars
  BY <1>1, <1>3 DEF IInv, Stop, Tokens, Placed, NothingLostOrRepeated, Finished, Resumed, Asked,
                    vars, service, user, seen
<1> QED
  BY <1>2, <1>3

LEMMA StepKeeps == IInv /\ [Next]_vars => IInv'
<1> QED
  BY TakeKeeps, CutKeeps, MoreKeeps, LastKeeps, GoOnKeeps, RestKeeps DEF Next, Iterate

LEMMA InitIInv == Init => IInv
<1> SUFFICES ASSUME Init PROVE IInv
  OBVIOUS
<1>1. TypeOK
  <2>1. bound \in [1..(NumPages + 1) -> Nat] /\ bound[1] = 0
    BY PaginatorAssumption DEF Init
  <2>2. \A p \in Page : bound[p] <= bound[p + 1]
    <3> SUFFICES ASSUME NEW p \in Page PROVE bound[p] <= bound[p + 1]
      OBVIOUS
    <3>1. p \in 1..(NumPages + 1) /\ p + 1 \in 1..(NumPages + 1)
      BY PaginatorAssumption DEF Page
    <3>2. bound[p] \in Nat /\ bound[p + 1] \in Nat /\ bound[p + 1] - bound[p] \in 0..MaxLength
      BY <2>1, <3>1 DEF Init
    <3> QED
      BY <3>2, PaginatorAssumption
  <2>3. IF maxItems = NoLimit THEN total = 0 ELSE total <= maxItems
    BY PaginatorAssumption DEF Init
  <2>4. start \in Start /\ resume \in Start
    BY DEF Init, Start
  <2>5. kwargs \in Token /\ next \in Token /\ previous \in Token
    BY DEF Init, Token
  <2>6. delivered \in Seq(Nat \ {0}) /\ extras \in Seq(Page)
    BY DEF Init
  <2>7. resumes \in 0..MaxResumes
    BY PaginatorAssumption DEF Init
  <2> QED
    BY <2>1, <2>2, <2>3, <2>4, <2>5, <2>6, <2>7 DEF Init, TypeOK
<1>2. Tokens /\ Placed /\ bound[1] = 0
  BY DEF Init, Tokens, Placed, Resumed, NoStart
<1>3. NothingLostOrRepeated
  <2>1. Len(delivered) = 0 /\ delivered = << >>
    BY DEF Init
  <2>2. Numbers(0, 0) = << >>
    BY NumbersTyped, EmptySeq
  <2> QED
    BY <2>1, <2>2 DEF Init, NothingLostOrRepeated, Finished
<1> QED
  BY <1>1, <1>2, <1>3 DEF IInv

\* A user who reads a result with any limits, and goes on from the resume tokens, gets
\* every item once and in order, and in the end all of them, unless a resumed iteration
\* was cut inside a page it got by a token, or the service hung on a token.
THEOREM PaginationLosesNothing == Spec => []NothingLostOrRepeated
<1>1. IInv => NothingLostOrRepeated
  BY DEF IInv
<1> QED
  BY InitIInv, StepKeeps, <1>1, PTL DEF Spec

\* Type correctness, for any pages and limits.
THEOREM TypesHold == Spec => []TypeOK
<1>1. IInv => TypeOK
  BY DEF IInv
<1> QED BY InitIInv, StepKeeps, <1>1, PTL DEF Spec
-----------------------------------------------------------------------------
\* The secondary lists, by page: those the user has are of pages up to one, and are
\* all of them when nothing was resumed at the start of a page.
UpTo(p, whole) ==
  /\ \A i \in DOMAIN extras : extras[i] <= p
  /\ whole => extras = Numbers(0, p)

\* ExtrasOnce does not say which page is the last whose list the user has.
ListsPlaced ==
  ~recut /\ ~stuck =>
    /\ \A i, j \in DOMAIN extras : i < j => extras[i] < extras[j]
    /\ phase = "request" => UpTo(IF first /\ Resumed THEN Asked ELSE Asked - 1, ~midway)
    /\ phase = "more" => UpTo(Asked, ~midway)
    /\ phase = "done" => IF resume = NoStart THEN UpTo(NumPages, ~midway)
                         ELSE UpTo(PageAt(resume.token),
                                   ~midway /\ (resume.token = NoToken \/ resume.index # 0))

\* What Give does to the lists: afterwards the page that was asked for is the last.
LEMMA ListGiven ==
  ASSUME TypeOK, ListsPlaced, phase = "request", ~recut, ~stuck, NEW n, Give(n)
  PROVE  /\ \A i, j \in DOMAIN extras' : i < j => extras'[i] < extras'[j]
         /\ \A i \in DOMAIN extras' : extras'[i] <= Asked
         /\ ~midway => extras' = Numbers(0, Asked)
<1>1. Asked \in Page /\ Asked \in Nat \ {0} /\ extras \in Seq(Page)
  <2>1. Page \subseteq Nat \ {0}
    BY PaginatorAssumption DEF Page
  <2> QED
    BY <2>1, PageTyped DEF TypeOK
<1>2. CASE first /\ Resumed
  BY <1>2 DEF ListsPlaced, UpTo, Give
<1>3. CASE ~(first /\ Resumed)
  <2>1. extras' = Append(extras, Asked)
    BY <1>3 DEF Give
  <2>2. /\ \A i, j \in DOMAIN extras : i < j => extras[i] < extras[j]
        /\ \A i \in DOMAIN extras : extras[i] <= Asked - 1
        /\ ~midway => extras = Numbers(0, Asked - 1)
    BY <1>3 DEF ListsPlaced, UpTo
  <2>3. /\ Len(extras) \in Nat /\ DOMAIN extras = 1..Len(extras)
        /\ \A i \in DOMAIN extras : extras[i] \in Nat
    BY <1>1, PaginatorAssumption DEF Page
  <2>4. /\ DOMAIN extras' = 1..(Len(extras) + 1) /\ extras'[Len(extras) + 1] = Asked
        /\ \A i \in 1..Len(extras) : extras'[i] = extras[i]
    BY <1>1, <2>1
  <2>5. \A i, j \in DOMAIN extras' : i < j => extras'[i] < extras'[j]
    BY <1>1, <2>2, <2>3, <2>4
  <2>6. \A i \in DOMAIN extras' : extras'[i] <= Asked
    BY <1>1, <2>2, <2>3, <2>4
  <2>7. ~midway => extras' = Numbers(0, Asked)
    <3>1. Append(Numbers(0, Asked - 1), Asked) = Numbers(0, Asked)
      <4>1. Numbers(0, Asked - 1) = [i \in 1..(Asked - 1) |-> i] /\ Numbers(0, Asked) = [i \in 1..Asked |-> i]
        BY <1>1 DEF Numbers
      <4>2. Len([i \in 1..(Asked - 1) |-> i]) = Asked - 1
        BY <1>1
      <4> QED
        BY <1>1, <4>1, <4>2
    <3> QED
      BY <2>1, <2>2, <3>1
  <2> QED
    BY <2>5, <2>6, <2>7
<1> QED
  BY <1>2, <1>3

LEMMA TakeLists == IInv /\ ListsPlaced /\ TakePage => ListsPlaced'
<1> SUFFICES ASSUME IInv, ListsPlaced, TakePage, ~recut', ~stuck' PROVE ListsPlaced'
  BY DEF ListsPlaced
<1>1. /\ phase = "request" /\ phase' = "more" /\ Give(Length) /\ Asked' = Asked /\ midway' = midway
      /\ ~recut /\ ~stuck
  BY DEF TakePage, Asked, service, user
<1>2. TypeOK
  BY DEF IInv
<1>3. /\ \A i, j \in DOMAIN extras' : i < j => extras'[i] < extras'[j]
      /\ \A i \in DOMAIN extras' : extras'[i] <= Asked
      /\ ~midway => extras' = Numbers(0, Asked)
  BY <1>1, <1>2, ListGiven
<1> QED
  BY <1>1, <1>3 DEF ListsPlaced, UpTo, Numbers

\* The token of a page that is cut leads to that page again.
LEMMA CutToken ==
  ASSUME TypeOK, Tokens, CutPage, ~recut'
  PROVE  PageAt(next) = Asked
<1>1. /\ phase = "request" /\ ~(Resumed /\ IF first THEN start.token # NoToken ELSE trunc > 0)
  BY DEF CutPage
<1>2. CASE first
  BY <1>1, <1>2 DEF Tokens, PageAt, Asked, Resumed, NoStart
<1>3. CASE ~first
  BY <1>1, <1>3 DEF Tokens, PageAt, Asked
<1> QED
  BY <1>2, <1>3

LEMMA CutLists == IInv /\ ListsPlaced /\ CutPage => ListsPlaced'
<1> SUFFICES ASSUME IInv, ListsPlaced, CutPage, ~recut', ~stuck' PROVE ListsPlaced'
  BY DEF ListsPlaced
<1>1. /\ phase = "request" /\ phase' = "done" /\ Give(Length - Excess) /\ midway' = midway
      /\ resume' = [token |-> next, index |-> Length - Excess + Truncation]
      /\ ~recut /\ ~stuck
  BY DEF CutPage, ResumeIndex, service, user
<1>2. TypeOK /\ PageAt(next) = Asked
  BY CutToken DEF IInv
<1>3. resume' # NoStart /\ resume'.token = next
  <2>1. Length - Excess + Truncation # -1
    BY <1>2, PageTyped, KeptTyped DEF CutPage
  <2> QED
    BY <1>1, <2>1 DEF NoStart
<1>4. PageAt(resume'.token) = Asked
  BY <1>2, <1>3
<1>5. /\ \A i, j \in DOMAIN extras' : i < j => extras'[i] < extras'[j]
      /\ \A i \in DOMAIN extras' : extras'[i] <= Asked
      /\ ~midway => extras' = Numbers(0, Asked)
  BY <1>1, <1>2, ListGiven
<1>6. UpTo(PageAt(resume.token), ~midway /\ (resume.token = NoToken \/ resume.index # 0))'
  <2>1. (UpTo(PageAt(resume.token), ~midway))'
    BY <1>1, <1>4, <1>5 DEF UpTo, Numbers, PageAt
  <2> QED
    BY <2>1 DEF UpTo
<1> QED
  BY <1>1, <1>3, <1>5, <1>6 DEF ListsPlaced

LEMMA MoreLists ==
  ASSUME IInv, ListsPlaced, NEW token \in Page, MorePages(token)
  PROVE  ListsPlaced'
<1> SUFFICES ASSUME ~recut', ~stuck' PROVE ListsPlaced'
  BY DEF ListsPlaced
<1>1. TypeOK /\ Tokens /\ ~first /\ Asked \in Nat
  BY PageTyped, PaginatorAssumption DEF IInv, Tokens, MorePages, Page
<1>2. /\ phase = "more" /\ ~recut /\ ~stuck /\ token = Asked + 1
      /\ extras' = extras /\ midway' = midway /\ first' = first
  BY DEF MorePages, user, seen
<1>3. /\ \A i, j \in DOMAIN extras : i < j => extras[i] < extras[j]
      /\ \A i \in DOMAIN extras : extras[i] <= Asked
      /\ ~midway => extras = Numbers(0, Asked)
  BY <1>2 DEF ListsPlaced, UpTo
<1>4. \A i \in DOMAIN extras : extras[i] \in Nat
  <2>1. Page \subseteq Nat /\ extras \in Seq(Page)
    BY <1>1, PaginatorAssumption DEF Page, TypeOK
  <2>2. \A i \in DOMAIN extras : extras[i] \in Page
    BY <2>1
  <2> QED
    BY <2>1, <2>2
<1>5. token # NoToken /\ [token |-> token, index |-> 0] # NoStart
  BY PaginatorAssumption DEF Page, NoToken, NoStart
<1>6. CASE phase' = "done" /\ resume' = [token |-> token, index |-> 0]
  <2>1. PageAt(resume'.token) = token /\ resume'.token # NoToken /\ resume'.index = 0 /\ resume' # NoStart
    BY <1>5, <1>6 DEF PageAt
  <2>2. \A i \in DOMAIN extras' : extras'[i] <= PageAt(resume'.token)
    BY <1>1, <1>2, <1>3, <1>4, <2>1
  <2> QED
    BY <1>2, <1>3, <1>6, <2>1, <2>2 DEF ListsPlaced, UpTo, PageAt
<1>7. CASE phase' = "PaginationError"
  BY <1>2, <1>3, <1>7 DEF ListsPlaced
<1>8. CASE phase' = "request" /\ kwargs' = token
  <2>1. Asked' - 1 = Asked
    BY <1>1, <1>2, <1>5, <1>8 DEF Asked
  <2>2. UpTo(Asked - 1, ~midway)'
    BY <1>2, <1>3, <2>1 DEF UpTo, Numbers
  <2> QED
    BY <1>1, <1>2, <1>3, <1>8, <2>2 DEF ListsPlaced
<1> QED
  BY <1>6, <1>7, <1>8 DEF MorePages

LEMMA LastLists == IInv /\ ListsPlaced /\ NoMorePages => ListsPlaced'
<1> SUFFICES ASSUME IInv, ListsPlaced, NoMorePages, ~recut', ~stuck' PROVE ListsPlaced'
  BY DEF ListsPlaced
<1>1. /\ phase = "more" /\ phase' = "done" /\ Asked = NumPages /\ resume' = resume
      /\ ~recut /\ ~stuck /\ extras' = extras /\ midway' = midway
  BY DEF NoMorePages, service, user, seen
<1>2. resume' = NoStart
  BY <1>1 DEF IInv, Tokens
<1> QED
  BY <1>1, <1>2 DEF ListsPlaced, UpTo, Numbers

LEMMA GoOnLists ==
  ASSUME IInv, ListsPlaced, NEW limit \in Limits, GoOn(limit)
  PROVE  ListsPlaced'
<1> SUFFICES ASSUME ~recut', ~stuck' PROVE ListsPlaced'
  BY DEF ListsPlaced
<1>1. /\ phase = "done" /\ resume # NoStart /\ first' /\ phase' = "request"
      /\ ~recut /\ ~stuck /\ extras' = extras
      /\ start' = resume /\ kwargs' = resume.token
      /\ midway' = (midway \/ (resume.token # NoToken /\ resume.index = 0))
  BY DEF GoOn, Begin, service, seen
<1>2. Asked' = PageAt(resume.token) /\ Resumed'
  BY <1>1 DEF Asked, PageAt, Resumed
<1>3. UpTo(Asked, ~midway)'
  BY <1>1, <1>2 DEF ListsPlaced, UpTo, Numbers
<1> QED
  BY <1>1, <1>2, <1>3 DEF ListsPlaced

LEMMA RestLists == IInv /\ ListsPlaced /\ (LackKey \/ Stop \/ UNCHANGED vars) => ListsPlaced'
<1> SUFFICES ASSUME IInv, ListsPlaced, LackKey \/ Stop \/ UNCHANGED vars PROVE ListsPlaced'
  OBVIOUS
<1>1. CASE LackKey
  BY <1>1 DEF LackKey, ListsPlaced, service, user, seen
<1>2. CASE Stop \/ UNCHANGED vars
  BY <1>2 DEF Stop, ListsPlaced, UpTo, PageAt, Asked, Resumed, vars, service, user, seen
<1> QED
  BY <1>1, <1>2

LEMMA InitLists == Init => ListsPlaced
<1> SUFFICES ASSUME Init PROVE ListsPlaced
  OBVIOUS
<1>1. extras = << >> /\ Asked = 1 /\ phase = "request" /\ ~Resumed
  BY DEF Init, Asked, Resumed, NoToken
<1>2. Numbers(0, 0) = << >>
  BY NumbersTyped, EmptySeq
<1> QED
  BY <1>1, <1>2 DEF ListsPlaced, UpTo

\* Over all iterations the user gets the secondary list of a page at most once, although
\* a page that was cut is read again, and gets all of them in the end unless an
\* iteration was resumed at the start of a page (paginate.py 162-179).
THEOREM SecondaryListsOnce == Spec => []ExtrasOnce
<1>1. IInv /\ ListsPlaced => ExtrasOnce
  BY DEF ListsPlaced, UpTo, ExtrasOnce, Finished
<1>2. IInv /\ ListsPlaced /\ [Next]_vars => (IInv /\ ListsPlaced)'
  BY StepKeeps, TakeLists, CutLists, MoreLists, LastLists, GoOnLists, RestLists DEF Next, Iterate
<1> QED
  BY InitIInv, InitLists, <1>1, <1>2, PTL DEF Spec
=============================================================================
