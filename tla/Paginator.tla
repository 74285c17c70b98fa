----------------------------- MODULE Paginator -----------------------------
(***************************************************************************)
(* PageIterator of src/botocore/paginate.py: a user reads a long result    *)
(* page by page, stops after max_items and goes on later with a new        *)
(* iterator whose starting token is the resume token of the last one.      *)
(*                                                                         *)
(* The service is external.  Its result is a sequence of items cut into    *)
(* pages: page p holds the items bound[p] + 1 to bound[p + 1].  A page     *)
(* other than the first is asked for by a token, here its number, and      *)
(* every page also holds a list under a secondary result key, which is     *)
(* represented by the page number.                                         *)
(***************************************************************************)
EXTENDS Integers, Sequences

CONSTANTS
  NumPages,     \* pages of the result
  Limits,       \* values of max_items
  NoLimit,      \* max_items is None
  MaxLength,    \* bound on the length of a page
  MaxResumes    \* bound on the iterations begun from a resume token

Page == 1..NumPages
NoToken == 0          \* None
Token == {NoToken} \cup Page

ASSUME PaginatorAssumption ==
  /\ NumPages \in Nat \ {0}
  /\ NoLimit \notin Nat /\ Limits \subseteq Nat \cup {NoLimit}
  /\ MaxLength \in Nat
  /\ MaxResumes \in Nat

VARIABLES
  bound,      \* the service's pages
  maxItems,   \* _max_items
  start,      \* _starting_token: the token of a page and an index into it
  kwargs,     \* the token in current_kwargs
  next,       \* next_token
  previous,   \* previous_next_token
  total,      \* total_items, counted when there is a limit
  first,      \* first_request
  trunc,      \* starting_truncation
  resume,     \* resume_token, of the same form as start
  phase,      \* what the iterator does next
  resumes,    \* iterations begun from a resume token
  delivered,  \* history: the items the user was given, over all iterations
  extras,     \* history: the pages whose secondary list the user was given
  recut,      \* history: a resumed iteration was cut inside a page it got by a token
  midway,     \* history: an iteration was resumed at the start of a page
  stuck       \* history: the service answered with the token it was asked with

service == <<bound, stuck>>
user == <<maxItems, start, resumes, midway>>
seen == <<delivered, extras, recut>>
vars == <<service, user, seen, kwargs, next, previous, total, first, trunc, resume, phase>>

NoStart == [token |-> NoToken, index |-> -1]
Start == [token : Token, index : Nat] \cup {NoStart}
Resumed == start # NoStart

TypeOK ==
  /\ bound \in [1..(NumPages + 1) -> Nat]
  /\ \A p \in Page : bound[p] <= bound[p + 1]
  /\ maxItems \in Limits /\ start \in Start /\ resume \in Start
  /\ kwargs \in Token /\ next \in Token /\ previous \in Token
  /\ total \in Nat /\ trunc \in Nat
  /\ IF maxItems = NoLimit THEN total = 0 ELSE total <= maxItems
  /\ first \in BOOLEAN /\ recut \in BOOLEAN /\ midway \in BOOLEAN /\ stuck \in BOOLEAN
  /\ phase \in {"request", "more", "done", "PaginationError", "TypeError"}
  /\ resumes \in 0..MaxResumes
  /\ delivered \in Seq(Nat \ {0}) /\ extras \in Seq(Page)
-----------------------------------------------------------------------------
\* paginate makes an iterator for a limit and a starting token; __iter__ begins.
Begin(limit, from) ==
  /\ maxItems' = limit /\ start' = from
  /\ kwargs' = from.token
  /\ next' = NoToken /\ previous' = NoToken
  /\ total' = 0 /\ first' = TRUE /\ trunc' = 0
  /\ resume' = NoStart /\ phase' = "request"

Init ==
  /\ bound \in {b \in [1..(NumPages + 1) -> 0..(NumPages * MaxLength)] :
                  b[1] = 0 /\ \A p \in Page : b[p + 1] - b[p] \in 0..MaxLength}
  /\ maxItems \in Limits /\ start = NoStart
  /\ kwargs = NoToken /\ next = NoToken /\ previous = NoToken
  /\ total = 0 /\ first = TRUE /\ trunc = 0
  /\ resume = NoStart /\ phase = "request"
  /\ resumes = 0 /\ delivered = << >> /\ extras = << >>
  /\ recut = FALSE /\ midway = FALSE /\ stuck = FALSE

\* The user goes on from the resume token of the last iterator.
GoOn(limit) ==
  /\ phase = "done" /\ resume # NoStart
  /\ resumes < MaxResumes
  /\ resumes' = resumes + 1
  /\ Begin(limit, resume)
  /\ midway' = (midway \/ (resume.token # NoToken /\ resume.index = 0))
  /\ UNCHANGED <<service, seen>>
-----------------------------------------------------------------------------
\* The page that is asked for; only the first needs no token.
Asked == IF kwargs = NoToken THEN 1 ELSE kwargs
Low(a, b) == IF a <= b THEN a ELSE b

\* The page's items from number Lower + 1 on: _handle_first_request cuts off those
\* before the index of the starting token.
Lower ==
  IF first /\ Resumed THEN Low(bound[Asked] + start.index, bound[Asked + 1]) ELSE bound[Asked]
Length == bound[Asked + 1] - Lower
\* truncate_amount, which counts when it is positive.
Excess == IF maxItems = NoLimit THEN 0 ELSE total + Length - maxItems
Truncation == IF first /\ Resumed THEN start.index ELSE trunc

\* What a page gives the user: n items, and the secondary list, which
\* _handle_first_request empties.
Numbers(low, n) == [i \in 1..n |-> low + i]

\* Mutant of Give: the secondary list stays on the first page of a resumed iteration.
Give_AllExtras(n) ==
  IF stuck THEN UNCHANGED <<delivered, extras>>
  ELSE /\ delivered' = delivered \o Numbers(Lower, n)
       /\ extras' = Append(extras, Asked)

Give(n) ==
  IF stuck THEN UNCHANGED <<delivered, extras>>
  ELSE /\ delivered' = delivered \o Numbers(Lower, n)
       /\ extras' = IF first /\ Resumed THEN extras ELSE Append(extras, Asked)

\* The whole page fits.
TakePage ==
  /\ phase = "request"
  /\ Excess <= 0
  /\ Give(Length)
  /\ total' = IF maxItems = NoLimit THEN total ELSE total + Length
  /\ trunc' = Truncation
  /\ first' = FALSE
  /\ phase' = "more"
  /\ UNCHANGED <<service, user, kwargs, next, previous, resume, recut>>

\* Mutant of ResumeIndex: what was cut off before the first item is forgotten.
ResumeIndex_NoTruncation(kept) == kept

ResumeIndex(kept) == kept + Truncation

\* _truncate_response: the page is cut to the items that are left, and the resume
\* token is next_token with an index.
CutPage ==
  /\ phase = "request"
  /\ Excess > 0
  /\ Give(Length - Excess)
  /\ resume' = [token |-> next, index |-> ResumeIndex(Length - Excess)]
  /\ trunc' = Truncation
  /\ recut' = (recut \/ (Resumed /\ IF first THEN start.token # NoToken ELSE trunc > 0))
  /\ first' = FALSE
  /\ phase' = "done"
  /\ UNCHANGED <<service, user, kwargs, next, previous, total>>

\* A page without items may lack the result key: the slice of None is a TypeError.
LackKey ==
  /\ phase = "request"
  /\ first /\ Resumed
  /\ bound[Asked] = bound[Asked + 1]
  /\ phase' = "TypeError"
  /\ UNCHANGED <<service, user, seen, kwargs, next, previous, total, first, trunc, resume>>

\* _get_next_token, on the last page.
NoMorePages ==
  /\ phase = "more"
  /\ Asked = NumPages
  /\ next' = NoToken
  /\ phase' = "done"
  /\ UNCHANGED <<service, user, seen, kwargs, previous, total, first, trunc, resume>>

\* Mutant of SameAgain: the iterator does not look at the last token.
SameAgain_Never(token) == FALSE

SameAgain(token) == previous # NoToken /\ previous = token

\* _get_next_token: the token of the next page, or the one of this page again.
MorePages(token) ==
  /\ phase = "more"
  /\ \/ Asked < NumPages /\ token = Asked + 1 /\ UNCHANGED stuck
     \/ kwargs # NoToken /\ token = kwargs /\ stuck' = TRUE
  /\ next' = token
  /\ IF total = maxItems
     THEN /\ resume' = [token |-> token, index |-> 0]
          /\ phase' = "done"
          /\ UNCHANGED <<kwargs, previous>>
     ELSE IF SameAgain(token)
     THEN phase' = "PaginationError" /\ UNCHANGED <<resume, kwargs, previous>>
     ELSE kwargs' = token /\ previous' = token /\ phase' = "request" /\ UNCHANGED resume
  /\ UNCHANGED <<bound, user, seen, total, first, trunc>>

Iterate ==
  \/ TakePage \/ CutPage \/ LackKey
  \/ NoMorePages \/ \E token \in Page : MorePages(token)

\* The user has all, has enough, or got an error.
Stop ==
  /\ phase \notin {"request", "more"}
  /\ phase = "done" => resume = NoStart \/ resumes = MaxResumes
  /\ UNCHANGED vars

Next == Iterate \/ (\E limit \in Limits : GoOn(limit)) \/ Stop

Spec == Init /\ [][Next]_vars
\* A request ends by its time-out, and the user consumes what is yielded.
FairSpec == Spec /\ WF_vars(Iterate)
-----------------------------------------------------------------------------
Finished == phase = "done" /\ resume = NoStart

\* Over all iterations the user is given the items in order, none twice and none left
\* out, and in the end all of them, unless a resumed iteration was cut where the code
\* makes a wrong resume token (paginate.py 75 and 205; 86-129, 162-206).
NothingLostOrRepeated ==
  ~recut /\ ~stuck =>
    /\ delivered = Numbers(0, Len(delivered))
    /\ Finished => Len(delivered) = bound[NumPages + 1]

\* No secondary list is given twice although the page that was cut is read again, and
\* none is left out unless an iteration was resumed at the start of a page, whose list
\* _handle_first_request empties as well (paginate.py 173-179).
ExtrasOnce ==
  ~recut /\ ~stuck =>
    /\ \A i, j \in DOMAIN extras : i < j => extras[i] < extras[j]
    /\ Finished /\ ~midway => extras = Numbers(0, NumPages)

\* Every iteration ends, also when the service answers with the same token again
\* (paginate.py 120-124).
EveryIterationEnds == phase = "request" ~> phase \notin {"request", "more"}
=============================================================================
