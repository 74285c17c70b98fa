# Verification of jcsapitest

`jcsapitest` is a Python 2 test client for the JCS compute and VPC services.
It consists of an in-tree fork of botocore (`src/botocore`), a functional test
harness (`src/jcsapi/tests/functional`), Rally load-test plugins
(`src/rally-scenarios`), and operations tools (`src/tools`,
`src/RegressionSchedular.py`, `src/smtp.py`, `src/install.sh`). The server that
the tests talk to is not in the repository; neither are its unit tests'
subjects.

This directory holds TLA+ models of the parts of that code that carry state,
the TLC runs that check them on small instances, and TLAPS proofs.

## 1. Inventory

| Component | Source | State | Operations | What is hard | Module |
|---|---|---|---|---|---|
| Event emitter | `botocore/hooks.py` | prefix trie of handlers, lookup cache, unique ids with counts | register (first/middle/last), unregister, emit, copy | stale cache, objects shared by copies, order of wildcards | `PrefixTrie`, `HierarchicalEmitter` |
| Deprecated call path | `botocore/operation.py` | per-call signing closure on the shared emitter, lock | `Operation.call` | threads interleave registration, lookup, signing and removal | `OperationCall` |
| Request loop | `botocore/endpoint.py`, `retryhandler.py`, `awsrequest.py` (`reset_stream`) | attempt number, request, stream position | send, needs-retry, sleep, rewind | retry bounds, checker order, errors on the last attempt, unseekable bodies | `RetryContract`, `RetryLoop` |
| Request signing | `botocore/auth.py`, `signers.py`, `handlers.py` | request dict that outlives its attempts | prepare parameters, sign, send again | what an attempt leaves in the body the next one signs | `RequestSigning` |
| Credentials | `botocore/credentials.py`, `utils.py` (metadata fetcher) | access key, secret, token, expiry | refresh on read, load | expiry between two reads, concurrent refresh, failing refresh | `Credentials` |
| Session | `botocore/session.py`, `config.py`, `credentials.py` | components, profile, variables, cached credentials | lazy components, profile switch, create client | caches that outlive what they were computed from | `Session` |
| Clients and their data | `botocore/client.py`, `service.py`, `loaders.py`, `translate.py`, `regions.py` | JSON cache, retry configuration, registered retries | create client, create service, merge, match endpoint rules | cached structures changed in place | `Clients` |
| Pagination | `botocore/paginate.py` | tokens, truncation, resume token | iterate, truncate, resume | resume must neither lose nor repeat an item | `Paginator` |
| Waiters | `botocore/waiter.py` | attempt number, current state | wait | acceptor order, error matching, attempt bound | `Waiter` |
| HTTP connection, response body | `botocore/awsrequest.py`, `response.py` | Expect-100 handshake flags, response class, amount read | send, handle interim response, read | reuse of a connection in a state left by the last request; short reads | `Connection` |
| Serialization, parsing, validation | `botocore/serialize.py`, `parsers.py`, `validate.py`, `model.py` | none | format and parse | names that meet, lists of one, errors in many forms | `Wire` |
| Resource clean-up and EC2 waiters of the harness | `functional/base.py` | trash bins and sequence numbers, per test and shared; elapsed time | add, cancel, clean up; wait for a state, for absence | class attributes shadowed in subclasses; failure half-way; time-out racing the answer | `ResourceCleanUp` |
| Scenario base, client, SSH | `functional/scenario/base.py`, `botocoreclient.py`, `ssh.py` | resources created, shared session | create and register clean-up | failure between the two | `ResourceCleanUp` (`run_instance`) |
| Algorithms | `botocore/utils.py` | none | dot-segment removal, tree hash, merging | boundaries | - |
| Rally plugins | `rally-scenarios/plugins` | lists of servers and addresses | prepare, clean up | failed association | - |
| Tools | `tools`, `RegressionSchedular.py`, `smtp.py`, `install.sh` | git branch, configuration files, mail | run, restore | exit without restoring | - |
| Left aside | `botocore/vendored`, `botocore/data`, `tools/db/*.sql`, server unit tests | - | - | third-party code, data, tests of code that is absent | - |

### How the parts interact

A **session** owns one emitter, one loader, one credential object and one
endpoint resolver. A **client** is created from them and gets a *copy* of the
emitter (`client.py:135`), on which it registers its signing handler
(`client.py:223`). `client.op(...)` emits `before-parameter-build`,
serializes, emits `before-call`, and hands the request to the **endpoint**.
The endpoint creates a request and emits `request-created`, whose handler signs
with the credentials; it sends over a pooled **connection**, parses, emits
`needs-retry`, and repeats as long as a retry handler returns a delay.
Paginators and waiters call the client method repeatedly. The deprecated path
(`Operation.call`) does the same on the *session's* emitter and registers a
signing closure for the time of the call. The test harness calls the client
through `botocoreclient.py`, polls states with its own waiters and keeps trash
bins of the calls that undo what tests made.

## 2. Modules and runs

A component's module declares its constants with a named assumption, its
variables, one action per operation, and its properties. `MC...` modules give the
constants values for TLC, and `...Proofs` modules hold theorems.

| Module | Run | Distinct states | Proofs |
|---|---|---|---|
| `PrefixTrie`, `HierarchicalEmitter` | `emitter`, `emitter_furthest_first` | 123 000 | `HierarchicalEmitterProofs` |
| | `emitter_ids` | 290 000 | |
| `OperationCall` | `call` | 472 000 | `OperationCallProofs` |
| `RetryLoop`, which implements `RetryContract` | `retry_loop`, `retry_embedded_error` | 72 000 | `RetryLoopProofs` |
| `Credentials` | `credentials` | 555 000 | `CredentialsProofs` |
| `Paginator` | `paginate` | 328 000 | `PaginatorProofs` |
| `Session` | `clients` | 889 000 | `SessionProofs` |
| `Clients` | `clients` | 25 000 | `SessionProofs` |
| `RequestSigning` | `messages` | 12 400 | `CredentialsProofs` |
| `Wire` | `messages` | 14 000 | - |
| `Transfer`, which composes `Connection` and `Waiter` | `transfer` | 710 000 | `TransferProofs` |
| `ResourceCleanUp` | `clean_up` | 99 700 | `ResourceCleanUpProofs` |

`Session` and `Clients` share a module of proofs. `PrefixTrie`
searches with a recursive function, so that it can be used in proofs; `Wire` computes
over nested values with recursive operators, and has no theorem. The runs `clients` and
`messages` each explore two machines that share no variable: every step is one of the one
or of the other, which begins only if the other has not.

An operator named `X_Something` that stands before `X` is `X` with a plausible bug,
a mutant: for each property of each run there is one that the property catches.
They are not part of any specification.

## 3. What is modelled and checked

Properties that are several facts about one hazard are stated as the conjunction of
named parts, so that a counterexample names the part that fails. Type invariants are
not among the properties of the runs: they are the theorems `TypesHold` of section 4.

### Event emitter: `PrefixTrie`, `HierarchicalEmitter`

`PrefixTrie` is `_PrefixTrie` of `hooks.py`: a trie is a function from the
prefixes in use to handler lists with a first, middle and last part. The search
is the code's own stack-driven depth-first walk, one step of a recursive
function per node. `HierarchicalEmitter` adds the lookup cache, unique ids
with counts and `__copy__`. What Python shares between copies is behind
references: `cacheOf` says which `_lookup_cache` dict an emitter uses, `uids`
which of the per-id dicts. Each way through a public method is one action (`Register`,
`RegisterId`, `RegisterAgain`, `CountMismatch`, `Unregister`,
`UnregisterUnknownId`, `UnregisterOneOfMany`, `UnregisterId`, `Emit`, `Copy`); a
call is atomic.

- `CacheCoherent`: a cached list of handlers is what a search would find now.
- `SearchIsSorted`: the walk calls every node that matches exactly once, and where one
  name is the beginning of another the longer one first. Where two paths part, the
  wildcard's goes first. That is the order of a sort that is written down independently
  of the walk (`CallingOrder`).
- `CallsWhatIsDue`: how often a handler stands in the list of a name is how often it was
  registered there and not taken away, counting each id once from its first register call
  to the unregister call that matches the last. So no handler stays when its id is freed,
  none goes while its id is due, and none is there twice. The account (`balance`, `home`,
  `loose`) is kept from the calls alone. Ids may be counted or not, be copied with their
  emitter, unregistered under another name than their own (the id is popped first, and its
  handler stays behind), and their handlers may be taken away directly.

Two things the account cannot carry: a handler that was taken from an id by an
`unregister` of the handler itself, and an id whose record, which is shared with the
copies of the emitter, another emitter has counted on. From there on nothing is claimed of
that name and handler (`Upset`).

Two promises of comments do not hold. `FurthestFirst`, a run of its own: the handlers of
the node furthest from the root do not come first where a wildcard stands at the parting
of two paths, because its branch is popped last and put in front. And an id is freed
before all its register calls are matched (`session.py` 664-666), if calls on a copy count
too; that is the second case of `Upset`.

The run `emitter` has the session's emitter and a copy, and two dicts, enough for sharing
and for being replaced. Its three names have wildcards on the first and the second level,
and one is the beginning of another; the session's emitter alone has three handlers, the
two emitters have two. `emitter_ids` has an emitter, a copy, an id with two names and
counts to 2; its events are none, for an id plays no part in a search.

### The deprecated call path: `OperationCall`

Threads run `Operation.call` on one shared emitter. The grain is the bytecode:
the walk down the trie (`Walk`), the test for a child and its creation (`Link`),
the test for a list and its creation (`Values`, `SetList`), the append, the reset
of the cache, the lookup, the search, the store, each closure's two tests and the
lock, the sending and the removal. Nodes, lists and the cache are objects, so a
thread can go on using one that others no longer reach.

- `NoUnsignedRequest`: no request leaves unsigned, in an operation that was called
  before (`warm`). Two *first* calls may both miss the node and link their own; one of
  them is then sent unsigned.
- `IdleEmitterIsClean`: when no call is in progress no closure is left where a search
  finds it, called before or not.
- `EveryCallEnds`, under weak fairness of each thread's steps: the operating system
  schedules threads, and the lock is released by a `with` statement in the step after it
  is taken.

Nothing ensures that a call is signed by *its* signer: with two calls in progress the
closure that comes first signs both requests. The run `call` has two threads with two
calls each, three in all, of two attempts: a call may overlap the end of one and the
start of another.

### The request loop: `RetryContract`, `RetryLoop`

`RetryLoop` is one call of a client method: `_make_api_call`,
`Endpoint._send_request` with `_get_response`, the checkers of `retryhandler.py`,
`check_for_200_error`, redirects and the rewinding of the body. The server may
answer anything from a set that has one response for every way in which the
parser, the checkers and `ClientError` tell responses apart; the order in which
`MultiChecker` runs the checkers is chosen in `Init`, because the policies are a
dict. The length of the delay is left out, and so are `OSError`s of a body.

`RetryContract` is what a caller may rely on: at most `MaxAttempts` requests,
another one only after a transient outcome, and an outcome is delivered only
when it is final or no attempt is left. `KeepsContract` is that specification
with a refinement mapping: `made` counts the outcomes seen, `last` is the class
of the last one, taken from the verdict of the retry policies without the loop's
counting, and `ended` tells a delivered outcome from a call broken off by an
unseekable body, a failing signer or a body that cannot be parsed.

- `WholeBodySent`: no attempt is sent from a stream that was not rewound, except
  through a redirect of a stream without `seek`.
- `SuccessIsReal`: a call that returns a result got a response below 300 without
  an error in it.
- `EveryCallEnds`: under weak fairness of `Next`; every step is the thread's own,
  a request is bounded by its time-out, a sleep by its length.

`MaxAttempts` is 3: the first attempt, one that is neither first nor last, and
the last. `MaxRedirects` is 2 for the same reason. The run `retry_embedded_error`
checks what a comment says of an error embedded in a 200 response, that it is handled
like a 500: `EmbeddedErrorLikeA500` asks that a call which got one as its last response
ends as one that got a real 500, and fails.

### Credentials: `Credentials`

Threads sign with one `RefreshableCredentials` object. A signature is a fixed
sequence of reads of the properties (`SignatureReads`, one for SigV2 and one for
the signers that read the token first); each read is `_refresh` (`Refresh`),
possibly the requests of `InstanceMetadataFetcher` (`RequestAgain`, `ListRoles`,
`FetchDocument`, `FetchFails`), the four assignments of `_set_from_data` one by
one (`SetNext`), and the return of the attribute (`Return`). The metadata service
is external: it hands out generations of credentials, and is assumed to replace
one at least `Renewal` before it expires. A value is represented by its
generation. Time (`Tick`) passes while threads wait for the network or do not
sign; the statements between two waits take no time, yet other threads may run
between them.

- `Coherent`: `expiry_time` is never ahead of the keys, and the four attributes
  are of one generation when no thread sets them.
- `FreshWhenRead`: no read returns a key that has expired.
- `OneFetchPerSignature`: a signature fetches metadata again only if the service
  was late to renew it.
- `EverySignEnds`, under weak fairness of each thread: scheduling, and the
  time-out and the bounded number of attempts of a metadata request.

The first three are stated for behaviours in which no two threads set the
attributes *from different metadata* at the same time; the history variable
`overlapped` says when they have. Without that condition TLC violates each of
them: one thread is suspended between two assignments, the service renews,
another thread sets all four attributes, and the first then overwrites some of
them with the older generation. Nothing in the code prevents it. Two threads, two
generations, a lifetime of 3 and a refresh 2 before the expiry are the least with which
a refresh can be early, late, or overtaken by another.

### Pagination: `Paginator`

A user reads a result page by page with `PageIterator`, stops after `max_items`
and goes on with a new iterator that starts at the resume token of the last one.
The service is external and stable: its result is a sequence of items cut into
pages, and the token of a page is its number. It may hang, that is answer with
the token it was asked with; the history variable `stuck` records that. The
local variables of `__iter__` are variables of the model (`kwargs`, `next`,
`previous`, `total`, `first`, `trunc`); a request with what is done to its page
before it is yielded is one action (`TakePage`, `CutPage`, `LackKey`), what
follows the `yield` another (`NoMorePages`, `MorePages`).

- `NothingLostOrRepeated`: over all iterations the items come once, in order,
  and in the end all of them.
- `ExtrasOnce`: the list under a secondary result key, which `_truncate_response`
  leaves whole, is not given again when the rest of the page is read. It may be
  lost: `_handle_first_request` empties it also when the token names the start of
  a page (`midway`).
- `EveryIterationEnds`, under weak fairness of the iterator: requests end by
  their time-out, and the user consumes what is yielded.

The first two hold up to the first time a *resumed* iteration is cut inside a page it got
by a token (`recut`): its resume token is then wrong. On its first page the token is
`None` and leads back to the first page of the result; on a later page the index is too
large by that of the starting token. Three pages of up to three items are the least with
a first, a middle and a last page that can each be cut inside; limits 0 to 3 end inside,
at the end of and beyond a page; four resumed iterations pass every page once more than
needed.

### The session: `Session`

One session from its creation: assignments of `profile`, `set_config_variable`, the
provider property, the lazily made components (resolver of credentials, loader,
endpoint rules), cached credentials, and `create_client` up to the call of
`ClientCreator`. What a session may find in its files, environment and instance is a
`world`, one of the set `Worlds`, and does not change while the session lives. A value
is named for where it came from, so a property can say that it came from the wrong
place. A component is `deferred`, `made` or `lost`: `ComponentLocator` pops the factory
before it calls it, so a factory that raises is gone.

- `KeysOfTheProfile` (`ClientOfOneProfile`, `ChosenProfileBeatsEnvironment`): a
  client's keys belong to the profile it is made under, and those of the
  environment never serve a chosen one. The exceptions are the code's: assigning
  `session.profile` leaves `_credentials` cached, and a profile given by
  `set_config_variable` resets nothing.
- `OneLoaderPerClient`: the endpoint rules of a client were read by the loader of its
  service model.
- `LossOutlastsItsCause`, an action property: a component is lost only to a factory
  that fails, on an unknown profile, on the first read of files of which one cannot be
  parsed, or, for the endpoint rules, on a loader that is lost or does not find them. It
  stays lost when the cause is gone, until the profile is assigned or a loader registered.

A config file that cannot be parsed fails every read of the configuration; a credentials
file only the first, after which it is ignored, since `_config` is set by then. Four
operations suffice: a failure, a change, and the making of a client after each.

### Clients and their data: `Clients`

The clients and `Service` objects that one session makes one after the other. The
loader returns one object for a file to every reader, `resolve_references` puts a policy's
definition in the place of a reference to it, and `merge_dicts` writes into both: the
policies are objects on a `heap`, named for the file section that wrote them. The version
search of `loaders.py`, the endpoint rules of `regions.py` with their constraints, and
the choice of region and signature version in `endpoint.py` and `client.py` are
operators.

- `RetriesAreStable`: all clients of a service retry alike, although the
  configuration is merged again and has changed.
- `RetriesAsWritten` (`OwnPoliciesAreKept`, `FirstRetriesAsWritten`): what a service
  writes itself is kept whatever was built before, the first client of a session retries
  as the file says, and no client lacks a policy. That *later* clients retry as written
  does not hold: the default section collects the policies of the services before.
- `SignedWhereItIsServed`: region and signature version agree with the rule that gave
  the host. (A `signature_version` that the configuration file or the client's own
  configuration sets in its place, `client.py` 109-119 and 153-154, is left out.)
- `ServiceIsCompatible`: the newest version that fits, from the first path that has it.

The retry files, rules and search paths of the run are cut from those in
`botocore/data`: one service of each kind that the merge or the rules tell apart. Three
operations let a client or a service meet what two others have changed.

### Signatures over attempts: `RequestSigning`

A call of a client from its parameters on: the handlers that encode and checksum (which
are not idempotent), the request dict, and for every attempt the request made of it and
its signature in one of five versions. Headers are copied into each request and may have
several values; a body that is a dict is shared by all attempts, and SigV2 signs in it.
A signature is a pair of the key's generation and what it was computed over; the server
is external, and computes it again from the message as sent. Between attempts time
passes and credentials are renewed.

- `EveryAttemptVerifies`: what is signed is what is sent, in every attempt, after
  the bucket has moved into the host, or two signers have signed.
- `AttemptsLeaveNoTrace` (`EveryAttemptIsFresh`, `EncodedOnce`): time, key and token are
  those of the attempt, and the body is encoded once.
- `PresignedUrlVerifies`: the url that a snapshot copy carries is accepted by the source
  region, and asks it for every parameter of the body and for none of the stamps that
  SigV2 has since written there. (`copy_snapshot_encrypted` creates its request without an
  operation model, so no signer hears of it: only the presigner signs. The endpoint's
  name is taken to hold the region that the code replaces.)

The run's calls have paths of none, one and two segments, a header given by the user
where a signer writes one, a checksum or a url given by the user or left to a handler.
What the module assumes of calls (`CallShape`) is that the user gives no session token,
no parameter that a signature adds to a body or a url, no second date where a signer
writes `Date`, and that no endpoint
is its own bucket's host. Three attempts and a clock to 3 allow a renewal before the second and a change of time
before the third.

### Wire formats: `Wire`

Validation, the serializers of the five protocols, and the parsers of their answers and
errors, as operators on shapes and values; a call, an answer and a refusal are the
actions. The server is external: it reads names as the protocol says and answers
accordingly.

- `NothingIsLost` (`SameRequestSameCall`, `NothingIsOverwritten`, `NoErrorIsLeftOut`):
  calls that say different things send different requests, no two parameters meet under one
  name, and validation reports every error of a call at once. Two exceptions are the code's. JSON bodies and headers have times of whole seconds
  (`_timestamp_unixtimestamp`, `_timestamp_rfc822`), so a fraction is lost there; the
  run gives fractions to every protocol. And two flattened lists of the query protocol
  whose items are named alike (`Namesakes`) are not told apart, and one overwrites the
  other when both are given. The run has a pair of them; of the 55 service models under
  `src/botocore/data/aws` none has, in any structure reachable from an input.
- `AnswersAreUnderstood` (`AnswerIsReadBack`, `ErrorIsNamed`): the caller gets what the
  server meant, in lists of one and of none, in headers and nested maps, and in every
  form of error. The request id of an error is excepted where the parser does not look
  for it: in rest-json, and under `x-amzn-requestid` when a rest-xml error has no body. So
  "`RequestId` will always be present", as the docstring of `parse` has it (`parsers.py`
  199-201), is not what the code does.

The shapes of the run have a structure in a list, a list in a map, flattened and renamed
members, and values at each place of an HTTP request; two calls are compared, and one may
be answered. The operators are recursive over values, so there is no proof.

### Connection, response body and waiter: `Connection`, `Waiter`, `Transfer`

`Connection` is `AWSHTTPConnection` on top of httplib's: a request that expects a 100
(`SendRequest`), the interim answer (`HandleExpect`), the response class that is replaced
to answer from the status already read, and chunked bodies, which the requests library
sends past `_send_request`. The object survives the closing of its socket, with the flags
the last request left. `StreamingBody` is the last part: reads of any portion, with the
check of the length. The server may answer early or late, send a 100 or none, drop the
connection, send what is not HTTP or a status line without a number, or break off inside
the headers of a 100. After the last, if it has closed, `_consume_headers` reads empty
lines for ever (phase `spins`): that upload never ends, its connection never returns to
the pool, and the next request gets a new one. `Waiter` is `waiter.py` with acceptors as data.
`Transfer` composes both: a waiter polls over a connection on which other threads upload
and download, one request at a time as a pooled connection is used.

- `AnswersReachTheirCallers` (`OwnAnswer`, `PlainIsNeverMisread`): each caller gets
  the answer to its own request. The exception is the code's: only a plain request puts the
  response class back, so an upload that follows a refused one on the same
  object is answered with the *earlier* status (`Misread`, history `misread`).
- `RefusedBodyStays`: a server that refuses while the client waits gets no body.
- `StreamIsWhole`: the end of a stream without an error is the end of the body, and
  an error means that it was cut, unless the caller read nothing on purpose.
- `WaitsAsConfigured` (`BoundedPolling`, `LastAnswerDecides`): at most the configured
  number of polls with a sleep between two, and the first acceptor that matches the last
  answer decides.
- `SuccessIsSeen`: a waiter succeeds only if the server described a state that it waits
  for, whatever the other requests on the connection were.
- `EveryWaitEnds`, under weak fairness of the transport, the polls and the sleeps: threads
  are scheduled, and a blocked read has a time-out, so every request ends but an upload
  that spins. A poll expects no 100 and cannot spin, and it need not wait for one that
  does, as the pool gives it another connection. The server owes nothing. (Of the loop that
  `_consume_headers` has, a comment in `_tunnel` says that it is a bug of httplib's,
  `awsrequest.py` 81-83.)

Statuses are one of each class the code tells apart, one of them early; bodies have
length 0, 2 or none; waiters have two attempts; two uploads or downloads are enough for
one to leave a flag and the next to meet it, with a poll between or not.

### Resource clean-up: `ResourceCleanUp`

Test classes of `functional/base.py` run one after another: `setUpClass`, tests,
`tearDown`, `tearDownClass`. Tests create resources and add clean-ups to a bin per level;
the class-level bin is one dict for all classes while each counts its own keys.
`_state_wait`, `_state_wait_gone` and `wait_no_exception` are an `EC2Waiter` (`Ask`,
`Answer`) whose pauses grow. A server comes with a root volume, `kept` beyond it until
`set_delete_on_termination_flag_root_vol` has it `bound`; nobody looks at the answer. A
test may delete what it made and cancel the clean-up, and then wait, or not, as
`test_create_root_volume_snapshot` does with its snapshot. The cloud is external: it may
fail a resource at creation or deletion, refuse a call, or stay silent. A refused deletion
is only logged and not counted; `reports` counts that as a report, because a reader of the
log can find it. The history `trusted` has the resources whose deletion was accepted and
not waited for, by a test or by a clean-up whose function has no waiter.

- `LeaksAreReported`: what outlives the classes was reported, or trusted. Root volumes are
  included once they are bound; one that the cloud has not bound outlives its server, and
  nothing says so.
- `DependentsGoFirst`: nothing is deleted under what lives in it, unless a failure was
  recorded or the dependent's deletion was trusted.
- `NoCleanUpIsOverwritten`, an action property: the shared bin never loses an entry to
  another with its key.
- `BoundedWait`: a wait overruns the time-out by less than its longest pause.
- `CleanUpsEnd`, under weak fairness of polls and clean-ups; the cloud owes no progress.
  `FairSpec` does not say that tests end.

A server in a security group is a dependency, one resource whose deletion is waited for,
and one whose is not; a time-out of 2 with steps of 1 lets the state come before, at and
after it; three classes share the bin, so that one may fail between two others.

### Where the code falls short of what it says

Two disagreements of the code with what its comments say are runs of their own:

| Run | Property | What it shows |
|---|---|---|
| `retry_embedded_error` | `EmbeddedErrorLikeA500` | an error inside a 200 response ends in a `KeyError` instead of the `ClientError` that a 500 raises |
| `emitter_furthest_first` | `FurthestFirst` | a handler of a nearer node is called before one further from the root, where a wildcard stands at the parting of their paths |

Others were met while modelling and are conditions of the properties above: an error of
rest-json without the request id that a docstring promises; an upload that reads for ever
when the server closes inside the headers of a 100; an id freed by calls on a copy of the
emitter, or popped while its handler stays behind under another name; a first call sent unsigned
and a call signed by another's signer (`OperationCall`); credentials mixed by overlapping
refreshes; a resume token that is wrong in a resumed iteration; credentials that outlive
`session.profile` and components lost to a failed factory; policies of one service that
reach the clients of later ones; uploads answered with the status of an earlier refusal;
refused deletions that are only logged, deletions nobody waits for, and root volumes whose
flag nobody checks.

### Bounds

Counters that the code does not bound are bounded in guards by a constant of
that purpose: `MaxHandlers` and `MaxCount` of the emitter, `MaxCalls` and `TotalCalls`
of threads, `MaxGeneration` of the metadata service, `MaxLength` of a page and
`MaxResumes` of the user, `MaxSteps` of a session, `MaxCreations` of its clients, `MaxTime` of
the signing clock, `MaxCalls` of `Wire`, `MaxRequests` of other threads, and
`MaxClasses` of the test runner. `MaxAttempts`, `MaxRedirects`, `NumAttempts` and the
`maxAttempts` of waiters are the code's own parameters. History variables saturate
or are reset. Handlers and references are interchangeable in the runs of the emitter, where
no liveness is checked. `CHECK_DEADLOCK FALSE` stands where a bounded user has
used up its operations: `clients`, `messages`, `transfer`, and `clean_up`, whose test
runner stops.

## 4. What is proved

The theorems hold for every value of the constants that satisfies the module's
assumption: any number of threads, emitters, names, attempts, pages, resources.

| Theorem | Statement | Argument |
|---|---|---|
| `CacheAlwaysCoherent` | `Spec => []CacheCoherent` | Coherence alone is not inductive: an emitter that writes into a shared dict must not spoil it for the others. `IInv` adds that emitters that share a dict have equal tries, which holds because every change of a trie moves its emitter to a fresh dict. |
| `WarmRequestsAreSigned` | `Spec => []NoUnsignedRequest` | `IInv`, where the operation was called before: the chain of nodes is complete and nobody relinks it (`WarmChain`, `OnChain`); from its append to its removal a thread's closure is in the list (`OwnClosureListed`), so no search made during a call, and no list that is cached or found, is empty (`FoundSomething`); the first closure of a list signs (`FirstSigns`). |
| `OnlyWhatIsDueIsCalled` | `Spec => []CallsWhatIsDue` | Without conditions on the calls. `LedgerInv` keeps the account for each emitter, name and handler: a call that adds or takes away a handler changes how often it stands there by one (`TimesAppended`, `TimesRemoved`, by counting the places in the three sections), and the loose handlers or the ids that are due by the same one. `LeftBehind` accounts for an id unregistered under another name. An emitter that counts on a shared record spoils the account of the sharers at once (`SharersUpset`), so what a copy inherits is still true of it. |
| `SearchesAreSorted` | `Spec => []SearchIsSorted` | The walk goes from node to node, the sort compares whole paths; no invariant but the type is needed, and all of the work is in the operators (`SearchSorts`). By the least height at which it would fail, the walk from a node finds exactly the nodes under it, each after those it is called after (`WalkInOrder`): a node under `p` is in the branch of the wildcard, in that of the key's chunk, or `p` itself (`UnderParts`), in this order (`BranchOrder`). `CalledBefore` goes one way only, so a sequence in order has the i-th node after i - 1 others, and is the calling order (`InOrderIsCallingOrder`); in it a longer name stands before each of its beginnings. That the walk and `FlattenSeq` are defined at all is proved from below, level by level (`WalkExists`, `FlattenExists`). |
| `IdleEmitterIsCleanAlways` | `Spec => []IdleEmitterIsClean` | `Held`: a closure in the list at the end of *any* chain of nodes from the root is there once and belongs to a call in progress that has not removed it yet; `CacheOwed`: a cache that is filled has a call in progress, which will reset it. First calls race to make nodes, and a call may go on in a node that another has unlinked, so the walk that appends must be shown to end where the walk that removes does: a node that is linked but leads nowhere yet has its maker standing at it (`MakersFinish`), the nodes from before the calls stay linked (`PastLinked`), nothing is made or cached before a call gets below them (`TopFirst`), and what calls may still make is bare (`Unmade`). That the recursively defined walk is such a chain is proved by the least level where it would not be. |
| `LoopKeepsContract` | `Spec => KeepsContract` | `LoopInv` relates the phase of the loop to the outcome; `VerdictRight` shows that what the chain of checkers returns, whatever its order, is the verdict of the policies as a set, so the contract's classes are well defined. Then every step of the loop is a step of the contract or a stutter. |
| `BodiesAreWhole` | `Spec => []WholeBodySent` | `BodyInv` says where the stream stands: at its start when a request is created, and moved before a request only after a redirect of a stream without `seek`. |
| `SuccessesAreReal` | `Spec => []SuccessIsReal` | From `LoopInv`: what reaches the end of the loop has been through `check_for_200_error`, and no exception the checkers raise looks like a result. |
| `CredentialsCoherent` | `Spec => []Coherent` | `Coherent` does not say what a thread half-way through `_set_from_data` has set. `Progress` does: nothing stored is newer than what the thread sets, and the attributes it has passed are set; `PutReset` says where it begins. |
| `CredentialsFresh` | `Spec => []FreshWhenRead` | `FreshnessInv` adds `Timely` (generations are issued in order, the service renews in time, and no time passes while attributes are set) and `Ahead` (where a thread is about to return, `expiry_time` lies in the future). It rests on the assumption that the service renews before the expiry. |
| `SignaturesFetchOnce` | `Spec => []OneFetchPerSignature` | `Recent`: from its fetch to the end of its signature a thread is setting, or finds stored, metadata that is not due for a refresh, unless the service was late; other threads may set theirs in between. |
| `AttemptsVerify`, `AttemptsAreFresh`, `CopiesStayPresigned` | `SigningSpec => []EveryAttemptVerifies`, `[]AttemptsLeaveNoTrace`, `[]PresignedUrlVerifies` | For any calls, attempts and renewals. A request that `Fits` may be given to a signer: headers of one value each, no token without credentials that have one, the path in place or the bucket moved (`Placed`). One lemma for each signer: of a request that fits it makes one that the server accepts, stamped with its time and credentials (`Delivered`), and that fits again, since a second closure may sign it again. Of the body a signer keeps all but its stamps (`BodyKept`), so parameters encoded once stay so and a presigned url keeps asking for the same. `CallInv` says this of the request dict and of the last message. |
| `PaginationLosesNothing` | `Spec => []NothingLostOrRepeated` | The property does not say where the iterator is. `Placed` says how many items the user has when a page is asked for, has been yielded, or a resume token exists; `Tokens` says what the iterator's variables hold then. |
| `SecondaryListsOnce` | `Spec => []ExtrasOnce` | `ListsPlaced`: which secondary lists the user has at every point of an iteration; it needs `Placed`, since whether a page is read again depends on where the iterator is. |
| `ClientsAreOfTheirProfile` | `Spec => []KeysOfTheProfile` | The property speaks of clients, `StoreRight` of the store they are made of: the resolver was made under the profile in force, and so were credentials loaded since the last assignment of `session.profile`. It holds *until* somebody sets the profile as a variable, which drops no component (`Unset`); hence each operation must be shown to keep the condition as well. |
| `LoadersAreShared` | `Spec => []OneLoaderPerClient` | `EndpointsRight`: endpoint rules that were made came from the loader that is there. |
| `LossesLast` | `Spec => LossOutlastsItsCause` | `Follows` is proved of each component's operation, with the cause that its factory may fail for, and is transitive, so it holds of `create_client`, which composes four of them. |
| `ClientsRetryAlike` | `ClientsSpec => []RetriesAreStable` | The handler of a service, once registered, is that of all its clients. |
| `ClientsRetryAsWritten` | `ClientsSpec => []RetriesAsWritten` | A merge writes into objects it shares with the file, so the property holds only because of what is shared: until the first handler of a service is made, no policy it writes out is linked in the merged defaults, nor overwritten (`Untouched`); the merged defaults link an object under one name (`HeapRight`), so that a merge writes into each object once. |
| `ServicesAreCompatible` | `ClientsSpec => []ServiceIsCompatible` | That the versions can be sorted at all (`VersionsSort`: a smallest set that cannot be would lose its least member), that the sort loses none (`VersionsComplete`, by counting), that the first that fits is then the newest (`DeterminesLatest`), and that the search for its path finds the first (`FoundInFirstPath`). |
| `ClientsSignWhereServed` | `ClientsSpec => []SignedWhereItIsServed` | `ArgumentsFit`: the second lookup is made in the region of the first rule's scope, where `EndpointsFile` has a rule that signs alike, or in the same region, where it finds the same rule. |
| `AnswersAreOwn` | `Spec => []AnswersReachTheirCallers` | `Unread` and `Replied` say what every message that is still unread belongs to, and when the connection may hold a response class: only from an early answer to the next plain request. |
| `RefusedBodiesStay` | `Spec => []RefusedBodyStays` | `Refused`: the server marks an answer as early only while the client waits; the waiting client sends the body only on a 100 or on silence, and has not read one of them. |
| `StreamsAreWhole` | `Spec => []StreamIsWhole` | `Streamed`: what is read never exceeds what arrives, nor what arrives the length; an empty read before the end is the one asked for with 0. |
| `WaitersObey` | `Spec => []WaitsAsConfigured` | `Polled`: sleeps are one less than the polls that were answered, and `current_state` is what the acceptors say of the last answer. |
| `SuccessesAreSeen` | `Spec => []SuccessIsSeen` | Composition: by the invariant of the connection the reply of a poll is the server's answer to *that* poll, by that of the waiter an acceptor for success matches it, and by `TransferAssumption` (`Sought`) such an answer describes a goal. |
| `NothingLeaksSilently` | `Spec => []LeaksAreReported` | `Accounted`: a resource in the cloud is kept in a bin, or is leaving while someone waits for it, or was reported, or trusted. A bin is empty when its level has been cleaned up, so the last two remain. `Bound`: a bound root volume has its server. |
| `CleanUpsAreOrdered` | `Spec => []DependentsGoFirst` | `Ordered`: keys grow and a dependent is created after what it lives in, so the largest key is never one that another entry of the bin depends on. |
| `CleanUpsKeepTheirKeys` | `Spec => NoCleanUpIsOverwritten` | No key of a bin is ahead of the count, and the bin of the class level is empty when the next class starts counting. |
| `WaitsAreBounded` | `Spec => []BoundedWait` | The pause that is about to be added is part of the invariant. |
| `TypesHold` (in seven modules) | `Spec => []TypeOK` | From the invariants above, or from a strengthening of the type: in `OperationCall` that a thread that appends has a list (`Ready`), in `HierarchicalEmitter` that `remove_item` deletes a node only with all nodes below it (`RemoveIsTrie`). |

Assumptions on the data files are what the proofs need to know of them, hold of the
shipped files, and are evaluated by TLC on the run's extract. `RetryFile`: a definition of
`_retry.json` is referred to under one name, and a policy that a service writes out by
that service only. `DataFiles`: finitely many versions, which compare as numbers do.
`EndpointsFile`: a rule of `_endpoints.json` with a credential scope has the signature
version of the rule that serves the scope.

Only model-checked are the liveness properties, being out of the prover's reach, and
the invariants of `Wire`, whose operators are recursive over nested values.

## 5. What is not modelled, and why

- The algorithms of `utils.py` other than the metadata fetcher (dot segments, tree hash,
  merging, instance metadata parsing): pure functions over text and bytes, which unit
  tests reach.
- The scenario base but for `run_instance`, the client wrapper and the SSH client of the
  harness, and the unused, broken `VPCTestCase` with `base_vpc` and `vpcclient`: they call
  the operations of `ResourceCleanUp` or the network and keep no protocol of their own.
- Rally plugins, `tools`, the scheduler and the mail script: they drive other programs
  and keep their state in git, files and a database outside the repository.
- Vendored libraries, compatibility code, exceptions and data files.
- Within the modelled parts: the length of retry delays, proxies and TLS, the text of
  signatures and canonical requests, the reading of files, JMESPath, `build_parameters`
  of `Operation.call`, pagination tokens with several parts and `page_size`, and the
  methods of `CredentialResolver` that insert and remove providers.
