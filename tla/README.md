# TLA+ verification of identity-core

The repository is an identity provider (`services/identity`: phone login with
one-time codes, refresh-token rotation, signing keys), a resource server that
trusts it (`services/board`), the library between them (`pkg/jwks`) and a web
client (`web`). State lives in MySQL, in Redis and in the memory of the
verifier; every request is a sequence of SQL statements and Redis commands, and
requests, relays and consumers interleave between any two of them. The modules
here model those sequences step by step.

## 1. Inventory

| Component | State | Operations | Interacts with |
|---|---|---|---|
| `rtr` refresh tokens | Redis `rt:token:*`, `rt:family:*` | Issue, Rotate, RevokeFamily, expiry | called by `usecase.Auth` |
| `otp` one-time codes | Redis `otp:code:*`, `otp:rl:*` | Request, Verify, expiry | called by `usecase.Auth` |
| `devverify` limiter | Redis `devverify:attempts:*` | Attempt, Reset, expiry | called by VerifyDevice |
| `usecase.Auth` | none of its own | VerifyOtp, CompleteSignup, CompleteReactivation, VerifyDevice, Refresh | all of the above, the repository, the issuer |
| `repo/mysql` users | MySQL users, credentials, profiles, devices, outbox | CreateUser (one transaction), queries, UpdateStatus, UpsertDevice | outbox rows are read by the relay |
| `token` | signing key on disk | FlowToken, VerifyFlowToken, access and ID tokens, JWKS endpoint | keys are fetched by `pkg/jwks` |
| `outbox` relay | none between ticks | publishBatch: SELECT, then XADD and UPDATE per row | MySQL outbox, Redis stream `events:user` |
| board `consumer` | cursor; the stream's pending list | Run: XGROUP CREATE, XREADGROUP, handle, XACK | stream, `authors` table |
| `pkg/jwks` verifier | key cache, fetch and miss times, circuit breaker | Verify, keyFor, refresh | JWKS endpoint over HTTP |
| delivery layers | none | handlers, `mapErr`, interceptors, gateway | use cases, verifier, clients |
| board posts | MySQL posts | CreatePost, ListPosts (keyset pages) | verifier, authors table |
| web client | localStorage, memory of each tab | refreshSession (single flight), apiFetch with one retry, restore, logout | identity and board APIs |
| web screens | forms, list of posts, cursor, busy flag | submit, load, loadMore, logout | the web client |
| `cmd`, `app` of both services | pools, servers, gateway connection | New, Run, shutdown | every handler, relay, consumer |
| config, logging, message types, load tests | – | – | – |

What is hard here: operations that read and write Redis or MySQL in several
commands with others in between; commands whose errors are ignored; the Redis
client's resends; crashes between two writes to different stores; keys whose
TTL is set by another command than the one that creates them; statuses and
tokens that are stale when used; a cache refreshed by many callers at once; tabs
that share a refresh token of which each use but one is fatal; pages read while
the table moves; requests in every stage when a process is told to stop.
`PROJECT.json` lists these hazards line by line.

What makes each part correct:

* refresh tokens: single use, detection of reuse ends the session, an ended
  session stays ended, one owner per session;
* one-time codes: bounded guesses, a used code is gone, bounded requests per
  window, and the window ends;
* flows: no device without proof, no reactivation without dormancy, status
  moves along the domain's transitions, bounded guesses per flow;
* replication: no phantom users, nothing marked or acknowledged too early, every
  user arrives;
* verifier: bounded load on the provider, keys kept during outages, rotations
  propagate;
* web client: the stored token is the current one, the client does not trip
  reuse detection by itself, a retry does not repeat an effect;
* board: every post is shown once, paging ends;
* life cycle: no handler meets a closed pool, only known causes fail a request,
  shutdown ends.

## 2. Plan

1. `RefreshTokens` with its abstraction `SessionFamilies` and its proofs – done.
2. `OtpStore`, `EventPipeline` with its abstraction `ReadModel`, `AuthFlows`,
   `JwksVerifier` – done, model-checked and proved.
3. `Delivery`, `WebSession` (the client against the promise of
   `SessionFamilies`), `BoardFeed` (on the promise of `ReadModel`) and
   `ServiceLifecycle` – done, model-checked and proved.
4. Next: action properties of the proved modules that no run states yet (what a
   step of `AuthFlows` may do to a status, what `BoardFeed` may take from the
   screen), and facts the liveness properties rest on that are invariants.

## 3. Modules

`MC*.tla` add only the symmetry sets for TLC; the `.cfg` files give the
constants. Definitions named `Name_Something` under a comment "Mutant" are wrong
variants of `Name`, used to show that the properties notice the difference;
nothing refers to them otherwise.

### RefreshTokens, SessionFamilies, RefreshTokensProofs

`tokenRec` and `famCur` are the two kinds of Redis keys of `rtr/store.go`.
`Issue` is the MULTI of `save`, with or without the reply arriving. `Rotate` is
`LookupHit` (the GET, then a fresh token) followed by one of `RunScript`,
`RunScriptReplyLost` (executed, reply lost: resent up to `MaxRetries` times),
`RefreshFails` (the rotation succeeds and `Auth.Refresh` then fails to load the
user or to build the JWTs) and `Abandon`. `ScriptEffect` is `rotateScript`: family gone, not
current, current. `RevokeFamily` is modelled although nothing in the repository
calls it yet: a logout is assumed to pass tokens of the family it revokes. Calls without effect on the state (a GET that misses) are
stuttering steps. Both keys of a rotation are written in one script with one
TTL, hence the order in `ExpireToken` and `ExpireFamily`.
`minted`/`opened` make random draws fresh; the variables under "History" only
serve the properties.

`SessionFamilies` is the promise: a session has one holder at a time, a token
that held a session never holds one again, a session ends once.

### OtpStore, OtpStoreProofs

One phone number. `hash` and `rl` are the two keys; `RequestIncr`,
`RequestExpire`, `RequestStore` and `VerifyRead`, `VerifyCount`, `VerifyBurn`,
`VerifyConsume` are the commands in the order of `otp/store.go`. `Faults` says
whether calls may stop between commands and whether the two commands whose
errors the code ignores may fail. A code is identified by the serial number of
its request, so that two equal codes are told apart by the properties. The
history variable `slipped` remembers the codes whose DEL failed and whether the
counter lost its EXPIRE: the properties say what holds apart from these.

### AuthFlows, AuthFlowsProofs

One phone number: its status row, its devices, the flow tokens issued for it and
its attempt counter. Each SQL statement and Redis command of a flow is a step of
the request (`call`), and so is the check of a flow token against the clock
(`PresentFlow`, the first lines of CompleteSignup, CompleteReactivation and
VerifyDevice): a token may expire, and a counter window end, while the request
waits before its next command. `origin` remembers whether a token was issued for a
dormant account and whether an operator has moved the status since. Operators change the status in between
(`Administer`, external: nothing under `services/` writes those statuses, the
life cycle in `domain/user.go` says which moves exist). TouchLastLogin, GetProfile
and the JWTs are part of `IssueTokens`: no decision reads them. The lifetime of
the limiter's window equals that of a flow token, so a window ends only after
the tokens issued before it (`limiter.older`) have expired; a request that had
already presented such a token may still come.

### EventPipeline, ReadModel, EventPipelineProofs

`CreateUser` is a transaction that opens, and commits or rolls back, in any order
of ids; a relay polls, adds and marks row by row; the stream keeps for each entry
whether it is new, pending for a consumer name, or acknowledged; a consumer
creates the group, drains its pending entries, then reads new ones. `Errors`
names the commands that may fail while the process goes on, `Crash` ends a board
process, `NewHostOnRestart` says whether it comes back under another name.
`NameOf` is the consumer name: the host name, or the one fallback
("board-consumer", `consumer.go:36`) that all processes without a host name
share; `Init` has both cases.
`ReadModel` is the promise: users become authors, once, and all of them do.

### JwksVerifier, JwksVerifierProofs

Keys are numbered by rotation; a call is at one of the critical sections of
`pkg/jwks/verifier.go` or in the HTTP exchange. keyFor has two before it refetches:
the lookup under the read lock (`LookupHit`, `LookupMiss`) and the cooldown check
under the write lock (`MissCooling`, `MissRefetch`); any number of calls may be
between them. `misses` counts the requests sent by calls that the running
cooldown let through; a call still on its way to the breaker when its cooldown
ends is "late" and counts for no later one. The breaker is gobreaker with the
settings of `breakerSettings`: opens after `TripAfter` consecutive failures,
half-open it admits one probe, and results of fetches admitted in an earlier
state are not counted. Time is nondeterministic: the cache becomes stale, the
cooldown ends and the breaker half-opens at any moment. A client that goes away
cancels the fetch (`FetchCancelled`). The claim checks that follow the key
lookup change no state.

### Delivery

No state: for each method the errors it can return, both `mapErr`, the status
the gateway makes of a code (external), and the interceptor chain of the board
around `CreatePost`, where an error reply may come after the INSERT
(`PostRepo.Create` reads the post back). `WebSession` gets its replies from here.

### WebSession, WebSessionProofs

The tabs of one browser. `stored` is the refresh token in localStorage, shared by
the tabs; `access`, `screen` and `inFlight` are each tab's memory. A request to
the token endpoint is a `flight`, an `apiFetch` a `call` that is on the network
or waits for a refresh. A step runs from one reply to the next, as JavaScript
does. The token endpoint is the abstraction of `RefreshTokens`: `Rotate` for a
current token, `Reject` for a former one (which ends the family) or for one whose
family is gone, `RotateFails` for a failure before the store. Tokens are not
numbered: a copy of a token is described by its family and by what the server
would make of it, and a family no copy of which is left is free again, which
makes the state space finite without a bound on logins or rotations.
`Load` is opening or reloading a page, `Settle` everything that happens when the
reply to a refresh arrives. The four screens before the board are one, whose
replies lead on or to the board. `excuse` is set when two pages present one token
or when a successor gets lost, the two causes of an alarm the client cannot help.

### BoardFeed, BoardFeedProofs

Ids are handed out by `Insert` and rows become visible by `Commit`, in any order;
`List` and `NextAfter` are the SELECT and the cursor. A row is listed whether or
not its author is `known` (LEFT JOIN); signup and replication are `ReadModel`'s
actions, the promise `EventPipeline` is shown to keep. One Board screen reads:
the effect at mount and the buttons each have at most one list request on the
way (`Caller`), `Arrive` replaces or extends the list. `crossed` marks the one
situation in which the screen mixes pages of two lists.

### ServiceLifecycle, ServiceLifecycleProofs

`main` walks through `New` and `Run` of either service; the servers come up and
fail on their own; `conn` is the gateway's connection, closed by a goroutine as
soon as ctx is done. A request is a REST call (HTTP server, gateway, gRPC
handler), an OIDC document (HTTP server of identity only) or a gRPC call; what
its client has (`client`) and what its handler does (`handler`) are apart, since
a handler goes on when the gateway gives up. `ShutdownWaits` and
`GracefulStopWaits` are what the two library calls wait for. The relay and the
consumer, stopped only when Run returns, are in `EventPipeline`, where they may
stop at any step.

## 4. Runs

Passing:

| Run | Shows | Bounds |
|---|---|---|
| `rotation` | TypeOK, SingleUse, ReplayKillsFamily, CurrentResolves, FamilyHasOneOwner, AlarmMeansRerun, DeadStaysDead, SessionRefinement | 5 tokens, 2 families, 2 users, 2 calls, 1 resend: a chain of rotations, a race and a resend fit in together |
| `otp` | TypeOK, AnswersBounded, EndedIsGone, WindowLimit, OnlyIssuedAccepted, LimitLifts; calls stop, commands fail | 2 calls, 2 codes, 2 attempts, a request limit of 1: calls can read a code before the limit and answer after it |
| `pipeline` | TypeOK, NoPhantomUser, PublishedIsInStream, AckedIsApplied, ExclusiveMessages | 2 users, 2 relays, 2 board processes with or without names of their own, 2 faults of any kind |
| `pipeline_live` | Replicated, ReadModelRefinement | 3 users, batches of 2, 2 crashes or relay errors |
| `flows` | TypeOK, DeviceNeedsProof, ReactivationNeedsDormancy, FlowAnswersBounded | 2 requests, 2 flow tokens, 2 attempts, requests stop anywhere |
| `jwks` | TypeOK, OneRefetchPerCooldown, NeverWithoutKeys, RotationPropagates | 2 calls, breaker at 2 failures, 1 rotation, 3 outages or cancellations |
| `web` | TypeOK, StoredIsCurrent, AlarmNeedsCause, PostedOnce | 2 tabs, 2 families, 2 calls, 2 refreshes at once, 1 reload; logins, logouts and rotations unbounded |
| `feed` | TypeOK, FeedComplete, PagingEnds | 2 users, 3 posts, pages of 1 and of 2 (a request for 3 is cut), any number of lost replies |
| `lifecycle` | TypeOK, NoUseAfterClose, NoRequestDropped, ShutdownEnds | both services, 3 requests of any kind |

The limits of the code (5 attempts, 5 requests, 3 device attempts, 6 failures)
are constants; the runs use 1 to 3, where the comparisons meet the limit with
few steps; the page sizes 20 and 100 are 1 and 2. Three posts make a full page, a
page that is not, and a post that commits behind the cursor. Three requests are
one that is slow, one whose client has gone and one more. Deadlock is not checked
where the bounded supply of tokens, serials, flows, users or posts makes the model
stop, nor in `lifecycle`, which ends; the verifier and the browser have no such
supply and are checked for deadlock.

Violations, each a place where the code does not do what a line of the
repository says (quoted in `PROJECT.json` under "findings"):

| Run | What happens |
|---|---|
| `otp_single_use` | two Verify calls accept the same code (CodeSingleUse) |
| `pipeline_host` | entries pending for a former host name are never handled (Replicated) |
| `flows_deleted` | a reactivation overwrites a concurrent deletion (MovesFollowDomain) |

The models have further behaviours that differ from a line of the repository;
no run is kept for them:

* the Redis client resends a script whose reply was lost: reuse is reported, and
  the session ended, for a token presented once (`rtr/store.go:8`);
  `AlarmMeansRerun` is what holds instead;
* a first request that stops before its EXPIRE leaves a counter without a TTL, and
  the phone number is refused for ever (`prd.md:105`); `LimitLifts` excepts just
  that;
* racing Verify calls get more wrong answers from a code than the limit
  (`otp/store.go:2`); `AnswersBounded` is what holds instead, a code answers at
  most `MaxAttempts - 1 + |Caller|` wrong guesses;
* a HINCRBY that comes after the DEL or the expiry creates the code key without
  a TTL (`prd.md:105`); `OnlyIssuedAccepted` shows that it is never accepted;
* a device-verification token issued late in a counter window is answered in two
  windows (`identity.proto:54`, "3 attempts per flow"), and requests that passed
  the expiry check and then waited are counted in a third; `FlowAnswersBounded` is
  what holds instead, at most `2 * MaxAttempts - 1 + |Caller|` wrong answers;
* an attempt counter that lost its EXPIRE (`limiter.go:40`, the error is ignored)
  never ends: the user is refused until someone deletes the key;
* a reactivation token lifts a suspension an operator imposed after it was issued,
  and overwrites a deletion that comes after the read of the row (`auth.go:177`
  speaks of a DORMANT account, `auth.go:194` also lets SUSPENDED become ACTIVE):
  `ReactivationNeedsDormancy` says that the token was issued for the dormant
  account and that nothing but such an operator brings another status under the
  UPDATE. Two requests with one token that both read the row before
  either writes it both succeed (`auth.go:192`);
* a device-verification token of an account deleted since then issues tokens:
  deletion is a status, and `VerifyDevice` does not read it (`handler.go:139` of
  the gRPC delivery layer);
* an event whose handling fails after the drain is not redelivered until the
  process restarts (`consumer.go:82`);
* board processes without a host name share one consumer name, and the drain of
  one takes what another has in hand (`consumer.go:36`): the event is applied
  twice, which changes nothing; `ExclusiveMessages` is about the others;
* a call that missed a kid while another call refetches it is rejected by the
  cooldown, although the key may be in the cache by then: keyFor does not look
  again (`verifier.go:174`);
* the JWKS endpoint serves one key, so that tokens of the previous one are
  rejected after a rotation (`prd.md:87`);
* two tabs, or a reload during a refresh, present one token twice and end the
  session: refreshSession is single-flight per page (`api.ts:21`);
* when the network fails during a refresh, `doRefresh` keeps the token
  (`api.ts:48`), but the 401 that asked for it reaches `Board.fail`, which clears
  it; and any reply other than success, a 500 included, clears it in `doRefresh`;
* a wrong one-time code is a 401 too: with a session stored it is refreshed and
  sent again, so that it counts twice (`api.ts:60` means to prevent that);
* logout forgets the tokens of one tab and localStorage and sends nothing
  (`prd.md:92`: the family is deleted); a refresh under way stores its tokens
  again after the logout;
* a last page that is exactly full has a cursor (`board.proto:53`, "0 when no more
  pages"); the reader gets one empty page more;
* CreatePost may report an error, "not found" included, for a post that was
  inserted (`post_repo.go:42`);
* on SIGTERM REST calls in flight fail at once: the gateway's connection closes
  with ctx, before the HTTP server has drained (`app.go:83`, "shuts down
  gracefully"); their handlers run to the end. `NoRequestDropped` says who is
  affected: gRPC calls and OIDC documents are not;
* the relay and the consumer are stopped after the pools are closed and log
  errors until the process ends.

### Fairness

* `OtpStore`: a call that was started goes on (its handler runs to completion
  unless it fails), and keys with a TTL expire.
* `EventPipeline`: the relay's ticker fires for ever; a board process executes
  its loop and is started again after a crash. Faults are finitely many. Nothing
  is assumed of users: they need not sign up, and a transaction need not end.
* `AuthFlows`: a started request goes on (used by `flows_deleted` only).
* `JwksVerifier`: requests keep arriving, started calls go on, outages end, and
  cache age, cooldown and breaker timeout run out. Without traffic nothing
  refreshes the cache, so the first is needed.
* `BoardFeed`: the reader presses "Load more" while there is more and no button is
  disabled, its createPost is answered or fails, and list requests do not fail
  for ever (strong fairness: each may fail any number of times). Nothing is
  assumed of the writers, of replication or of the request at mount.
* `ServiceLifecycle`: main runs, the 10 seconds pass, handlers return (their
  queries end) and a gRPC client sends the message of the call it opened:
  `GracefulStop` has no deadline, so without that the process would wait for it.
  Nothing is assumed of HTTP clients, servers coming up, or the gateway.

All but the list requests is weak fairness. `WebSession` is checked for safety
only: whether a call ends is up to the network.

## 5. Proofs

`RefreshTokensProofs` proves with TLAPS, for any sets of tokens, families, users
and callers and any number of resends:

`TypeCorrect`, `SingleUseTheorem`, `ReplayTheorem`, `CurrentResolvesTheorem`,
`OneOwnerTheorem`, `AlarmTheorem`, `DeadStaysDeadTheorem` and
`RefinementTheorem` (`Spec => SessionRefinement`).

Assumptions: `None` is not a token, family or user; the two strings that stand
for a session not begun or ended are not tokens; `MaxRetries` is a natural
number. Freshness of random draws is a guard of the model, not an assumption.

The properties are not inductive by themselves. `SingleUse`, for instance,
survives a second run of the script only because the presented token is no
longer current after the first run, which is a fact about `runs`, `famCur` and
`origin` together. `IInv` adds:

* `CurrentInv`: a family key that exists was opened and names a token that
  resolves back to the family;
* `RecordInv`: a stored record is the one the token was born with, and only
  drawn tokens have records;
* `RunsInv`: a token the script ran for is not current any more, and after a
  second run its family is gone;
* `ParentInv`: a successor exists only after a run for its parent;
* `CallerInv`: a call carries the record its token was born with, and the new
  token it drew is its own.

`AlarmTheorem` rests on one more fact, `RotatedInv`: a stored token whose family
has another current token was rotated, so the script ran for it before.

The three actions that run the script share one argument (`ScriptMiss`,
`ScriptReuse`, `ScriptRotate`), deletions by revocation and expiry another
(`DeletionIInv`). The refinement is proved step by step: a login, a successful
rotation and the end of a family are steps of `SessionFamilies`, everything else
is a stutter.

`ServiceLifecycleProofs` proves, for any set of requests and for both services,
`TypeCorrect`, `NoUseAfterCloseTheorem` and `NoRequestDroppedTheorem`. None is
inductive alone: that no handler runs when the pools are closed needs that no
request can start one any more. Its `IInv` adds:

* `BootInv`: what New has opened at each of its steps, and that no server is up
  before Run;
* `StopInv`: a server is stopped exactly from its step of Run on, and no listener
  takes requests after it;
* `QuietInv`: no requests before Run; after GracefulStop no handler runs and no
  gRPC call is pending that could start one;
* `CauseInv`: the connection is closed only after the signal, and Shutdown returns
  with requests pending only after the timeout.

### OtpStoreProofs

For any codes, any finite number of concurrent calls, any limits, with and
without faults: `TypeCorrect`, `AcceptedWasIssued`, `UsedUpIsGone`,
`WindowIsLimited`, `WrongAnswersAreBounded`. Three invariants build on each other:

* `StoreInv`: a hash has a serial exactly if it has a code, and serials are handed
  out in order. This is what keeps the hash of a late HINCRBY from being accepted;
* `WindowInv`: the codes stored in this window and the calls that still may store
  one (`Admitted`) were all counted, within the limit. `WindowLimit` alone says
  nothing of a call between its INCR and its HSET;
* `LimitInv`: the counter passes the limit only by calls that are about to delete
  the code (`Burning`), every wrong answer about the code in the key was counted,
  and the answers given plus the calls that are about to give one (`Counting`)
  stay within `MaxAttempts - 1 + |Caller|`. A call counts and burns at different
  times, so the two sets are disjoint, which leaves room for the next one.

The number of callers is assumed finite: the bound counts them.

### EventPipelineProofs

For any number of users, relays, board processes and faults, any batch sizes and
any choice of failing commands: `TypeCorrect`, `PhantomFree`,
`OutboxIsPublished`, `AtLeastOnce`, `Exclusive`, and `ReadModelSteps`: the pipeline
implements the safety part of `ReadModel`, duplicates being stutters. `IInv` adds
`ShapeInv` (the stream is a sequence that grows; host names change only with faults),
`RelayInv` (the row about to be marked is in the stream), `OwnerInv` (what a
consumer holds was delivered to its name, so only a process of the same name can
hold or have acknowledged it) and
`AckInv` (what is about to be acknowledged was applied).

### AuthFlowsProofs

For any finite number of concurrent requests, any fingerprints and flow tokens
and any cap on attempts: `TypeCorrect`, `DevicesAreProved`, `ReactivatesDormant`,
`AnswersAreBounded`. `ProofInv` adds the requests on their way to the UPSERT,
`DormancyInv` the reactivation tokens already issued and the requests that hold
one: until an operator moves the status, the account of such a token is dormant or
active. The bound on wrong months needs two invariants. `LimiterInv` is a budget
for every live flow token: with `Spent` the answers given and those about to be
given, `Used` what the counter has let through (at most `MaxAttempts`), a token has
`Spent <= Used + MaxAttempts - 1` while it lives, and `Spent <= Used - 1` while the
counter that runs has a TTL and began before the token was issued. Such a counter
may end while the token lives, and leaves at most `MaxAttempts - 1` behind; a
counter that began after it ends later than the token. So a live token meets two
windows, which are worth `2 * MaxAttempts - 1`. `CeilingInv` adds the dead ones: the
answers of a token and all the requests that hold it (`Total`, those that have yet
to be counted included) stay within that and one per caller. A request can join
only while the token lives, and then `LimiterInv` leaves room for every caller;
afterwards answering only moves a request from the second part of `Total` to the
first.

### JwksVerifierProofs

For any number of concurrent calls, keys and outages and any threshold:
`TypeCorrect`, `RefetchLimit`, `KeysAreKept` (an action property) and
`ProbeIsSingle`, which no run states: a half-open breaker lets one counted fetch
through. `IInv` adds `ReplyInv` (a call about to replace the cache holds keys) and
`BreakerInv` (an open breaker has no fetch that it would count, so that the first
one it admits half-open is alone). `RefetchLimit` has an invariant of its own,
`CooldownInv`: of the calls a cooldown let through at most one has yet to reach the
breaker (`Cleared`), and while there is one no request has been sent. The calls
that missed the kid and wait for the write lock need no mention, which is the
point: whoever has the lock first starts the cooldown the others meet.

### WebSessionProofs

For any number of tabs, families, calls and refreshes: `TypeCorrect`,
`StoredTokenIsCurrent`, `NoAlarmWithoutCause`, `OnePostPerSubmit`. `SessionInv` adds
`FlightInv` (a tab has at most one refresh, the one it remembers) and `HonestInv`:
until there is an excuse, no refresh sends or brings a former token (`SentIsFresh`),
a refresh that carries a token of the stored one's family presents just the stored
token, for a tab that is still there to store the successor (`StoredInFlight`), and
no two refreshes are about one family (`OneFlight`). `PageInv` says of every call
that is not over that it has inserted nothing, which holds because of the replies
`Delivery` has for a call that gets to be retried. Assumption: `None` is not a tab,
family or refresh, nor one of the replies.

### BoardFeedProofs

For any users, page sizes and number of posts: `TypeCorrect` and `FeedIsComplete`.
First the pages: a finite set of ids can be sorted (`SortExists`, by a smallest
counterexample, since `<` is well-founded), so that `Descending` is what ORDER BY
means (`DescendingSorts`); a page descends, is bounded, and leaves out no row
between its two ends (`ListPage`); and a page behind another still descends
(`AppendPage`). `FeedInv` then says:

* `SeenInv`: what the client has is in the table, from which no row disappears;
* `BusyInv`: a button has at most one request on its way, and the effect at mount
  only asks for first pages;
* `PagesInv`: a page on its way is good for the table as it was when it was read:
  posts that commit later belong to no one's promise;
* `ViewInv`: until two pages cross, the list ends at the cursor, and the page asked
  for begins there.

`FeedComplete` alone is not inductive: whether an appended page keeps the order
and leaves no gap depends on where it begins, which only `ViewInv` knows.

### What is not proved

Every invariant and every action property of the passing runs, and the
safety part of both refinements, is proved for all values of the constants, under
the `ASSUME`s of the modules. The bounds (numbers of serials, flows, users, posts,
faults, reloads) are constants too: the proofs hold for each of them. Only
model-checked are the liveness properties (`LimitLifts`, `Replicated`, the fairness
part of `ReadModelRefinement`, `RotationPropagates`, `PagingEnds`, `ShutdownEnds`):
fairness and ENABLED are outside what the provers handle. `Delivery` and the two
abstractions have no behaviour of their own to prove anything about.

Some operators are written in a form the provers can expand: `WithRow` is a
function constructor and not `@@`, `Descending` chooses the sorted sequence and
not a library sort, `Answered` of `WebSession` names the refresh it changes.

## 6. Not modelled

Configuration, logging, message types, the in-process variant of the gateway that
the services do not use, scripts and load tests carry no state of their own. Key
files and the encodings of keys, tokens and documents are not modelled, nor are
layout and wording of the screens. Cryptography is taken for granted: signatures verify, draws
do not repeat. Clocks are replaced by expiry at any moment, except where equal
TTLs fix an order. `Auth.Refresh` issues access tokens whatever the user's status
is; no line of the repository says what should happen, so no property is stated
about it.
