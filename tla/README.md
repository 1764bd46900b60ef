# TLA+ models and proofs of go-proxator

`go-proxator` sends requests through rotating proxy endpoints. A `Client` owns
named `Pool`s, a pool owns `endpoint`s, an endpoint owns a fixed set of
transport sessions. Requests pick an endpoint, borrow one of its sessions, run
the caller's function and are retried elsewhere when they were blocked;
endpoints that fail too often cool down and come back by themselves. Nearly
all of this is lock-free or lightly locked state shared by many goroutines, and
that is what these modules model, check with TLC and, for the parts that matter
most, prove with TLAPS.

## Inventory

| Part | State it keeps | Operations | What makes it correct |
|---|---|---|---|
| Endpoint health (`endpoint.go`, `client.go` 238-244 and 356-383, `health.go` 62-86) | `state`, `failCount`, `cooldownTier` (atomics), `cancelCooldown` under `mu`, one goroutine per cooldown | `markFailed`, recovery, `markDead`, `ResetEndpoint`, `recordSuccess`, `resetFailCount`, `Close` (first half) | a cooling endpoint always comes back; no failure goes unanswered; a retired endpoint stays retired; escalation is exact |
| Cooldown duration (`endpoint.go` 248-253, `config.go` 226-247) | period, cap, tier | `markFailed`, `recordSuccess` | doubles up to documented caps, stays positive |
| Session pool (`endpoint.go` 98-185) | channel `sessions`, `closed`, `closeCtx`, `sessionMu`, limiter | `acquireSession`, `releaseSession`, `Close` (second half) | a session has one owner, is closed once, none is lost; waiters return |
| Retry loop (`client.go` 131-234) | `lastResp`, `lastErr`, attempt count of retry-go | `DoForDomain` | the result is that of the last attempt; an `fn` told Canceled does not run again; the call returns |
| Domain tracker (`internal/domain/tracker.go`) | `sync.Map` of immutable entries | `RecordBlock`, `PenaltyFor` | a block is remembered for its TTL and no deletion takes a newer one |
| Metrics (`endpoint.go` 194-232, `pool.go` 178-215) | `totalReqs`, `successReqs`, `avgLatency` | `recordLatency`, `recordSuccess`, `successRate`, `Stats` | no sample is lost, ratios are ratios |
| Selection (`pool.go` 89-156, `endpoint.go` 287-312) | `currentIndex` | `getNextEndpointForDomain`, `weight` | its picture is no older than its scan; what a score is made of fits together |
| Health checker (`health.go`) | a ticker, a context | `run`, `checkAll`, `stop` | probes feed the same failure count; stops with the pool |
| Construction and shutdown (`client.go` 27-77 and 338-343, `pool.go` 30-87, `endpoint.go` 57-96) | what was opened so far | `New`, `Close` | a failed construction leaves nothing open |
| Detector, transient classifier (`detector.go`, `transient.go`) | their pattern lists, fixed at construction | `IsBlocked`, `IsBlockedError`, `IsTransient` | healthy traffic keeps its endpoint; the client's own errors are understood by the classifier, a caller's own are not taken for a proxy's |
| Transports, sticky endpoints, validation | none | I/O, string formatting and checks | - |

How they interact: `DoForDomain` calls selection, `acquireSession`, the
caller's function, the detector, `recordLatency`/`recordSuccess` and
`penalise`, which writes the failure count and the domain tracker and runs
`markFailed`. `markFailed` starts a goroutine that writes the state later, under
`mu`. The health checker's goroutine borrows sessions and runs `markFailed` as
well. `MarkEndpointDead` and `ResetEndpoint` write the state from the caller's
goroutine without `mu`. `Close` goes through two locks one after the other.

What is hard: state read by one goroutine and written by another between its
steps (`endpoint.go:271`, `client.go:241`), select statements with several
ready cases (`endpoint.go:124`, `267`), a Close that overtakes borrowers and
waiters, contexts that end at any moment, counters cleared while they are used.
Nothing is persisted and nothing is sent between processes, so there is no
crash recovery and no message loss to model. `PROJECT.json` lists each hazard at
its line with the properties that cover it.

## Modules

| Module | Models |
|---|---|
| `EndpointHealth` | one endpoint's health, one action per atomic operation or critical-section step |
| `CooldownDuration` | the arithmetic of the cooldown on a wrapping signed `Duration` |
| `SessionLease` | abstract: what a session pool promises |
| `SessionPool` | the session pool in the steps of its goroutines; implements `SessionLease` |
| `ProxyCall` | abstract: what one call of `DoForDomain` promises its caller |
| `RequestRetry` | one call of `DoForDomain`, with the rest of the program as its environment; implements `ProxyCall` |
| `Classification` | what a failure is taken for: the detector, the errors `DoForDomain` and `Ping` make of its verdicts, the transient classifier |
| `DomainTracker` | one endpoint/domain pair of the tracker in atomic map operations |
| `Metrics` | the counters and the moving average, and the selection's score that is computed from them |
| `Lifecycle` | `New` with its failures, the checkers' loops, `Client.Close` over pools and endpoints |
| `*Proofs` | the theorems about the module of that name |
| `MC*` | instances for TLC |

Definitions marked `Mutant` in a module are plausible mistakes in the code
next to the correct definition. They are used by nothing; put in the place of
the definition they vary, each makes a property fail, which shows the property
depends on that line of the code (`PROJECT.json`, `mutants`).

### EndpointHealth

A worker is a request attempt or the health checker. Its `pc` follows
`penalise` (and the same steps in `checkAll`): `CountFailure` is the atomic
add, `CheckThreshold` the separate load, `EnterCooldown`/`Escalate`/`Arm` are
`markFailed` in its critical section: the lock with the store of the state; the
cancellation of the previous recovery with the `Add` on the tier; the
multiplier from the value `Add` returned, the goroutine and the unlock. The
section is cut where another goroutine's unlocked store can come in between.
`Succeed` and `ClearFails` are the two stores at the end of a successful
attempt; a successful probe only does the second.

A recovery goroutine (`timer`) sleeps, then wakes or is abandoned (`select` with
both cases ready picks either), takes `mu`, checks the state (`Recover` or
`GiveUp`), and stores state and count in two steps (`Revive`,
`FinishRecovery`), since `MarkEndpointDead` may fall in between. `MarkDead`
and the three stores of `ResetEndpoint` take no lock, and happen at any time.
`Close` is its section on `mu`. Identities of recoveries are reused after they
exit. The duration is left out (`CooldownDuration` has it): a sleeper may wake
at any time. The failure count stops at the threshold and the tier one above
the cap: the code compares the one with the threshold and takes the minimum of
the other, so nothing is lost.

### SessionPool

A caller is a goroutine that borrows: request attempt, `Ping`, probe. The steps
are the first look at `closed`, the limiter, the look at `closed` after a
refusal, the three cases of the select (any ready one may be taken), the second
look at `closed` with a session in hand, and `releaseSession`, whose section on
`sessionMu` is a single step because `closed` is closed under the same lock.
`Close` is: lock, `close(e.closed)`, `cancel()`, drain one by one, done. The
limiter is external: it may grant at any time, and refuse when the context has
ended or the caller has a deadline.

### RequestRetry

The call's own steps are sequential; what makes it interesting is that
endpoints leave and enter rotation between any two of them (`Elsewhere`), that
the scan looks at them one by one, and that the context may end anywhere.
retry-go (v4) is external: its loop is `Start`, `Judge`, `NextAttempt`,
`StopWaiting`; with both the delay and the context over, either is taken. A
response is named by the attempt that got it, so "whose response is this" is a
question the properties can ask. `fn` may end in any of nine ways: a response,
blocked or not; an error, blocked, `Canceled` or any other, each with or without
a response beside it; a nil response with a nil error. `Resolve` is `resolvePool` under every set of
configured pools. `seenIn` and `seenOut` are history: which endpoints were in
or out of rotation at some moment of the running scan.

`ProxyCall` knows attempts, outcomes and a reply, nothing of endpoints, sessions,
contexts or retry-go. Its reply is due for the last run of `fn`: the response of
that run if it had one, with its verdict or with what stopped the call
afterwards; otherwise that run's error; and only if `fn` never ran the reason
why. In the refinement the reply is `result` once the call has returned.

### Classification

Three files have a say in what a failure is taken for, and they agree by text
only. The detector decides by substrings whether it counts against the
endpoint; the client words the error; the transient classifier reads that text
again for the caller. A text is modelled as the set of the phrases it says, a
pattern list as the phrases it matches, so whether one phrase contains another is
settled in the sets (the client's "blocking response", say, is one of the
classifier's phrases, and every error of the client says "proxy" or "proxator").
The phrases stand for the default lists of the source, one or two of a kind.
`%w` adds phrases and keeps the sentinel findable. `Configure` builds both from
every combination of nil, empty and given lists (an invalid regular expression
is refused), then one call, or one `Ping`, goes its way: the response is judged
status first, then body, then the headers one by one in any order, as a range
over a map does; the error by its text; the call retries, ends (or is interrupted by its context,
before the first attempt or during a delay), and its error is classified. Endpoints and sessions are `RequestRetry`'s.

### Lifecycle

`New` goes through the configured pools: name and configuration are accepted or
refused, each session of each endpoint is opened or fails, a complete pool gets
its checker and its place in the map. A failure leaves a list of endpoints to
close, those of the unfinished pool in the order `newEndpoint` and `newPool`
close them, and the set of pools already in the map; from there the undoing
and `Client.Close` are the same actions, for the goroutine in `New` and for the
callers of `Close`: take any pool (maps have no order) and stop its checker, go
through its endpoints, enter the `closeOnce` of each, drain, leave; or find
that somebody else is inside and wait, or was, and go on. Checkers tick, pass
over an endpoint (not alive, or no session to be had), probe, and exit.
Requests borrow and give back. Sessions come from `SessionPool` in one step
each way; a probe's verdict belongs to `EndpointHealth`.

### DomainTracker, Metrics, CooldownDuration

`DomainTracker` cuts `RecordBlock` between reading the clock and storing, and
`PenaltyFor` between load, comparison and `CompareAndDelete`. Entries have an
identity, since `CompareAndDelete` compares pointers, and are reused when
nothing reaches them. `newest` and `known` are history variables. `Lag` is how
long a goroutine may take from the clock to the store; it is a parameter, not
an assumption about the code, and the property is stated in terms of it. Calls
with an empty domain return without touching the map and are left out.

`Metrics` has `recordLatency`'s add, load and compare-and-swap, and a selection
that scores the endpoint meanwhile: the second look at its state, the loads of
`successRate` in the order they are written, the average, the total again, the
blend with the neutral baseline during the warm-up, the floor for a weight of
nothing and the domain's penalty. A score is an exact fraction. `Stats` reads
through the same `successRate`. `folded` is a history of the samples in the
order they went in.

`CooldownDuration` starts from every configured period and cap, positive or
not, through `withDefaults`, and multiplies modulo the width of a `Duration`.

## Runs

| Run | Instance | Shows |
|---|---|---|
| `health` | 1 request, checker, 2 recoveries, threshold 2, shift cap 1; 191,140 states | `RecoveryArmed`, `RecoveryCancellable`, `FailuresHandled`, `EscalationFaithful`, `RetirementSticks`; cooldowns end, recoveries exit, `markFailed` returns |
| `dead` | as above | violation: a dead endpoint leaves `StateDead` on its own |
| `superseded` | as above | violation: a superseded recovery recovers |
| `sessions` | 2 sessions, 3 callers, 1 with a deadline; 47,030 states | one place per session, Close leaks nothing, errors name their cause, refinement of `SessionLease`; acquires return, Close completes |
| `cooldown` | 8-bit durations, all configurations, tier up to 7; 197,150 states | documented bounds and doubling below the overflow bound |
| `retry` | 2 endpoints, 3 attempts, threshold 2, 2 pool names; 307,658 states | refinement of `ProxyCall`: which result is returned and when `fn` may run again; errors name their cause, selections are fresh, the call returns |
| `exhausted` | 2 attempts, threshold 1 | violation: `ErrAllProxiesBlocked` hidden by an earlier error |
| `classify` | 2 attempts, 36 configurations of the detector, a third of them refused, 5 of the classifier; 384,861 states | headers decide in any order, a disabled check is silent, the client's own words are understood, a foreign failure stays foreign, wrapping loses nothing, a nested exhaustion stops the call |
| `domains` | 2 recorders, 2 readers, TTL 2, lag 1, time to 4; 485,989 states | a recorded block keeps its penalty |
| `metrics` | 3 workers, latencies 2 and 10, 4 requests, warm-up of 3; 1,395,656 states | no lost sample, counters agree, what a selection reads fits together, the weight exceeds the baseline by no more than the total grew meanwhile |
| `lifecycle` | up to 2 pools with 2 and 1 endpoints of 1 session, all choices of names and checkers, 2 calls of Close; 116,535 states | whatever fails in `New` and however calls of `Close` overlap: what was opened is closed, checkers stop, everyone returns |
| `ratio` | 1 worker | violation: a success ratio above one |

`TypeOK` is checked in `lifecycle`, `metrics`, `classify` and `retry`; it is
part of every module's inductive invariant and proved for all of them. The
invariants `IInv` hold on the instances of the runs too; they were put to TLC
before they were proved, and are left out of the runs because the theorems say
more.

Bounds. In `health` the request and the checker are two workers that race for
`mu` and the counters; two recoveries let one be past its select and cancelled
while the next is armed, and `EnterCooldown` waits when both are taken, which
only bounds how many goroutines exist at once; safety and liveness are checked
together on this instance, and the theorems cover any number of goroutines.
Threshold 2 separates counting from reaching it, shift cap 1 separates the
capped tier from the one below. Two sessions and three callers make one wait
while two hold, and a hurried caller tells a deadline from a Close. Time up to 4
with a TTL of 2 allows a block to expire, be found expired, be replaced and
expire late. Two endpoints in the first pool let the second one fail after the
first, a second pool lets `New` fail while the first one's checker runs, and two
callers take two pools in opposite orders. Two attempts suffice in `classify`,
since an attempt finds of the one before only `lastResp` and `lastErr`; three in
`retry` let a call forget two. A warm-up of 3 requests with at most 4 lets the
scored endpoint be before, in and after it. One session for each endpoint in
`lifecycle` keeps the check of liveness to minutes; that a session fails to open after another of the same endpoint
is left to the theorem about `Released`, which holds for any number of them. `TierBound` goes two tiers past the
cap; 8 bits leave room for periods on both sides of the overflow. Where a
theorem exists, the bounds do not matter for it.

`CHECK_DEADLOCK FALSE` is used for `RequestRetry` and `Classification`, whose single
call ends, and for `Lifecycle`, where nothing is left to do after `Close`.
`Metrics` goes on reading when its `MaxRequests` bound is reached.

### Fairness

Weak fairness of a goroutine's next step is Go's scheduler: a goroutine that
can run does run; a `time.After` or limiter wait ends. Strong fairness is used
in three places. Acquiring a mutex (`EnterCooldown`, `Recover \/ GiveUp`,
`Release`): `sync.Mutex` and `sync.RWMutex` hand the lock to a starving waiter.
Waiting in the select for a session (`Select`): a channel serves blocked
receivers in order, so a caller cannot be overtaken for ever. Releasing
(`Release`): every borrower in `src/` defers `releaseSession`, so a session
that is lent comes back, provided `fn` returns. Nothing is assumed of new calls,
of attempts in flight, of the administrator, nor that `Close` is called at all.
In `RequestRetry` one weak fairness condition covers the call's goroutine; it
includes that `fn` and `acquireSession` return. In `Lifecycle` a checker's `Exit`
is strongly fair: its select has ticker and context to choose from at every
round, and Go chooses at random. Requests are assumed to end, not to begin.

## Disagreements found

1. `dead`: `config.go:17` says a dead endpoint "will not recover without an
   explicit ResetEndpoint call"; a `markFailed` in flight overwrites the state
   (`endpoint.go:242`), and a recovery does when `MarkEndpointDead` falls between
   its check and its store. `RetirementSticks` is what does hold: once nothing
   is in flight, only `ResetEndpoint` revives it.
2. `superseded`: `endpoint.go:277` says a superseded recovery does not recover;
   one that left its select before it was cancelled does, and cuts the newer
   cooldown short.
3. `exhausted`: `config.go:46` says `ErrAllProxiesBlocked` is returned when no
   endpoint is left; on a retry the previous attempt's error is returned
   instead (`client.go:223`).
4. `ratio`: `successRate` loads the total before the successes and can exceed
   one, in the weight and in `Stats`, which `pool.go:178` calls a point-in-time
   snapshot.

The following were met while modelling and have no run of their own.

* The cooldown's product is computed before it is capped and wraps around for a
  `CooldownPeriod` of more than 18 years (`endpoint.go:250`), which the model
  contains; the properties of `CooldownDuration` say so in their premise.
* `detector.go:58` and `94`, `transient.go:56` and `90` say that empty fields
  fall back to the defaults; the code falls back for nil only, and an empty
  list disables the check, as `CHANGELOG.md:24` has it. `Pick` and
  `DisabledIsSilent` follow the code.
* A blocked error is wrapped ("proxy %d blocked"), but when it comes without a
  response the caller gets `fn`'s own error (`client.go:224`), without the
  wording the classifier would recognise; beside a response it goes out
  wrapped. Hence the two cases in `ForeignStaysForeign`.
* An `fn` that calls a second, exhausted client returns an error whose text says
  "blocked", which counts against the outer client's endpoint.
  `NestedExhaustionStops` is what holds: it is not retried.
* `pool.go:112` speaks of a round-robin between equal endpoints; the draw that
  follows is random, and the rotated origin only orders the list it draws from.
* `README.md:97` of the repository says "Cancellation stops further attempts".
  It does when `fn` returns `context.Canceled`, which is what `CallSpec` checks
  (`Settling`). The end of the context alone does not: an `fn` that does not pass
  it on ends with another error, retry-go's wait has delay and context to choose
  from when both are over, and so has the `select` at `endpoint.go:124`, with a
  session, when no rate limiter looked at the context before. In the model that
  is `EndContext` before `NextAttempt`, `Pick`, `Acquired` and `RunFn`; TLC finds
  that behaviour when it is asked for `[](pc = "waiting" /\ ctx # "live" =>
  [](pc # "ran"))` on the instance of `retry`. A deadline that passed is not even
  refused by `RetryIf` (`client.go:214`), only by retry-go's choice.
* `doc.go:15-17` and `endpoint.go:14-17` say that the warm-up keeps a new endpoint
  from being written off because its first sample happened to be slow. The
  neutral baseline is one over the measured latency (`endpoint.go:310`), so the
  slow sample lowers it as well, and with a success rate of one the blend is the
  computed weight, as `endpoint_test.go` notes; what the warm-up forgives is
  failures. `Weight` follows the code.
* A success ratio above one (`ratio`) lifts the weight above the neutral baseline;
  `LiftIsBounded` says by how much.
* Several attempts that fail together run `markFailed` once each and raise the
  tier by several for one outage (`client.go:242`); no document says otherwise.

## Proofs

TLAPS checks the following for every value of the constants that satisfies the
named assumptions of the module (thresholds positive, bounds natural numbers,
identities distinct, sessions and workers finite, `None` and `Nil` none of the
values they stand beside). Every invariant and every action property of a
passing run is the subject of a theorem, and so are both refinements.

* `EndpointHealthProofs`. The inductive invariant `IInv` is the type invariant
  with `RecoveryArmed`, `RecoveryCancellable`, `FailuresHandled`,
  `EscalationFaithful` and `CriticalSections`. The last is the strengthening:
  `mu` is held exactly by who is inside; while a `markFailed` is about to arm,
  every running recovery has been cancelled (so arming a new one keeps "at most
  one in force"), its tier is positive and the shared tier is either that or
  cleared (so the shift is legal whatever resets happen); a recovery that is
  about to clear the failures has already taken the endpoint out of cooldown
  (so its exit leaves no cooling endpoint behind). One lemma per part, one step
  per action. `RetirementSticks` is an action property and follows from the
  types alone.
* `SessionPoolProofs`. `IInv` joins `OnePlace` and `RateLimitIsOwn` with
  `CloseOrder`: how far `Close` is and what is closed, cancelled and refused by
  then. `RoomToReturn` is the counting argument: while a caller holds a
  session, the channel holds at most all the others, so it has room. From it
  follow `NeverFull` and that a release before Close never closes a session,
  which the refinement of `SessionLease` needs: `Keep` lends, `Release` returns
  or retires, `Discard` and `Drain` retire, `CloseChannel` shuts, everything
  else is a stutter of the lease. `WhereMoved` and `WhereKept` reduce each case
  to the one session that moves.
* `CooldownDurationProofs`. Below the overflow bound wrapping is the identity,
  so the cooldown is exactly the lower of the cap and the period times the
  multiplier; doubling and the bounds follow.
* `DomainTrackerProofs`. `Remembered` is the strengthening: the map's entry is
  at most `Lag` older than the newest block, unless its time is over; the same
  holds of what a reader loaded against what it must know; and only expired
  entries are deleted.

* `RequestRetryProofs`. The properties speak of the last run of `fn`, the code
  only has two variables it overwrites. `IInv` ties them together:
  `AttemptsInOrder` (nothing ran in attempts to come), `MemoryOfLastRun` (what is
  remembered is of the last run, whatever attempts without a session followed),
  `SettledIsLast` (an outcome that settles the call is the current attempt's)
  and `ErrorOfAttempt` (the error under judgement is that attempt's own or says
  why `fn` did not run). `RememberedIsCurrent` and `ReplyIsDue` draw the
  conclusion the refinement of `ProxyCall` needs: `RunFn` runs, `Return` answers
  or refuses, a failed `Resolve` refuses, everything else is a stutter.
  `ScanWitnessed` is the invariant behind `SelectionFresh`: what the scan has
  found was true at some moment of it, although the endpoints may have changed
  since.

* `LifecycleProofs`. What `Released` says is about the end; the invariant says
  what leads there. `PoolsInOrder`: `New` goes through the configuration in
  order and the map holds exactly the pools it is done with, each under a name
  no later one can take. `SessionsInOrder`: what lies before New's position is
  open, what lies after it is not, and a drained endpoint never gets a session
  back. `CloseInOrder`: nobody closes before `New` has succeeded or failed, and
  whoever is inside a `closeOnce` is at that endpoint in his list. `StoppedFirst`:
  an endpoint is awaited or closed only after its pool's checker was told to
  stop, or belongs to the pool that `New` gave up and that never had one.
  `NothingForgotten`: for everybody who closes, each opened endpoint is in a pool
  still to do, in his list, or drained; so when nothing is to do and the list is
  empty, everything is drained, though another caller may have done it:
  `SkipClosed` goes on only when the `closeOnce` it finds taken is over
  (`OnceDone`). `RegisteredArePast` (the map holds the pools `New` is done with)
  and `WholePool` (who takes a pool is given all its endpoints) carry the proof.
* `MetricsProofs`. `OneMoves` is the counting argument: a worker that goes from
  one step to the next takes one off the one count and adds it to the other, so
  `CountsAgree` is inductive, and only with it the types are. `MeasuredIsKnown`
  (no average of positive samples is zero) and `ReadingInOrder` (what was read
  was so once and has only grown since, and the weight is made of it) are the
  strengthening behind `ReadingsFit`: the order in which an attempt writes
  (`SuccessIsMeasured`) meets the order in which a selection reads.
  `LiftIsBounded` follows, with `WeightLifts` for the products. `NoSampleLost`
  compares the average with a function defined by recursion over all samples. No
  induction over data is needed: `HistoryFolds` (there is such a function, and it
  ends with the average) is preserved by every step, since a swap adds one
  sample to the history and one value to the function (`FoldingGrows`).
* `ClassificationProofs`. Phrases, statuses and configurations are the finite sets
  of the module, so what is general here is the number of attempts: what a call
  remembers may be several attempts old. `BlameInOrder` (an endpoint is blamed
  for what the call still remembers), `ErrorInOrder` (an error under judgement is
  the wording of one of five outcomes, the one returned of one of three) and
  `ExhaustedInOrder` are the strengthening; `ScanInOrder` says that a genuine
  header that was not seen is still to be seen. `TiersAre` and `ListsAre` say
  what the lists can be, `TextAdds` that the tiers are monotone in the text.

Model-checked only: the liveness properties (`CooldownEnds`, `RecoveriesExit`,
`MarksReturn`, `AcquireReturns`, `CloseCompletes`, `CallReturns`, `NothingStays`,
`CallsReturn`), which need fairness and `ENABLED` and are out of the prover's
reach, and the four disagreements, which are counterexamples.

## Not modelled

Transports are I/O behind an interface. `StickyEndpoints` and `FromURL` are string
handling, and `validate`'s checks of single fields are one nondeterministic
refusal in `Lifecycle`. Of the detector and the classifier the matching itself,
substrings and regular expressions, is left out; who is asked what and in which
order is in `Classification`. The random draw among the scores is one goroutine's
float arithmetic; `RequestRetry` lets it pick any candidate. `Stats` only loads.
A probe that fails because every session is on loan (`health.go:92`) is one of
the ways `CountFailure` happens; no module has both the sessions and the health
of an endpoint. Logging and `lastFailure`, which nothing reads, are left out.
There is no crash recovery and no message to lose.

## Plan

1. `Composition` of `EndpointHealth` with `SessionPool`: probes that fail because
   every session is on loan (`health.go:92`), and `markFailed` after `Close`.
2. What the composition inherits from the theorems about its parts.
