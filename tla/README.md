# refpool: TLA+ specifications

This directory specifies and verifies refpool: the keyed, reference-counted,
bounded LRU pool (`src/packages/core/src/pool.ts`), what it promises its
callers, the circuit breakers that guard its factory (`breakers.ts` and the map
of them in `pool.ts`), `warm`, the idle list and the mutex as the linked entries
and chained promises they are, listeners that call back into the pool, and the
application around it (`src/packages/nestjs`, the database adapters, a breaker
with a timeout, and one gauge of `src/packages/metrics`). TLC checks
small instances; TLAPS proves theorems for every value of the constants.

## 1. The system

| Component | State it keeps | Operations | What makes it correct |
|---|---|---|---|
| `RefCountedLruPool` (core/src/pool.ts) | live map `entries`, map `orphans`, idle list, per-key `pending` counts, per-key mutex cells, `reserved`, `capacityWaiters`, `closed`/`started`, counters; per `Entry`: `refCount`, `condemned`, `disposed`/`disposing`, `inIdle` | `acquire`, handle `release`, `release(key)`, `drain`, `stop`, `start`, TTL `sweep`, `warm`, `getStats`, `gcKeyState` | nobody's resource is disposed of while held; one resource per key; live resources and creations never exceed `max`; a slot that comes free reaches a parked call; a closed pool disposes of everything |
| Idle list (pool.ts 570-596) | links of a doubly-linked list, `idleCount` | append, remove, walk from the head | on the list iff live and unheld, once, oldest release first |
| Per-key mutex (pool.ts 639-662) | a promise tail and a count per key | `runExclusive` | calls of a key run one at a time in arrival order; a cell is dropped only when unused |
| `InMemoryCircuitBreaker` (core/src/breakers.ts) | `_state`, `failures`, `openedAt`, `halfOpenAttempts` | `exec`, its success or failure | trips at the threshold, stays open for the cooldown, never gets stuck half-open |
| Breaker map (pool.ts 600-637, 670-681) | one breaker per key, its unsubscriber | create on demand, drop when unused and closed | an open breaker is never forgotten; unused ones do not pile up |
| `warm` (pool.ts 200-230) | a work queue, handles collected so far | workers that acquire and release | releases all it acquired, also after a failure |
| `TypedEventEmitter` (core/src/events.ts) | listeners per event type | `on`, `off`, `emit` | one listener's throw reaches nobody else; a listener that calls back finds a pool that can take the call |
| Opossum adapter (core/src/opossum.ts) | the imported library, the breaker made last | `exec` | a call it gives up on leaves nothing behind |
| `@refpool/nestjs` | a handle per request | middleware `use`, service, module shutdown | every handle is released when its request ends |
| Adapters (knex, node-postgres, typeorm, prisma, drizzle) | none (drizzle: the client of each db) | a factory, a `dispose`, `withResource` | ends the client of a failed factory before it throws; releases in a `finally` |
| `@refpool/metrics` | gauges and counters | subscribe to events | copies what the pool reports |

The parts interact by calls on one thread. `acquire` takes the fast path
(a live, held entry is shared at once) or queues in the key's mutex; inside it
`obtain` validates an idle entry, resurrects an orphan, or passes the capacity
gate and calls the factory through the breaker. Every `await` gives control
back to the event loop, so calls, releases, drains, timers and the end of
factories, validations and disposals interleave there. That is where the
program is hard: a value read before an `await` is used after it, a slot is
promised before an entry exists, a wakeup races a timeout, and `drain` cuts
through all of it. `PROJECT.json` lists these hazards line by line.

## 2. The modules

| Module | Contents |
|---|---|
| `PoolSeqs` | the lists of the pool as sequences: `Elements`, `Distinct`, `Without` |
| `PoolSeqLemmas` | proved facts about those operators: members, distinctness, and the order in which `Without` keeps what it keeps |
| `RefPool` | the pool: one action per stretch of code between two awaits |
| `RefPoolProofs` | theorems about `RefPool`: types, mutex, waiters, reservations; the claims of the calls, the maps and the idle list agree |
| `RefPoolService` | ... : counts, holders, bound, wakeups; it implements `ResourceBroker` |
| `MCRefPool` | the instances of `RefPool` that TLC checks: calls, keys, symmetry |
| `IdleLinks` | the idle list: ends, count, and the link fields of the entries |
| `KeyMutex` | `runExclusive`: cells, and promises that wait for one another |
| `PoolInternals` | `RefPool` with those two beside its sequences |
| `MCPoolInternals` | the instances of `PoolInternals` |
| `PoolInternalsProofs` | theorems about it: it implements `RefPool`; the chains are the queues, the links the idle list |
| `Listeners` | `PoolInternals` with a `release` listener that calls the pool |
| `MCListeners` | the instances of `Listeners` |
| `ListenersProofs` | theorems about it: what holds in the middle of a release, and after it |
| `CircuitBreaker` | the breaker and the callers of `exec` |
| `CircuitBreakerProofs` | theorems about `CircuitBreaker` |
| `ResourceBroker` | what the pool promises, with nothing of how it keeps it |
| `TenantConnection` | the Nest middleware and `withResource`, clients of `ResourceBroker` |
| `Warm` | `warm` and `warmKey`, clients of `ResourceBroker` |
| `Adapter` | the factories and disposals of the database adapters, on the other side of `ResourceBroker` |
| `NestApp` | clients and adapter over one `ResourceBroker`, with start and shutdown |
| `CreationTimeout` | `NestApp` with a breaker that gives up on slow creations |
| `MCNestApp` | the instances of `NestApp` and `CreationTimeout` |
| `NestAppProofs` | theorems about `NestApp` and `CreationTimeout` |
| `KeyBreakers` | the map of breakers, one per key; each a `CircuitBreaker` |
| `BreakerMetrics` | the Prometheus breaker gauge over `KeyBreakers` |
| `BreakerMetricsProofs` | theorems about `KeyBreakers` and the gauge |

### How RefPool corresponds to the code

A member of `Calls` is one call of `acquire(KeyOf[c])`, with at most one
release of its handle; a resource is named after the call whose factory made
it, so a key's successive resources are distinct values. `pc[c]` says where the
call stands:

| `pc[c]` | in the code |
|---|---|
| `new` | not called yet |
| `queued` | in the key's mutex, `obtain` not started (`cell.tail.then(fn, fn)`) |
| `validating` | awaits `options.validate` |
| `replacing` | awaits the disposal of a stale resource |
| `parked`, `woken` | awaits `waitForCapacity`; its promise has been resolved |
| `creating` | awaits the breaker and the factory |
| `discarding` | awaits `disposeOrphaned` of a resource that came too late |
| `got`, `failed` | `obtain` has settled, `acquire` has not resumed |
| `holding`, `done` | has a handle; has released it |
| `rejected` | `acquire` rejected |

`pending` is not a variable: it counts the calls of a key whose `pc` is in
`InFlight`, as `incPending`/`decPending` do. `queue[k]` is the mutex of the
key as a FIFO lock whose head runs. `idle` is the linked list as a sequence.
`status[e]` is an entry's life, with `disposing` for the time `options.dispose`
runs. `condemned` holds the entries whose flag is set. `waiters` is
`capacityWaiters`; settling a waiter (its `settled` flag, its timer, its place
in the array) is one step in the code and here.

Continuations of promises and timers may run in any order in the model; the
engine runs continuations first in, first out, which the model includes. Timer
callbacks (`Timeout`, `Sweep`) run only when no continuation is ready
(`MicrotaskReady`); user code that calls `acquire`, `release`, `drain` or
`start` may run at any point, since it can itself be a continuation.

Abstractions, each with its reason:

- Time is not counted: a timer may fire whenever its call is parked, and a
  sweep may find any prefix of the idle list expired (the list is in release
  order). All that a clock could add is which of these happen.
- The breaker is part of the factory's outcome: a refusal by an open breaker is
  a rejection of `exec`, as a throw of the factory is. `CircuitBreaker` models
  it by itself.
- Cumulative counters (hits, misses, created, disposed, evicted), which nothing
  in the pool reads, and logging are left out.
- Listeners are user code. `emit` calls them in the middle of a stretch of code;
  except for `release` a call made there meets what it would meet just before or
  just after that stretch, which `RefPool` has: `acquire`, `create`,
  `orphan-resurrect`, `dispose` and `drain-start` are emitted when the entry's
  own writes are done, or none are; the `evict` of the loops of `drain` and
  `sweep` between two entries, each of them as before the loop or as after it.
  `release` is emitted between the decrement of `refCount` and what follows from
  it: `Listeners`.
- `stop` is `drain` with its first two statements repeated; it is one of
  `Drains`.
- Disposal errors are swallowed by the code: `DisposeDone` is either outcome.
- The resources are never reused across calls' names, which bounds the number of
  creations by the number of calls.

### How PoolInternals and its parts correspond to the code

`IdleLinks`: one record with `idleHead`, `idleTail`, `idleCount` and the fields
`inIdle`, `prev`, `next` of every entry; `idleAppend` and `idleRemove` are the
two methods, field by field, early returns included. `reset` is the end of
`drain`, which clears the ends and the count and leaves the links of listed
entries as they are. `Walk` follows `next` from the head, as `takeLruIdle` and
`sweep` do. `Represents` says which sequence a record of links stands for.

`KeyMutex`: a cell is a number, unique per key while the map or a call refers to
it. A promise is named after the call whose end settles it, `None` when it is
settled: `tail` is a cell's, `after` the one a queued call waits for. A call may
start (`mayRun`) when its predecessor has ended; `leave` is the callback that
counts the call out and drops the cell. `gcMutexes` is the part of `gcKeyState`
that looks for cells with no call: it is a step, and it finds none.

`PoolInternals` conjoins each action of `RefPool` with the calls on the two that
the same lines make. `obtain` is started by the chain (`mayRun`), not by the
sequence `queue`; eviction takes the victim that the walk along the links finds;
a sweep and a drain take their entries out of the list one after the other, the
drain in any order (the code's is that of the live map, which is not modelled).
If links or chain disagreed with the sequences, `LinksRepresentIdle` and
`MutexRepresentsQueue` would be violated. That each behaviour of `PoolInternals`
is one of `RefPool` is a theorem (`PoolRefined`).

`Listeners`: `BeginRelease` is `releaseEntry` up to the end of the decrement,
`EndRelease` what follows the event; `EmptyRelease` is its two early returns, for
an entry that is disposed of or unheld already (`Spent`), which emit nothing. In
between, what the listener calls runs on
the same stack: other steps wait (`Quiet`), and a nested release is finished
before the one around it (`releasing` is that stack). A throw of the listener is
a return, since `emit` isolates it. `release(key)` is one step here although it
emits the event as well: a listener runs inside the releases of handles only, and
does not call `release(key)` itself.

### How CircuitBreaker corresponds to the code

The four fields are the four variables. `exec` has one action for each way in
(`Run`, `OpenWindow`, `Probe`); where none is enabled the code throws
`CircuitOpenError` and changes nothing. `onSuccess` and `onFailure` are the two
ends of a call; neither asks how the call was let in, and the model's `call[x]`
(`call` or `probe`) is read only by properties. `now` is the injected clock.
`Concurrency` is how many calls overlap: 1 for a breaker of a single key, where
the pool's mutex is around `exec`; more for a breaker shared by keys.

### How RefPool implements ResourceBroker

`ResourceBroker` has four variables: what each call wants, the resource it was
granted, each resource's life, and whether the pool is shut. `RefPool` instantiates
it with a refinement mapping that translates the `pc`: every `pc` between the
call and its end is `waiting`, `holding` is `granted`, `done` and `rejected` are
`ended`; an entry is `open` while in service and has `closing` for its
disposal; `shut` is `closed`. `KeepsBrokerPromise` is the abstract
specification, checked as a property of the pool (run `service`, without drains,
and run `shutdown`, with two) and proved of it (`PoolIsABroker`). What it says
beyond the invariants: a grant is of the call's own key, a resource is closed only
in a step that finds nobody holding it, never before the call it was made for has
had it while the pool is open, by a release only in a shut pool and then
whenever it is the last, and no call is granted anything after it has ended.
The promise ends where the code's does: in a pool that is not shut what is
granted is open, in a shut one a call may be granted what a drain or a last
release has closed since it was found (`Found`), which is `drain_takes_held`. The broker does
not say which closed resources those are. After a `start` that follows a drain
the refinement fails, for the reasons listed in section 3.

### How the clients correspond to the code

`TenantConnection`: `UseMissing` and `UseTenant` are `use()` up to its await,
`Attach` and `AcquireFailed` what follows it; `Finish` and `Close` are the
response's events, whose listener `release()` is idempotent through `released`.
A response may close at any time, before `acquire()` has resolved too. `JobAsk`,
`JobRun`, `JobEnd` are `RefPoolService.withResource`, whose `finally` releases
whatever `fn` does.

`Warm`: `WarmInit` fills the work queue (in any order of the keys), `TakeKey`
and `AskNext` are the worker's and `warmKey`'s loops, one `acquire()` at a time,
and `KeyDone` is the `finally` block, reached after the last `acquire()` or a
failed one. The code passes over a failed key and goes on; so does the worker.

`Adapter`: one machine for the five packages. `Factory` is the pool's call of the
factory, with the slot it has reserved (`InFactory` counts as taken, which is
`reserved` in the code); `Configured` or `ConfigFailed` is the end of
`config(key)`; `Made` the end of the factory, after which the pool opens the
resource or, closed meanwhile, disposes of it; `MakeFailed` and `Undone` are the
`catch` blocks of prisma, typeorm and drizzle, which end the client, swallow
that error and then throw. Knex and node-postgres never take `MakeFailed`: they
connect lazily.

`NestApp`: `Initialized`, `Stop` and `Stopped` are `onModuleInit`, and the two
ends of `onApplicationShutdown`: `stop` waits for what is in the pool when it is
called (`awaited`), not for victims evicted earlier. The pool's own steps are those of
`ResourceBroker` (`PoolNext`, `AdapterNext`), except that after `Stop` a call is
served only what was open then, closed meanwhile or not. That the pool evicts
resources only to make room, or with the TTL, is dropped: it may do so whenever
the broker allows it.

`CreationTimeout`: `TimedOut` is the rejection of opossum's `fire()` while the
factory it has called runs on: `obtain` gives the slot back and rethrows.
`LateEnd` is the rest of that factory, whose result nobody takes.

`KeyBreakers`: a key's breaker is a record of the four fields or `NoBreaker`;
`breakerOf` gives a key without one the breaker `resolveBreaker` would make.
The rest of the pool is reduced to what `dropBreaker` reads: the calls pending
for a key, whether a map holds it, and disposals under way, at the end of which
`dropBreaker` runs. `gcKeyState` is the `mutexGcMs` timer. `pool` says whether it is
armed: `start` arms it, `drain` (or `stop`) clears it, closes the pool and takes
what is idle out of the map; a pool that has not been started serves calls
without it.

`BreakerMetrics`: the gauge follows the `breaker-*` events, which `wireBreaker`
emits with each counted transition, so a step of `KeyBreakers` and its event
are one step. `moved` remembers the key that moved last, for properties only.
`unbind` removes the listeners and the gauge with them.

## 3. The runs

Every bound is in the `.cfg`; `CHECK_DEADLOCK FALSE` wherever the finitely many
calls (or clock ticks) of an instance may all be used up.

| Run | Instance | What it asks |
|---|---|---|
| `service` | `PoolInternals`: six calls on four keys, three of them on one; `max` 2, two waiting places, validation ok or stale, timeouts, TTL, `release(key)`; no drain | A pool in service: types, held resources intact, the bound, idle list, reference counts, single resource per key, reservations, waiters, no lost wakeup, nothing in the maps overwritten; the links stand for the idle list, the count kept with them for what `getStats` says, the chains of promises for the queues; the pool implements `ResourceBroker` |
| `shutdown` | five calls on four keys, `max` 2, one waiting place, `release(key)`, two drains, no `start` afterwards | The bound with orphans counted, nothing left behind by a closed pool; the pool implements `ResourceBroker`, its drains included, so that no disposal starts under a holder |
| `reopen` | four calls on two keys, `max` 1, two drains, `start` at any time, validation that may also throw | Reference counts exact, disposal never started under a holder and maps never overwritten across reopening |
| `progress` | `Listeners`: four calls on three keys, `max` 1, one drain, no timeouts; the listener acquires, releases and drains; fair | `drain` completes; every `acquire` settles; nothing held is disposed of; once the releases have ended the idle list is that of `RefPool`, no entry on it twice |
| `shared_breaker` | three overlapping calls, two probes, threshold 2, cooldown 2, clock to 6; fair | Trips at the threshold; a half-open breaker always has a probe under way, and leaves half-open |
| `key_breakers` | two keys, each with one call and one disposal at a time, threshold 2, one probe, clock to 2; `start` and drains at any time; fair | No breaker is dropped under its call or while open; per key the changing breakers are one `CircuitBreaker`; strays go while the pool is started; the gauge follows the last transition |
| `nest_app` | a request with a tenant and one without, a job, a warm-up of two tenants by two workers (one of them twice); one slot for all; fair | Users are given an open resource until the shutdown begins, and what is open stays so under them, through it too; warming leaves nothing held and ends; never more clients than `max`, failed ones included; the shutdown ends, and every client with it |

In `service` three keys with one call each compete for two slots and two waiting
places while the fourth has three calls: a call can be served, evict, park
behind another and be turned away in one behaviour, and the third call of a key
is the first that can come while a predecessor runs and another waits, or find
a cell that has been dropped and made again, for which two cells are enough. At
most two entries are listed at a time: taking out the first mends a link back,
the second a link forward, one alone both ends, and these are the branches of
`idleRemove`. Two drains with five calls are what it takes for
two to share an orphan while a call waits. The third call of a key in `reopen`
follows a resource, its orphan and its successor. In `progress` two holders of
one resource release inside each other, and two more keys wait for its slot.
One call at a time per key is all a key's breaker sees, and two keys are what
it takes to tell one breaker of the pool from another; a clock of two ticks
passes a cooldown of one, twice. One slot is the hardest case of the
application: every client competes with every other, workers included.

Each passing property has a mutant: a plausible bug, kept as a definition
marked `fault` beside the one it replaces, under which TLC finds the property
violated.

Five runs show a disagreement between the code and what the repository says of
it (details and quotations in `PROJECT.json`):

| Run | Violated | What happens |
|---|---|---|
| `drain_takes_held` | `HeldResourceIntact` | `obtain` returns an idle entry, with `validate` an await earlier; a drain before `checkout` finds `refCount` 0 and disposes of it; `checkout` hands it out |
| `validate_lost_wakeup` | `NoLostWakeup` | a call parks while the only idle entry is being validated; `validate` throws, the entry is evictable again, nobody is woken |
| `response_closed_early` | `EndedRequestsHoldNothing` | the response closes while `acquire()` is pending; the listeners are registered too late and the handle is never released, so a later shutdown waits for ever |
| `creation_timeout` | `LiveClientsBounded` | a breaker with a timeout gives up on a factory that succeeds later: its slot has gone to another call, and the client it makes is neither pooled nor ended |
| `shared_stale_success` | `OpenForCooldown` | with a shared breaker, a call from before it opened succeeds late and closes it at once |

Smaller divergences seen while modelling, with no standing run:

- after `start`, resurrection can put an orphan back beside a full live map, so
  `entries.size + reserved` exceeds `max` (the comment on `reserved` says
  never; counting orphans, `CapacityBound`, is what holds without reopening);
- the gap of `drain_takes_held` can also leave an entry that its holder's
  release puts on the idle list of a reopened pool; its eviction deletes the
  key's newer entry from the live map, and the next drain does not find that one,
  or, where the key has no newer entry, frees no slot for the reservation that
  follows;
- after `start` a call can park beside a condemned entry that was resurrected;
  the slot comes free with its last release, which wakes nobody;
- calls that arrive while a drain waits may resurrect a condemned resource, and
  each one that does puts off the end of the drain; without end if such calls
  never stop (`DrainCompletes` is about the finitely many of a run);
- `drain` can resolve while a factory call is under way or a victim is still
  being disposed of: neither is in the maps;
- with `max <= 0` the counter `reserved` goes below zero, which nothing reads;
  therefore `TypeOK` and `ReservedExact` speak of bounded pools;
- a woken call whose slot has been taken may be rejected with
  `PoolExhaustedError` by `maxWaiters`, and otherwise goes to the back of the
  queue with a new timeout;
- a `release` listener that calls `drain` has its entry disposed of by the drain,
  after which the rest of the release appends it to the idle list: the comment
  on `inIdle` (set iff the entry is in the live map and unheld) is wrong of that
  entry, as it is of the one of `drain_takes_held`; `idleCount` then counts an
  entry no map holds, `getStats().inUse` can be -1, and `inIdle` survives the
  next drain's reset.
  Nothing follows of it in a pool that stays closed; therefore `IdleListKept`
  and `GaugesExact` speak of open pools;
- a drain called by an `evict` listener of `sweep` makes `evicted` count an
  entry that both take;
- `gcKeyState` looks for mutex cells with no call, and there is none: `settled`
  has dropped it;
- the Prometheus breaker gauge is one number ("current circuit-breaker state")
  for breakers of all keys, and shows the one that moved last: closed, while
  another key's is open;
- `getStats().live` does not count a resource whose disposal is under way;
- a shared breaker's earlier probes may run beside those of a later window;
- `dropBreaker` forgets the failures a closed breaker has counted, so a key
  whose factory fails less often than `mutexGcMs` never trips its breaker
  (`Forgets` in `KeyBreakers`); an open breaker of a key nobody asks for any
  more is never dropped; without `mutexGcMs`, and from a drain until the next `start`,
  neither is a closed one of a key that has no disposal to come: a stopped pool
  keeps it.

### Fairness

`progress` assumes weak fairness of ready continuations and of the ends of
`validate`, the factory and `dispose` (`EventLoop`), of holders' releases
(`HoldersRelease`), and of the timers of parked calls (`TimersFire`, vacuous in
this run, which has no timeouts), and that a listener returns (`EndRelease`: it
is synchronous code, run to its end). The event loop runs what is ready; the
options' promises settling and handles being released are what the pool asks of
its user. Nothing is assumed of new calls, sweeps, drains or `start`. In
`shared_breaker` only the end of a call is fair: nobody has to call `exec`. In
`key_breakers` only the `mutexGcMs` timer is, while `start` has it armed
(`gcKeyState` is enabled in no other state).

`nest_app` assumes of the pool (`PoolFair`) that a waiting call is served when
its resource is open, that an unused resource makes room for a starved call,
and that a closed pool turns calls away; the
fairness of `progress` is where these come from, and `AcquireSettles` and
`DrainCompletes` are what shows them there. Of the adapters (`AdapterFair`): the
factory is called when there is room, and `config`, the database and `dispose`
answer. Of the application (`AppFair`): continuations run, every response closes
in the end, `fn` of `withResource` ends. A call may be refused but need not be.
The calls are finitely many and every step moves one of them on, so no
behaviour is infinite without stuttering and fairness of each kind of step as a
whole is enough, which is weaker than fairness for each call.
`ShutdownCompletes` excepts the requests of `response_closed_early`, by name
(`Deaf`), and no others.

`NoLostWakeup` is stated for states where no continuation is ready and no stale
resource is being replaced. While one is, its slot is free and its own call is
about to take it.

## 4. The proofs

Every theorem holds for all sets of calls, keys, drains, clients and cells and
for all options; what it assumes of them is `CallsAssumption` and
`OptionsAssumption` (`RefPool`), `CellsAssumption` (`PoolInternals`),
`ClientsAssumption` (`NestApp`) or `BreakerAssumption` and its like, and what a
theorem states itself. Three hypotheses about the use of the pool recur:

| Hypothesis | Means | Why it is needed |
|---|---|---|
| `Undrained` | no `drain` or `stop` has been called yet | a drain can dispose of what a call has found but not checked out (`drain_takes_held`) |
| `NotReopened` | no drain yet, or `start` is never called after one (`~MayReopen`) | the divergences of reopening listed in section 3 |
| `ReleaseByKey => ~MayReopen` | a pool that is used with `release(key)` is not reopened | that method "can't tell whose reference it drops"; beside an orphan and a newer entry of its key it drops one that is not the caller's |

### Lists

`PoolSeqLemmas`: what `Without`, `Append`, `SubSeq` and `Tail` do to the members,
the distinctness and the order of a list. `Without` is `SelectSeq` written without
recursion: the n-th place kept is the one of rank n. `RankBijective` shows that
ranks and places correspond: the rank is a strictly increasing injection from a
finite set of places into `1..Cardinality`, and an injection between finite
sets of one size is a surjection, by the library's facts on cardinality.
`WithoutIs` says the converse: a list with the right members in the right order
is `Without`, which the linked list is compared with.

### RefPool

`RefPoolProofs`:

- `TypeCorrect`, `WaitersAreParked`, `ReservationsCounted` (for `max > 0`) and
  `OneCallPerKey`, reopening included.
- The types alone are not inductive: `checkout` of `NoEntry`, or `Tail` of an
  empty queue, would leave them. The invariant is `Base`: the types; `ClaimsReal`
  (a call that validates, replaces, was given or holds a resource has one);
  `ParkedListed` (the waiters are the parked calls, each once); and `QueueOk`
  (a key's queue is a list of distinct calls of that key which are all in
  flight, all but its head are still queued, and a call past its turn is the
  head).
- The argument: `TypesStep` goes through the actions once. `StepEffect` goes
  through them a second time and says of each what it does to the mutex
  (nothing, one call joins, the running call leaves), to the waiters (nothing,
  park, wake, leave, all rejected) and to the reservations (`Balanced`).
  `QueueStep` and `ReservedStep` then need only these few shapes.

Its second half adds `Tables`, the invariant that ties the three places where
the pool knows of a resource, through drains and reopenings alike: `Claims` (what
a call has found is of its key and not yet counted; while a call replaces, parks
or creates, its key is vacant in both maps; a resource exists once its call has
got it), `Maps` (what the maps hold is usable and of its key; an orphan is
condemned; no key is in both maps) and `Listed` (what is on the idle list is
neither condemned nor held). From `Tables` and the mutex follows
`NothingOverwritten`: neither map ever has a resource replaced by another. `Uses`
says in two shapes what any step does to holders and counts.

`RefPoolService` has the invariant of the whole pool, `PoolInv`: `Base` and
`Tables` always; `RefCountExact` where `release(key)` and reopening do not meet
(`Counted`); nobody parked in a closed or unbounded pool; and until a reopening
`Kept`. That is `Grounded` (each usable resource is in a map, a held one is the
map's; while the pool is open the holders' resources are live; when it is closed
all that is left is condemned; and `CapacityBound`) and, while the pool is open,
`IdleMembership`. `Grounded` is what is true in the middle of a release too, and
`ListenersProofs` keeps it as it is. The conjuncts need one another: exact
counts need held resources to be mapped, the idle list needs exact counts, and
the bound needs that an eviction finds what the list says. From it:

- `CountsExact`, `NotUnderHolders` (no step starts a disposal under a holder, drains
  included), both assuming `ReleaseByKey => ~MayReopen`;
- `OneResourcePerKey`, `NeverTooMany`, `NothingForgotten`, under `NotReopened`;
- `HoldersKeepTheirs`, `IdleListExact`, under `Undrained`; `NeverDrained` and
  `NeverReopened` restate the above for pools that are used in one of those ways;
- `NoWakeupLost`, under `NotReopened` and for a `validate` that does not throw:
  with one that does it is false (`validate_lost_wakeup`). It needs an invariant
  of its own, `NoneFree`: as long as a call is parked, at least `max` keys have
  their slot in use or about to be (`TakenKeys`). When nothing is under way each
  of them is a live, held resource, so there is neither room nor a victim
  (`NothingLost`). `SlotPassed` is the step where that could go wrong: a key's
  slot is freed, and the call woken for it takes the place of that key;
- `BrokerUntilReopened`: of any pool, each step until a `start` follows a drain
  is one of `ResourceBroker` or changes nothing there (`AsTheBroker`), under the
  refinement mapping of section 2. A drain closes exactly what nobody holds, and
  with the invariant `Used` (what is left usable in a closed pool has holders) each
  last release there closes its resource, as `GiveBack` demands. `PoolIsABroker` is
  the case of a pool without drains or without a `start` after them, for which
  that is the whole abstract specification.

### PoolInternals

- `PoolRefined`: `InternalSpec => Spec`. The invariant is `MutexInv`: the chains
  stand for the queues (`MutexRepresentsQueue`), a call that is in no queue has
  no cell, and a cell nobody refers to has no count and no tail, so that a
  new cell is always as new. From it a call whose predecessor in the chain has
  ended is the head of its queue, which is `RefPool`'s guard of `obtain`. All
  safety theorems about `RefPool` are thereby theorems about `PoolInternals`;
  `InternalsKeepThePromise` is one of them: without drains, or without a `start`
  after them, it implements `ResourceBroker`.
- `MutexTrue`: that invariant's main part.
- `LinksTrue` and `GaugesTrue`, under `NotReopened`. First the data structure alone:
  `Linked` is `Represents` place by place; `idleAppend` is `Append`
  (`AppendLinks`), `idleRemove` is `Without` of one entry, with one lemma case per
  branch of its code (`RemoveLinks`), the walk from the head is the list
  (`WalkIs`) and a series of removals is `Without` of them all (`RemoveAllLinks`).
  The walk and the series are recursive functions; the two lemmas take the least
  place at which the claim fails, which exists in a finite set (`Least`). Then the
  pool: `Fates` says what becomes of resources in a step, and `Ends` what may be on
  the list of a closed pool: only resources that are of no use to anybody any
  more (`Finished`), which no later call appends or removes. `LinkStep` describes
  each step as a change of list and links together, `ListInv` is `PoolInv` with
  `Ends` and `LinksInv`, and the gauges follow from the count and `IdleMembership`.

### Listeners

A pool whose listeners call back is not one of `RefPool`: between the decrement
and the bookkeeping a live resource counts no holder and is not listed. Hence
`IdleMembership`, on which so much of `PoolInv` rests, does not hold there, and
`ListenersProofs` states the invariant anew as `ListenerInv`: `PoolInv` with
`IdleMembership` replaced by `Midway` (an unheld live entry is listed or
`Emitting`, which is to say that a release of it is under way; what is emitting
is live, as long as the pool is open) and with `Stack` (the releases under way
are of resources that exist). Without the last part of `Midway` the end of a
release could list an entry that no map has. When no release is under way it is
`PoolInv` again (`QuietPool`), so that steps from outside are those of `PoolStep`;
the halves of a release and the listener's calls are what is left to prove. From
it:

- `ListedOnceReturned`: `IdleListKept`, under `NotReopened`, for all listener calls
  and depths;
- `StructuresSurviveListeners` (`MutexRepresentsQueue`, `ParkedListed`,
  `ReservedExact`) and `NothingOverwrittenInside` (`NeverOverwritten`), with
  reopenings and in the middle of releases;
- `ListenersSeeExactCounts` and `NotUnderNestedHolders`, both assuming
  `ReleaseByKey => ~MayReopen`; a release whose listener has taken the resource
  again, or drained the pool, does the right thing;
- `ListenersFindThePoolWhole`: `SingleResource`, `CapacityBound`, `ClosedLeaksNothing`
  (under `NotReopened`) and `HoldersServed` (under `Undrained`) in the middle of
  releases too;
- `ListenersLoseNoWakeup`, as `NoWakeupLost`, once releases have returned. In the
  middle of one a call may park although a resource is unheld; its slot counts
  as spoken for (`HalfKeys`), and the rest of the release wakes the call;
- `LinksSurviveListeners` and `GaugesSurviveListeners`, under `Undrained`. That is
  less than `LinksTrue` has without listeners, and TLC shows why: an entry that a
  listener's drain disposes of is appended by the rest of its release, and the
  next drain clears the ends of the list and leaves that entry's `inIdle` set
  (section 3). The pool is closed by then;
- `ListenersMeetTheBroker` and `ListenersKeepThePromise`, as `BrokerUntilReopened` and
  `PoolIsABroker`, but under `Undrained`: to callers a release happens when its event
  does, and the rest of it is a step that they do not see. In a closed pool
  they do see it, for there the rest is what closes the resource.

### Breakers

`CircuitBreakerProofs`: `Typing`, `BelowThreshold`, `NeverWedged` for any number
of overlapping calls; `QuietWhileOpen` and `CooldownServed` for `Concurrency = 1`,
which is the per-key mutex (`OneCallPerKey`). Without that hypothesis both are
false (`shared_stale_success`).

`BreakerMetricsProofs`: `KeyTyping`, `NotDroppedUnderCall`, `OpeningsAddUp`,
`GaugeTrue` and the refinement `OneBreakerPerKey`. The invariant is `KeyInv`: the
types, and for each key `Sane`, which says in what state a breaker can be while
its one call runs. `OpeningsAddUp`: transitions to open, of which a re-opening from
half-open is one, less transitions to half-open are the breakers that are open
now. It rests on each step turning at most one breaker,
and counting that turn; the refinement maps a key without a breaker to a new one,
and each step to one of `CircuitBreaker`, to the forgetting of failures, or to
nothing.

### Application

`NestAppProofs`: `AppTyping`, `UsersServed`, `WarmingReleases`,
`NeverTooManyClients`, for any numbers of requests, jobs, warm-up calls, workers
and slots. `UsersServed` says of handlers and jobs that they are given an open
resource until the shutdown begins and that, once open, it is not closed under
them, by the shutdown neither; a call that `stop` overtakes may get a closed one.
The invariant has a part per party: `Brokered` (a granted resource is of the call's
key and, until the shutdown, open), with `HandlesKept` of each step;
`UsersHold` (only the client a call belongs to gives its resource back);
`WarmServed` and `WarmSerial` (a warm-up's call waits or has a handle only while a
worker is busy with its key, and a worker has one `acquire()` under way at most,
so that its `finally` block misses none); `ClientInv` (a factory's call waits,
no two users of slots are of one key, and they are no more than `max`). Each
step is one of pool and clients, which leaves the factories alone, or one of an
adapter (`Sides`).

The invariant leaves room for a client whose call no longer waits, the one thing
a breaker with a timeout adds (`Unawaited`). That `NestApp` has none
(`NoneGivenUp`) is proved beside it and gives `ClientsBounded`. Without that, of
`CreationTimeout`:

- `TimeoutsHarmUsersNot`: users have their resource as in `UsersServed`, warming
  keeps nothing, types hold, whatever creations are given up and however they end;
- `OnlyGivenUpClientsExceed`: the clients that are not given up stay within
  `options.max` (`AwaitedBounded`), so that those given up on are all that
  `creation_timeout` shows to be too many.

### Only model-checked

- Liveness and fairness, which are out of the prover's reach: `AcquireSettles` and
  `DrainCompletes` of the pool with listeners, `LeavesHalfOpen` and `StrayBreakersGo`
  of the breakers, `InitCompletes` and `ShutdownCompletes` of the application.
- The five violations: a counterexample is an instance.

Every invariant and every action property of the passing runs is stated by a
theorem, with the hypotheses of the table where a run's constants imply them.

## 5. Not modelled

- The cumulative counters of `getStats`, the exporters' gauges and delta counters
  that copy them, and the OpenTelemetry binding, which is the Prometheus one
  with other names: they read the pool and change nothing in it.
- `warm` of a list with a key twice in it, and a `strategy.keys()` that rejects:
  `WarmInit` has each key once.
- `on` and `off` of the event emitter, and its isolation of throws, which is a
  `try` around each call.
- `noopBreaker` (the identity); which calls opossum lets in, that library's own
  state machine; the import of it, which is cached.
- Dependency-injection wiring and the health controller of the Nest module,
  which keep no state.
- Examples and benchmarks.

## 6. Plan

Done: the modules of section 2, the runs of section 3 and the theorems of section
4. What could follow:

1. What reopening leaves intact besides types, reservations, counts and the maps:
   which of the divergences of section 3 can be told apart by an invariant.
2. The cumulative counters of `getStats`, once something in the pool reads them.
