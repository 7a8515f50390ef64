# Verification of gotest

TLA+ specifications of this repository's libraries, their TLC configurations, and
TLAPS proofs.  Every definition is written from
the Go (or Lua) source; `PROJECT.json` maps each one to its lines, and lists the
runs, the theorems, the hazards of the code and the places where the code and
its comments, documents or tests disagree.

    tlc -workers 2 -config MapCache.cfg MapCache    # a run: config, module
    tlapm RedisLockProofs.tla                       # the proofs

## The system and its parts

The repository holds four libraries built along a course (`go实战.md`,
`micro/微服务.md`), largely independent of each other.

| part | source | here |
|---|---|---|
| Redis lock, retry strategy, Lua scripts | `cache/redis_lock.go`, `cache/retry.go`, `cache/lua` | `LeaseLock`, `RedisLock`, `RedisLockProofs` |
| in-memory cache with expiry, counting cache | `cache/local_cache.go`, `cache/max_cnt_cache.go` | `MapCache`, `MapCacheProofs` |
| connection pool | `micro/net/pool.go` | `ConnPool`, `ConnPoolProofs` |
| graceful exit | `cache/homework_graceful_shutdown` | `GracefulShutdown`, `ServiceProofs` |
| read-through, write-through, singleflight, bloom-filter caches | `cache/*_through.go`, `cache/singleflight.go`, `cache/bloom_cache.go`, `cache/redis_cache.go` | `ThroughCache`, `ThroughCacheProofs` |
| ORM statements: metadata, builders, dialects, valuers, middlewares | `orm`, `orm/model`, `orm/internal/valuer`, `orm/middlewares` | `OrmCore`, `OrmStatement`, `OrmProofs` |
| ORM transactions, model registry under concurrent use | `orm/db.go`, `orm/transaction.go`, `orm/model` | `OrmDB`, `OrmProofs` |
| router, middleware chain, context, files | `web` | `WebServer`, `SeqFolds`, `WebServerProofs` |
| web sessions over memory and Redis, cookies | `web/session` | `WebSession`, `WebSessionProofs` |
| RPC messages | `micro/rpc/message` | `MessageCodec`, `ServiceProofs` |
| everything else | | see *Not modelled* |

## The modules

**LeaseLock** is what a distributed lock with an expiry promises: a set of
owners that never has more than one member; ownership is given up, or lost,
before somebody else receives it.

**RedisLock** is the implementation, for one key.  `val` and `ttl` are the key
in Redis.  A *handle* is one call of `Client.Lock` or `Client.TryLock`; its uuid
is the handle itself.  A handle has two goroutines, the caller (`pc`) and
`AutoRefresh` (`auto`).  A command is sent (`Send`), executed atomically by Redis
(`Execute` with `LuaLock`, `LuaRefresh`, `LuaUnlock`, `SetNX`) and answered
(`Return`) in three steps.  The caller may give up at any of them; a command
given up on is lost, or stays in `late` and reaches Redis later
(`ExecuteLate`).  A process may die anywhere (`Crash`).  `Tick` is time; it
lets the key expire.  `lease` is a history variable: for how many ticks the
handle may act on the lock, counted from the *sending* of the command that last
acquired or refreshed it, which is all a caller can know.  A handle of `TryLock`
has expiration zero, as in the code, and may be refreshed like any other; `zeroed` is a
history variable with the handles that did so and sent `EXPIRE key 0`.  `ops`, a member
of the constant `Uses`, says which operations the application uses on which handle.

**MapCache** is `BuildInMapCache` with its sweeping goroutine, wrapped by
`MaxCntCache`.  The write lock is explicit: a section under it is entered in a
step of its own, so that goroutines queue for it, and `Unlock` releases whoever
holds it, as `sync.RWMutex` does.  `DeleteMiss` is the deferred `Unlock` of a
`Delete` that found nothing and never locked: with nobody holding the mutex it
ends the program (`fatal`), otherwise it releases somebody else's lock (`stray`).
The calls go on after that, now with two goroutines in the map: `Get` judges an item and
deletes it in two steps (`GetCheck`, `GetDelete`), and the Go runtime may notice the
concurrent use and end the program (`MapRace`).
The ticker's channel holds a time that may be old when the sweeper uses it.
`RawSetLock` and `RawSetStore` are `Set` on the wrapped cache, which
`MaxCntCache` does not count (`raw`).  Values returned to callers are left out.

**ConnPool** is the pool.  A section under `p.lock` is one step, since nothing in
it waits for another goroutine, with the exception the code makes: a factory
error returns with the lock held for good (`GetDialError`).  Looking at the idle
queue, joining the request queue, receiving, timing out, forwarding, and sending
to a request after unlocking are separate steps.

**GracefulShutdown** is `App.StartAndServe` and `shutdown`, with servers that
accept requests meanwhile, handlers that may never return, callbacks that mind
their context (as the one in `main.go`) or do not, a clock, and the goroutine
that forces the exit.  Goroutines that can run do so before the next tick.
`ServeHTTP` may see the reject flag late, since it is read without
synchronisation.

**ThroughCache** is every `Get` of the read-through, singleflight and
bloom-filter caches and every `Set` of the write-through cache, over one key.
The variable `kind` says which reader, which writer and which cache (local or
Redis) the application has, and never changes.  A call goes through the steps
look up, load, refresh, or store and update; a goroutine started with `go` is a
worker with the same steps.  Every external call may fail, and a `StoreFunc` that
fails may have stored.  `Do` is `singleflight.Group.Do`: one caller works and the
others of its flight wait.  `log.Fatalln` ends the process (`dead`).  The shadowed
variables of `Get`, the nil `SingleFlightCacheV1` caches, the missing expiration of
`NewBloomFilterCache` and the panic of the generic `Get` are as in the code.

**OrmCore** is one statement from its first configuring call to its last
execution.  `RegisterModel` is the metadata of an entity from its type, tags and
options; `SelectBuild` and `InsertBuild` write SQL as a sequence
of tokens and collect the arguments, with the first error stopping the build as
the early returns do.  `b` is the builder, which stays with the statement from
one `Build` to the next.  `Through` takes a call through the middlewares (`Entered`)
to `getHandler` or `execHandler` (`Handle`), unless one of them turned it back, and on its
way back through what `slowquery` deferred (`Returned`); `out` records the queries that
were built on the way, who built
them, what the database answered and what the caller got.  The two valuers differ
in what they do with an error of `Scan`.  What a `Selector` writes is the constant
`SelectText`.

**OrmStatement** is that text, `SelectorText`, which the configuration gives to
`SelectText`: the expressions and tables a caller composes are records made by operators
with the names of the Go functions, and `buildExpression` and `buildTable` recurse over
them.  They are in a module of their own since the prover cannot use recursive operators.

**OrmDB** is what goroutines share when they use one `DB`.  `sqlTx` is the
transaction in `database/sql` (external), `done` the flag of `Tx`, `ctxTx` the
transaction a goroutine has in its context.  `Commit` and the rollbacks are two
steps, flag and `sql.Tx`, so that `BeginTxV2` of another goroutine may come between.
`FnEnds` is the end of the function given to `DoTx` together with the decision of the
deferred function.  `GetMiss`, `GetStore` and `Register` are the registry.

**WebServer** is the route tree as a function from paths of segments to
handlers (`addRoute`, `childOrCreate`, `findRoute`, `childOf`), registrations that
panic and are survived by their caller, and then requests, one at a time:
`serve` and the handlers as operators on the `Context`, and `Chain`, which wraps the
middlewares from the last to the first.  `status` and `data` of the `Context` are
`RespStatusCode` and `RespData`; `wire` is what was written to the connection, which only
`RespJSON` and `http.ServeFile` do.  `"recoverNoLog"` is a recover middleware without `Log`:
its deferred function panics again.  Requests that run together share the trees,
which are then constant, and the LRU cache, which is external and has its own lock.
**SeqFolds** has the folds over sequences that it and the ORM modules are written with, defined by
`MapThenFoldSet` as those of the community modules are; `SequencesExt` itself brings
modules along that make the proofs many times slower.

**WebSession** is `Manager` over both stores and the cookie propagator, used as
`web/session/test` does: login, a page that needs a session (refreshing it), and
logout.  Every call on the store is a step, several requests are on their way at
the same time, and a Redis command may fail before or after it took effect.
`life` is the time a session has left, `Forever` the state of a hash between `HSET`
and `EXPIRE`; `jar` is the cookie of each browser.

**MessageCodec** is the encoding of requests and responses in bytes: lengths,
a buffer of exactly that size, the metadata in any order of the Go map (`Orders`),
and the decoders.  A field `nils` of a message tells nil slices and maps from empty ones.
A message goes through `SetLengths`, `Encode` and `Decode`, as the
tests of the package take it.  The sum over the map, the loop that writes the pairs
and the one that reads them are recursive functions, one round of the last being
`NextPair`.

## The runs

| run | shows |
|---|---|
| `redislock` | of the handles that did not send `EXPIRE key 0` two never count on the lock together (`MutualExclusion`), only the owner or expiry removes the key, the lock implements `LeaseLock`, an orphaned key expires for good, and after `Unlock` `AutoRefresh` stops refreshing, with all losses, delays and crashes |
| `redislock_try` | (violation) refreshing a handle of `TryLock` frees the lock, and two handles count on it |
| `mapcache` | exact count and no live item evicted, until a `Delete` misses; every expired item removed, `Close` works |
| `connpool` | no connection shared or lost, `Put` never blocks on a request, a waiting request has a connection to wait for (in a pool that may have one and may keep it idle), handovers complete |
| `shutdown` | callbacks begin after the requests, no forced exit without cause, the process ends |
| `through` | which variants keep unstored values out of the cache, load once, and acknowledge only what was stored; expiry ends disagreement |
| `orm_statement` | one argument per placeholder, in the caller's order; predicates keep their grouping; inserts may be built again; success is real, and rows come back into their own fields |
| `orm_db` | `DoTx` settles its transaction, returns nil only for a committed one and never commits after a panic; no transaction is orphaned; a customised model stays |
| `orm_db_error` | (violation) an error of its function does not make `DoTx` roll back |
| `web_server` | a route that is found matches and binds (`FoundMatches`); trees stay trees, static routes stay, the latest route serves (`RoutesKept`); recovery, error pages and access log leave in the `Context` what they should in each order of the chain, and only what a handler writes itself is sent (`ChainContains`); the file cache keeps its bounds |
| `web_session` | issued sessions expire, a confirmed logout and an expiry are final |
| `codec` | the buffer is exactly filled and decoding undoes encoding, but for what becomes of nil slices and maps |

The runs check what each part promises.  Type invariants and the inductive
invariants (`IInv`; `RouterInv` and `ServeInv` for `WebServer`, `CodecInv` for
`MessageCodec`, `StatementInv` for `OrmCore`) are not in the configurations: the proofs establish them for every
instance.  Definitions named after another
one with a suffix (`LuaRefresh_AnyOwner`) are mutants, plausible mistakes in the code that
`PROJECT.json` pairs with the property that notices them.

*Bounds.*  Two handles suffice for the lock, since a step involves one handle and
the key; its expiration is 2 ticks, so that a lease can be refreshed, be partly
used, and run out.  `MaxLate` and `MaxLateKinds` bound abandoned commands on their
way to one.  `redislock` has three applications (`MCUses`): two handles that lock, try,
refresh and unlock; one handle with all operations, its two goroutines included; and
`AutoRefresh` of one handle against a `TryLock` of the other.  The proofs have no such
bounds.  `MapCache` has two goroutines beside the sweeper, two keys for one
place, and a clock of three values: set, deadline, past it.  Its three applications
(`Uses`) are the calls of `MaxCntCache`, a map used directly, and both together with
`Close`.  `MaxRaw` bounds uncounted keys, and `MaxAfter` the calls that begin after a stray
`Unlock`, to one: it meets the section that lost its lock, the sweeper and the calls that
wait.  `ScanLimit` is 0
so that a sweep sees one of two keys.  The pool has three callers for
two places and one initial connection: a user, a waiter and one that timed
out.  The exit has timeouts 2 + 1 + 1 within 5 ticks and
two signals.  `ThroughCache` has two callers and two detached goroutines, so that two
calls and two refreshes overlap, and two values, so that one can be older; a call
that starts a goroutine waits for one of the two to be free.
`OrmStatement` is checked with four calls on a statement (`MaxCalls`): two that configure it and
two that build or execute it, or three executions of one that is configured; its
entities have a tag, a table name, renaming options and an invalid tag, and one that is
joined is no pointer; its predicates nest `And`, `Or` and `Not`, though not in every
combination.  `OrmDB` has two
goroutines and three transactions, so that a context can carry a transaction that is
over into the beginning of a second one while another goroutine has a third.
`WebServer` registers three routes out of thirteen: one, one that replaces
it, and one below or beside it; it has five lists of middlewares, with `recover` inside
and outside of `errhdl`, without its `Log`, and around one without `Log`;
the cache holds one file, so that the second
evicts the first.  `WebSession` has two requests, two browsers and two sessions with an
expiry of two ticks: a session that is refreshed, one tick old, and gone.
`MessageCodec` has names of up to two bytes, up to three pairs, and both separators
wherever the format allows them; lengths stay far below 2^32.

*Fairness.*  `RedisLock`: time passes, the ticker fires, every command returns
(it has a context with a timeout), and `select` takes a ready case with equal
probability, hence strong fairness for the unlock case.  `MapCache`: goroutines
inside a locked section go on; the mutex hands itself to the longest waiter,
`select` chooses at random and a map is walked in random order, hence strong
fairness for the sweeper's steps, for the meeting with `Close` and for each key.
`ConnPool`: goroutines run and callers put back what they got.
`ThroughCache`: goroutines inside a call go on, since the calls they make return, and
a value with an expiration expires.
`GracefulShutdown`: the goroutines of the App run and time passes; nothing is
assumed of handlers, clients and stubborn callbacks.

The modules of this list are the ones with liveness properties; `OrmCore`, `OrmStatement`,
`OrmDB`, `WebServer`, `WebSession` and `MessageCodec` have safety properties only,
since their progress is that of their callers.

*Deadlock* is not checked: handles finish, `Close` and the exit stop their
systems, a factory error stops the pool, statements and messages are used up.

## What is proved

`RedisLockProofs` proves for every set of handles, expiration, retry limit and
bound on late commands:

- `TypeCorrect`: `Spec => []TypeOK`.
- `InvCorrect`: `Spec => []IInv`, for all applications.  Mutual exclusion is not inductive:
  it says nothing of commands on their way.  `IInv` adds that the key always has an expiry
  (`KeyHasTTL`), that every command in flight or late fits the state of the handle
  that sent it (`CallsMatch`), and that a handle that counts on the lock, *or is
  about to be told that it holds it*, is the value in Redis for at least as long
  (`LeaseBacked`), unless it is in `zeroed`.  The only refreshes with a zero expiration are
  those of handles in `zeroed` (`Timed`), and they delete no key but their own.  The proof
  has one step per action and uses, for the scripts,
  that they compare the value before they extend or delete (`ScriptKeeps`).
- `LockExcludes`: `Spec => []MutualExclusion`, from `IInv`: two handles in `Kept`, those that
  count on the lock and are not in `zeroed`, would be the same value.
- `OwnerAlone`: `Spec => OwnerReleases`.
- `Refinement`: `Spec => ImplementsLeaseLock`, with `Kept` for the owners of the abstract
  lock.

`OrmProofs` proves of the transactions, for every set of goroutines and transactions:

- `DBInvariant`: `Spec => []IInv`.  What `DoTx` promises is not inductive: a `DoTx`
  could return nil for a transaction somebody else rolled back after its own
  commit was decided.  `Discipline` adds what rules that out: the transaction of a
  `DoTx` is in no context and nobody else's, a pending finish has set the flag, a
  context only carries transactions that were begun, and a deferred function is
  pending with the finish that the end of its function calls for.
- `NilCommitted`, `Settled`, `NothingOrphaned`: `NilMeansCommitted`, `DoTxSettles` and
  `NoOrphan`, each from `IInv`.
- `PanicSafe`, `CustomForever`: the action properties `PanicNeverCommits` and
  `CustomStays`.

It proves of a statement, for all entities with their tags and options, all arguments of
the configuring calls, any number of calls, every list of middlewares, both dialects and
valuers, and whatever text a `Selector` writes:

- `StatementInvariant`: `StatementSpec => []StatementInv`.  What a call returned says
  nothing of the builder it leaves behind, on which the next call depends.
  `StatementInv` adds that the builder has the model of its entity or none, so that `Exec`
  and `Build` work with the same model whichever of them looked it up, and that the queries
  of an `Inserter` are not only equal to each other but to that of a fresh builder.
- `InsertRestarts`: every query an `Inserter` or a `RawQuerier` builds is the one a fresh
  builder would make of it.  `Inserter.Build` resets the text at its beginning, but the
  arguments only when it comes to the values; that no argument of an earlier build gets
  through is `ArgsForgotten`.
- `InsertSame`: `InsertStable`, from the same fact.
- `SuccessReal`: `SuccessIsReal`.  By induction over the list of middlewares a call that
  has entered any number of them has sent nothing, and has an error if one of them turned it
  back (`EnteredGoes`); the handler sends once if its query was built (`GetAnswers`,
  `ExecAnswers`); the deferred functions build again, but neither send nor change what is
  returned (`ReturnedAnswers`).  That a row comes back into its own fields is
  `ReadsOwnFields`: options that only rename the table leave fields and column map as they
  were parsed, and the last field of a column is its only one.

`ServiceProofs` proves of the graceful exit, for every number of servers, set of requests and
callbacks, and timeouts:

- `ShutdownInvariant`: `Spec => []IInv`.  Beside the three properties below `IInv` says
  which servers and callbacks each phase has behind it (`StopPhases`), that a server
  that stopped before `waitTime` was over has no request (`StoppedIdle`), by when each
  phase must have ended (`InTime`), and that a waiting signal is a second one
  (`SecondSignal`).
- `CallbacksWait`, `CloseWaits`, `ExitIsGraceful`: `CallbacksAfterRequests`,
  `CloseAfterCallbacks`, `GracefulInTime`.

It proves of the RPC messages, for every set of names, `Meta` maps (of any size) and bodies:

- `CodecInvariant`: `CodecSpec => []CodecInv`.  That decoding undoes encoding says
  nothing before the last step, so `CodecInv` has what each stage leaves: a sized
  message has the lengths the code computes, and an encoded one has a buffer that is
  what the encoder writes in *some* order of the map.
- `WireIsExact`: `WireExact`.  The encoder visits the map in one order and
  `SetHeadLength` in another.  `MetaLengthExact` shows that the sum does not depend on it:
  taking any key away takes its pair's length away (`TotalWithout`), so by induction
  over subsets of the keys the sum is the length of the pairs in the order in which they
  are written.  Hence `copy` cuts nothing off and leaves no byte unwritten
  (`InBufferExact`).
- `DecodeUndoesEncode`: `RoundTrip`.  The loop of `DecodeReq` has the invariant that after
  k rounds what is left are the pairs behind the first k, and the map has exactly these k
  keys (`NextPairReads`, `NextPairDone`, `DecodeMetaReads`); the two lengths and the id
  survive `PutUint32` and `Uint32` (`Uint32Put`).  What comes back is the message with its
  nil slices and maps as the decoder makes them (`NilsOf`).

`WebSessionProofs` proves for every set of requests, browsers and ids and every
expiry:

- `SessionInvariant`: `Spec => []IInv`, one lemma per action.  `IInv` says who may
  know a session id (`Issued`), that a hash without a TTL is known only to the request
  that is about to send `EXPIRE` or has failed (`NoTTL`), that with the memory store an
  id somebody uses has its value (`Valued`), and that what is gone stays gone for the
  requests that hold it (`GoneKept`, `LogoutKept`).
- `EveryIssuedExpires`, `LogoutEnds`, `GoneRejected`, `ReadsOwnValue`: `IssuedExpires`,
  `LogoutMeansGone`, `GoneIsRejected`, `OwnValue`, each from `IInv`.
- `NeverBack`: the action property `GoneForGood`.

`ConnPoolProofs` proves for every set of callers and connections and every
`maxCnt`, `maxIdleCnt` and `initCnt`:

- `PoolInvariant`: `Spec => []IInv`.  That a connection has one place is not inductive
  alone.  `IInv` adds that the idle queue, the callers and the channels of the
  requests have different connections and every open one is with one of them
  (`HeldInUse`, `Apart`, `Kept`), that a request is in the queue once, with an empty
  channel, while its `Get` or its forwarding goroutine waits (`QueueOnce`), how the
  counter and the connections made go together (`Started`), and that once there is a
  connection there always is one (`Circulates`): `Put` closes one only when the idle
  queue is full.
- `OneUserEach`, `SendNeverBlocks`, `NoVainWait`: `OnePlace`, `SendHasRoom`,
  `WaitersHaveHope`.  The last one needs a pool that may keep a connection idle and may
  have one at all (`MaxIdleCnt > 0`, `MaxCnt + InitCnt > 0`): otherwise a `Get` does wait
  in vain, until its context ends.
- `FactoryBound`: the factory makes at most `MaxCnt + InitCnt` connections
  (`MadeBounded`), although `cnt` leaves out the initial ones.

`ThroughCacheProofs` proves for every set of callers and detached goroutines, every
choice of readers and writers, and any number of writes:

- `ThroughInvariant`: `Spec => []IInv`.  `IInv` says that what a goroutine is about to cache
  has been in the database, unless the writer caches first (`FromDB`), and that the callers in a call of
  singleflight have one leader, which is at work (`OneLeader`).
- `CacheHasRows`, `SingleLoad`, `NoneStranded`: `CacheFromDB`, `OneLoad` and
  `NobodyStranded`, each from `IInv`.
- `AckMeansStored`: the action property `AckStored`.

`MapCacheProofs` proves for every set of goroutines, keys, values and expirations:

- `CacheInvariant`: `Spec => []IInv`.  The count is exact because of the write lock, so
  `IInv` has that until a `Delete` misses, the goroutine in a section under the lock is the
  one that holds it (`MutexHeld`), and that an item which a `Get` has judged expired is
  still that item when the `Get` deletes it (`Judged`).
- `CounterExact`: `CountExact`, from `IInv`.
- `NoLiveEviction`: the action property `OnlyExpiredEvicted`, from `Judged`.  Both end with
  the first `Delete` that misses: after it a `Set` may store a new value between the judgement
  of a `Get` and its deletion, which removes the new value.

`WebServerProofs` proves for every set of routes, requests and lists of middlewares,
every number of registrations and every capacity of the cache:

- `RouterInvariant`: `Spec => []RouterInv`.  A route tree is closed under parents, and a
  node has at most one child that is a parameter or a wildcard (`IsTree`); a handler in
  a tree is that of a registered route of the same segments; static routes, and the
  latest route if its registration was accepted, have their handlers in the tree.
- `RouterFinds`: `FoundMatches`, for every path.  The fold that `findRoute` is written as
  is shown to keep, after each segment, that the node it stands at matches the segments
  read and that the parameters are those of the node (`WalkStates`, `WalkStep`).
- `RouterKeeps`: `RoutesKept`.  The path of a static route leads to its node
  (`FindLeads`); so does, for the latest route, a path that has the name `Fresh` in place of
  its parameters, which no static sibling can catch.
- `ServeInvariant`: `Spec => []ServeInv`: the cache is bounded, has no name twice, and the
  last request has left the chain as it should.
- `ChainHolds`, `CacheStaysBounded`: `ChainContains`, by induction over the list of
  middlewares from the last to the first, and `CacheBounded`.  No middleware touches `wire`
  (`Ctx`), so what is sent is what the handler sent (`HandlerWire`).

The inductions, over the segments of a path, a list, the keys of a map and the rounds of
a loop, are on sets: a
property of all numbers up to the length holds since a least counterexample would
have a smaller one (`RangeInduction`, `SubsetInduction`), and a fold over a sequence is
shown to be the last value of a sequence of states, each computed from the one
before (`FoldExists`, `FoldStates`).

Assumed of the constants: `NoTx`, `NoId` and `NoConn` are no transaction, id or
connection; the times and bounds are natural numbers; there is a browser; callers, keys
and connections that are counted are finite sets, and the factory does not run out
of connections; callers and detached goroutines are different; routes are sequences
of segments, none of them the static segment `Fresh`, and paths are sequences of
strings; names and `Meta` have no `splitter` and keys no `pairSplitter`, a `Meta` map is
finite, and a message's size fits into the `uint32` that hold its lengths (the format
cannot tell other messages apart, and the code does not check); statements are made for
entities that have a type, options rename a column or the table, and the middlewares of a
`DB` are the four of the repository.  TLC evaluates these assumptions in every run.

Only model-checked: the liveness properties (out of the prover's reach), and
`BoundArgs`, `ArgsInOrder` and `WhereUnambiguous`, which are about the text of a `Selector`:
its builders recurse over trees of expressions and tables and are recursive operators,
which the prover cannot use.

## Where the code and its documentation differ

Two differences are runs.  `orm_db_error`: `DoTx` does not look at the error of its
function (`orm/db.go:143`), and commits, where `go实战.md:192` names an error as a
reason to roll back.  `redislock_try`: `TryLock` leaves the expiration of its lock zero
(`cache/redis_lock.go:115`), so `Refresh` and `AutoRefresh` send `EXPIRE key 0`, which
deletes the key and reports success, where `go实战.md:3046` and `go实战.md:3350` want the
expiration the lock was created with; another client takes the lock while the first one
counts on it.  Others that the models contain:

*Locks and caches*

- `FixedIntervalRetryStrategy.Next` never advances its counter
  (`cache/retry.go:16`), so `Lock` retries without end;
  `cache/redis_lock_e2e_test.go:302` expects it to give up after three retries.
- `Delete` of the in-memory cache defers `Unlock` before it has the write lock
  (`cache/local_cache.go:138`); after a miss two goroutines may write at once, although
  `cache/local_cache.go:18` says that the lock protects the data.  `CountExact` and
  `OnlyExpiredEvicted` are stated up to that moment, and do not hold after it.
- `Pool.Get` closes an expired idle connection and returns it
  (`micro/net/pool.go:82`), where `micro/微服务.md:353` wants it to look for another.
- The load function of `NewSingleFlightCache` makes a new `singleflight.Group` in every
  call (`cache/singleflight.go:20`), so no two loads are shared, which
  `go实战.md:1766` says they are.
- `AutoRefresh` may block for ever in its own send on `timeoutChan`
  (`cache/redis_lock.go:144`, state `"blocked"`), against the comment at
  `cache/redis_lock.go:134`, and `Unlock` does not wake it: `AutoRefreshStops` promises that
  nothing is refreshed after `Unlock`, not that the goroutine returns.  And it returns a second timeout
  in a row instead of retrying it (`go实战.md:3351`).
- `Get` of the in-memory cache returns the value of the expired item it deletes
  (`cache/local_cache_test.go:39` expects an error); `Delete` may return another
  value than it removes; a sweep visits 1001 items, not 1000; `MaxCntCache`
  does not count the keys its map already has.
- The pool does not count its initial connections and does not stop counting closed
  ones (`micro/微服务.md:363`); `Get` may queue while a connection is idle; a
  factory error leaves the pool locked; `NewPool` waits for ever when it is given more
  initial connections than idle ones.
- The synchronous `ReadThroughCache.Get` answers the miss although it has loaded the
  value (`cache/read_through.go:29` declares new variables); `SingleFlightCacheV1`
  caches the nil of the miss instead of the loaded value
  (`cache/singleflight.go:42`, while `go实战.md:2006` calls it the same as
  `ReadThroughCache`); `SetV2` caches a value that could not be stored; items of
  `NewBloomFilterCache` never expire; over a `RedisCache` only
  `BloomFilterCacheV1` ever loads, since a miss is not `errNoValue` there.
- The exit callback of `main.go` never learns that its work is done and always
  waits for its timeout.

*ORM*

- A `Selector` that is built again appends to what it has built
  (`orm/select.go:35`), so behind the `querylog` and `opentelemetry` middlewares the
  text that is sent holds the query twice.  Placeholders and arguments stay in
  step all the same (`BoundArgs`).
- The loop over the `ON` predicates of a join is bounded by the number of `WHERE`
  predicates (`orm/select.go:134`): it leaves predicates out, or panics.  `ArgsInOrder`
  expects all values of a join's predicates and is stated for the joins whose predicates
  are all written (`OnWhole`).
- `WithColumnName` renames a field and leaves the column map as it was
  (`orm/model/model.go:148`): rows of such an entity cannot be read.
- The unsafe valuer drops the error of `Scan`; `GetMulti` returns nil and no error whatever
  the database says; `RawQuerier.GetMulti` panics.
- `Get` of the registry may overwrite the model a `Register` with options has just
  stored (`CustomStays` says when).
- A `Tx` has no `DB` (`orm/transaction.go:19`), so a statement on a transaction panics
  when it is made, which `go实战.md:182` presents as the normal use.
- `BeginTxV2` may hand out a transaction that the end of its context has already rolled
  back, since only `Commit` and the rollbacks set `done`.

*Web and RPC*

- A second parameter or wildcard at the same place replaces the first with all routes
  below it, even when the registration is then rejected (`web/router.go:138`).
  `StaticKept` and `LatestServes` say which routes are safe.
- The comment at `web/serve.go:100` says that the response is flushed there; nothing
  calls `flashResp`, so what handlers leave in the `Context` is never written, and only
  handlers that write themselves answer more than an empty 200.  A 404, a rendered page, an
  error page and the status of a recovered panic never reach the client, and an error page
  for a response that `RespJSON` has written changes only the `Context`
  (`OnlyHandlersWrite`, a part of `ChainContains`, states what is sent).
- A recover middleware without `Log` panics again in its deferred function
  (`web/middlewares/recover/middleware.go:20`).
- A static file that could not be read is cached as an empty one and answered with 200
  from then on (`web/file.go:190`); a name without extension panics (`web/file.go:175`).
- The values of all Redis sessions share one hash per key (`web/session/redis/session.go:111`),
  while the comment at line 17 of that file puts them under the session id; the
  test in the script of `Set` is true for every answer.  `OwnValue` is therefore stated for the
  memory store.  A session whose `EXPIRE` failed stays in Redis for ever, though nobody
  was given its id.
- `DecodeReq` gives an empty slice for a `Data` that was nil, so the requests of
  `micro/rpc/message/request_test.go:14` do not come back equal, as line 80 of that file
  asserts; it gives a nil `Meta` for an empty one.  `RoundTrip` says exactly which slices and
  maps come back nil.

## Not modelled

- `Client.SingleLock` (merges the lock calls of one process before `Lock`) and
  `RedisCache.Delete`.
- `BindJSON`, `FormValue`, `QueryValue` of `Context`, which only read the request; the
  options of constructors; templates.
- The metrics and tracing middlewares of `web`: the first only measures, the second
  does not compile at this commit.  Those of `orm` are in `OrmCore`, since they
  build the query.
- `micro/rpc` client and server: the package does not compile at this commit, since
  `server.go` uses types that have moved to `message`.  `micro/net` client and server:
  one blocking exchange over one connection.
- `cache/homework_graceful_shutdown/service/shutdown_answer*.go`: built only with the tag
  `answer`, the same design as the version that is modelled.
- `cache/concurrency` (broker, task pool, safe map): course examples that no other
  part uses.
- Generated mocks, the code generator, examples of `reflect`, `unsafe` and `ast`, and the
  language exercises: no state of their own.
