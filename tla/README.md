# A formal model of the code-execution orchestrator

The program is one Go process that sits between an MCP client and a pool of
confidential containers. It keeps containers warm, gives each session (an
`accessToken`) one container on its first tool call, restores the session's
workspace from an encrypted object store, proxies tool calls to the container,
and on idleness, ill health or shutdown snapshots the workspace back and destroys
the container. This directory holds TLA+ modules that model it, TLC
configurations that check small instances, and theorems that TLAPS proves for
every value of the constants.

    tlc -workers 2 -config Traffic.cfg MCManager.tla     # any of the .cfg files
    tlapm SerializationProofs.tla                        # any of the *Proofs modules

`PROJECT.json` lists components, runs, mutants (wrong versions of a definition
that a property must reject), the source lines each definition translates,
findings, hazards and theorems.

## 1. Inventory

| Component | State | Operations | Source |
| --- | --- | --- | --- |
| Pool manager | `warmPool`, `inflight` | `replenishPool`, `pollInflight`, the loop and its back-off | `manager.go:132-266` |
| Session assignment | `sessions`, `assignLocks`, `snapshotSem`, fields of `Container` | `GetOrAssign`, `lockSession` | `manager.go:115-126, 277-429` |
| Eviction and snapshot | the same, and one goroutine per eviction | `evictIdleSessions`, `scanWarmHealth`, `scanSessionHealth`, `evictSessionAsync`, `evictAndSnapshot`, `CleanupSession` | `manager.go:431-548, 615-660` |
| Health counters | `Container.HealthFailures` | `shouldEvictForHealth`, `checkContainerHealth` | `manager.go:577-613` |
| Shutdown | `done`, `lifetime` | `Finish`, `CleanupAll`, the signal handler of `main` | `manager.go:666-741`, `main.go:124-145` |
| Proxy and auth gate | none of its own | `proxy`, `handleAuthGate`, one method per executor endpoint | `proxy.go` |
| Snapshot store client | none (the store is remote) | `fetch`, `put`, `pushRestore`, `fetchSnapshotFromContainer`, `httpRetry` | `snapshot.go` |
| Uploads | none (the executor's `/user-uploads`) | `SyncUploads` | `uploads.go` |
| Tools | none (the files of the container) | `bash`, `view`, `present`, `str_replace`, `create`, `insert` | `tools.go` |
| MCP dispatch | none | `HandleMCPRequest`, extraction of secrets and uploads | `mcp.go` |
| Bearer cache | `authCache` | `AuthorizeSession`, `authCacheCheck`, `authCacheStore` | `controlplane.go:160-212`, `auth_*.go` |
| Controlplane client | none (the containers are remote) | create, poll, delete, verify name | `controlplane.go` |
| Metrics, attested clients, set-up | counters; configuration | | `prometheus.go`, `proxy_*.go`, `main.go` |

**How they interact.** Everything meets in one `Manager`. Its collections are
guarded by `Manager.mu`, the fields of a container by `Container.mu`, the
read-or-restore-then-assign section of a session by a mutex of its own, and the
tars in memory by the semaphore `snapshotSem`. None of these locks is held across
an HTTP exchange except the session mutex and the semaphore, so *between any two
steps everything may have changed*. Goroutines are: the pool manager, the
eviction loop, the health loop, one per HTTP request, one per eviction, one per
asynchronous delete, one per session drained at shutdown, and `Finish`.

**What is hard.** Containers move between collections, and while they move they
are in none of them: created but not registered, popped but not committed,
removed from the session map but not deleted. Every error path must put the
container somewhere. Scans decide on copies and act later. Evictions wait for the
semaphore with the session mutex held, while requests hold a slot and wait for
the warm pool. Shutdown runs against all of it and replaces the collections,
the mutexes included. HTTP exchanges fail in ways that the callers tell apart.

**What makes it correct.**

- Pool and sessions: a container has one owner; none is forgotten or deleted
  twice; the session map and the containers' back pointers agree; a container
  handed out carries nothing of a former session; an assignment never overwrites
  one; a restore waits for the session's eviction; the caps on containers and on
  tars hold; every request is answered, every eviction completes, shutdown ends.
- Data: a write that was acknowledged survives the next eviction unless a
  snapshot failed; a restore brings the latest snapshot; a retry does not apply
  an effect twice.
- Health: a container is evicted only for failures in enough ticks in a row, and
  one that is dead is evicted in the end.
- Requests: nothing reaches the executor without a key that is, or recently was,
  valid; the bearer cache is bounded; a tool finds the uploads of its own call as
  the store delivered them, with nothing stale and nothing half done.
- Tools: an edit takes away no line but those it is asked to, except what was
  written between its read and its write; the line arithmetic agrees with itself.

The hazards behind these, each at its line, are in `PROJECT.json`.

## 2. The modules

Arrows are `EXTENDS`; the plan was to model the pools first, because everything
else relies on them, then what flows through them, then the requests on top.

    Manager ---------> ManagerLifecycle ..(refines).. ContainerLifecycle
       |                                                     |
       v                                                     v
    Workspace                                           HealthCheck

    ToolCalls --> AuthCache --\
         \------> UploadSync --+--> Dispatch            FileTools

| Module | Models | Composed with |
| --- | --- | --- |
| `Manager` | pools, sessions, evictions, shutdown (section 3) | |
| `ContainerLifecycle` | the abstract specification: the state diagram of the repository's README | `Manager` implements it through `ManagerLifecycle` |
| `Workspace` | the files: workspaces, stored items, tars on their way, `httpRetry` | each action is a `Manager` action plus its data; implements `Manager` |
| `HealthCheck` | the health loop and its counters | runs over `ContainerLifecycle`, which stands for the requests and evictors |
| `AuthCache` | `AuthorizeSession` and its cache, with a clock | |
| `UploadSync` | `SyncUploads` | |
| `Dispatch` | a `tools/call` from end to end | each action is one of `AuthCache`, of `UploadSync`, or of both |
| `FileTools` | the file tools and their arithmetic | |
| `MC*` | instances for TLC: sets of model values, symmetry | |
| `*Proofs` | the theorems of section 6 | |

## 3. The module `Manager`

One step is one critical section of `Manager.mu`, or one HTTP exchange, with the
local code around it.

| Goroutine | Program counter | Actions, in order |
| --- | --- | --- |
| pool manager | `pm` | `Replenish`, then `CreateContainer`/`StopCreating` and `Register` per iteration, `PollInflight`, `Promote`, `PoolStop` |
| a request | `pc[x]` | `Call`, `GetOrAssign`, then `CheckKey` (fast path) or `LockSession`, `PopWarm`/`GiveUp`, `Probe`, `Fetch`, `Push`, `Commit`; then `Proxy`, which ends the request or goes back to `GetOrAssign` |
| the two scans | | `EvictWarm`, `EvictIdleSessions`, `ScanSessionHealth` (the last two start an eviction goroutine) |
| an eviction | `evicts`, then `evPc[c]` | `EvictClaim`, then `EvictSem`/`EvictCancelled`, `EvictSnapshot`, `EvictPut`, `EvictDelete` |
| `go deleteContainer` | `pendingDeletes` | `RunDelete` |
| `Finish` | `phase` | `FinishClose`, `FinishCollect` (starts the drains, which are evictions without the mutex), `DeadlineHit`, `CleanupAll`, `SweepDelete` per container, `Exit` |

The variables have the names of the code's fields. `held[x]`, `sl[x]`, `req[x]`
are locals of a request; `fresh`, `ready`, `failed`, `needed` locals of the pool
manager; `deletes[c]` is a history variable that counts ordered DELETEs, and
`skipped` one that records the containers `CleanupAll` refused to delete.

**Abstractions.**

- `warmPool` and `inflight` are slices in the code and sets here: a pop takes
  any member rather than the oldest. `ExclusiveOwner` shows that no entry would
  be in a slice twice.
- Ids come from the controlplane and are never reused; their finite supply bounds
  every run (the constant `Container`), and nothing else needs a bound except
  the requests and sessions themselves.
- A mutex is named by its token and by whether `CleanupAll` has already replaced
  the lock map. `GetOrAssign` looks it up in the step before it blocks on it.
- `LockSession` takes the mutex, looks at the map again and reserves the slot in
  one step. The only other code that could run in between and change what it
  reads either holds the same mutex, or (`CleanupSession`, `Finish`, other
  requests' slots) could as well have run just before or after.
- `EvictClaim` claims the session and reads the cached bearer in one step.
- `PollInflight` polls everything it copied in one step: until `Promote` only the
  pool manager touches a container that is inflight, except that `CleanupAll`
  orders its delete, before or after the poll alike.
- Health counters (they are in `HealthCheck`), `LastActivity`, timers and the connection
  test are nondeterministic: a scan may evict at any time, a wait for an empty pool may
  end at any time. Every behaviour with real clocks is among these.
- HTTP exchanges answer with a member of a set of outcomes (`CheckContainerHealth`,
  `PollContainer`, `BucketsFetch`, ...): those the callers tell apart. Retries
  happen inside.
- A key is never empty (`mcp.go` requires one). A bearer is present in
  production builds and optional with `-tags dev`: constant `Bearer`.
- Once `main` returns (`phase = "exited"`) no goroutine takes a step.

**The abstract specification.** `ContainerLifecycle` has two variables, the
`stage` of each container and the session that is its `user`, and eight actions.
It promises what no single function of `manager.go` does: a container is assigned
only from "assigning", to a session no other container belongs to, *not even one
still being snapshot*; only a container never assigned goes back to "ready"; what
is "gone" stays gone. Its property `OneWorkspace` is `Manager`'s `WorkspacesAreExclusive`.
`ManagerLifecycle` maps `Manager` to it: the stage is the place where the manager holds the
container (`Container.Status` lags behind it), the user the back pointer of a bound or
evicting container.

## 4. The other modules

**`Workspace`.** A workspace is the set of the writes it holds; `ws[c]` is that of
container `c`, `item[t]` the stored snapshot of session `t` (`None`: never stored),
`tar[h]` the bytes in the memory of a request or of an eviction, `gate[c]` the
session with one of whose auth tokens the executor's gate locked (each request brings a
`containerAuthToken`, and nothing makes those of a session the same, so that a locked gate
may refuse a request of any session). `FetchItem`, `PushRestoreOnce`,
`ProxyCall`, `TakeSnapshot` and `PutOnce` are `Fetch`, `Push`, `Proxy`,
`EvictSnapshot` and `EvictPut` of `Manager` with their outcomes tied to the data,
and `Bookkeeping` is all the rest. An attempt of `/restore` or of `PUT` that fails
may have taken effect all the same, and is then repeated (`Retry`: `Manager`
stutters, `tries` counts) or not (`Settle`). The executor and the store are not in
the repository; what is assumed of them is listed at the top of the module.
Histories: `acked` (acknowledged writes), `unsaved` (in a workspace whose snapshot
failed, or that a 403 destroyed), `late` (acknowledged after the snapshot). The fetch is one step with all
its attempts, since a GET changes nothing.

**`HealthCheck`.** `scan`, `targets` and `judged` are the loop of `healthCheckLoop`
with its copies of the pool and of the sessions; `failures` is
`Container.HealthFailures`; `Tick`, `Probe`, `Judge`, `NextScan` its steps, and
`EvictSession` the goroutine it starts. What requests and evictors do meanwhile is
what `ContainerLifecycle` allows, with the probe of `GetOrAssign` made explicit
(`ProbeCandidate`); `LifecycleImplemented` is the proof that `Manager` does no more.
`Die` is a container that stops answering for good. The counter is bounded one
above its limit, where the code can no longer tell the difference. Shutdown, which
ends the loop, is left to `Manager`, where a scan may stop at any moment.

**`AuthCache`.** `cache` maps keys to expiry times; `Authorize` is the critical
section of `authCacheCheck`, `ValidateKey` the answer of the controlplane (which may
confirm a key now and refuse it later), `AuthCacheStore` the critical section of
that name with its sweep and its arbitrary victims. `Tick` advances the clock, but
not past an answer that the HTTP client would have given up (`Timeout`, ten seconds
in the code; the TTL is thirty). `confirmed` and `recent` are histories.

**`UploadSync`.** One session, whose `box` (container) may be replaced at any time.
`SyncUploads`, `SendManifest`, `FetchFiles` and `SendBlobs` are the steps between
two exchanges; `sent` is the container that `SyncUploads` got from `GetOrAssign`
and keeps, whatever becomes of the session. An exchange that fails may have been
carried out, in part for the blobs. `spoilt` are the files whose bytes, as fetched, do not
have their sha: a 404 of the store is no error for `fetchFile` and leaves none. They are
sent all the same. On 200 the executor is assumed to have stored the files that do have
their sha; the spoilt ones it stored as they were (`OtherSha`) or left out, and neither is
noticed. `ToolSeesManifest` says what a tool finds after that: every file of the manifest
that was delivered, and besides the manifest nothing but what came for the others.
`UploadsVerified`, that it finds exactly the manifest, does not hold (section 7).

**`Dispatch`.** `stage` is where `HandleMCPRequest` is: `Receive` (secrets present,
the look-up), `AuthorizeSession` (the validation), `Authorized` (what `extractUploads`
finds), `SyncStep`, `Synced` (the look-up of the tool, *after* the sync), `RunTool`,
`ToolAnswers`. The tool's own steps are `FileTools` and `Manager`. `GetOrAssign` gives
the tool the container of that moment (`ran`), which need not be the one that was
synchronised.

**`FileTools`.** One file, a sequence of lines as `strings.Split` sees it; the last is
`Blank` when the file ends with a newline. `View` is one read; an edit is `Read`
(everything up to the computed new content) and later `Write` (the whole file), with
anything in between, because each goes through `GetOrAssign` on its own. A read may
fail, a failed write may have been carried out, an acknowledged one was. `Bash` changes the file at will,
which stands as well for a session that resumes in another container. `Window`,
`Body`, `Runs`, `LongestFence`, `Replaced` and `Inserted` are the arithmetic of the handlers,
checked against what the documentation says of them over all inputs in bounds.
`str_replace` is modelled for an `old_str` that is a whole line.

## 5. What TLC checks

Safety runs use symmetry on identities, liveness runs none.

| Run | Instance | Shows |
| --- | --- | --- |
| `Traffic` | `Manager`: 3 containers, 2 requests, 2 sessions, pool 1, cap 1, 1 slot | ownership, accounting, serialization, calls that stay in their session, one workspace per session, the caps, and that `Manager` implements `ContainerLifecycle` |
| `Shutdown` | `Manager`: 1 container, 1 request, 2 sessions, both scans, SIGTERM, fairness | the liveness of requests, evictions and `Finish`; that no mutex and no slot is leaked; what holds during and after the drain, `NoOrphan` and `DeletedOnce` to the end |
| `Workspace` | 3 containers, 2 requests, 1 session, 1 write, 2 attempts | `AcknowledgedSurvives`, `ResumedFromLatest` |
| `FileTools` | 2 callers, files of up to 3 lines, line numbers -1..4, ranges of 0, 2, 4 | `EditSurvives`, `InsertFollowsView`, `ViewShowsWhatExists`, `FenceHolds` |
| `Requests` | `Dispatch`: 2 requests, 2 keys, cache of 1, TTL 1, clock to 3, 2 manifests, 1 file astray, 2 containers | `CacheBounded`, `RevocationIsBounded`, `ExecutorNeedsKey`, `ToolSeesManifest` |
| `HealthCheck` | 2 containers, limit 3, fairness | `FailuresSpanTicks`, `DeadIsEvicted` |
| `KeyFrozen`, `LeakAtExit`, `StaleAuthGate`, `LostWrite`, `DirtyRecycle`, `UploadsVerified` | smallest that show it | one disagreement each, section 7 |

**Why the bounds are enough.**

- *`Traffic`.* Two requests suffice for every race on the session mutex (one inside,
  one waiting), on the semaphore with one slot, and on the pool. Two sessions suffice
  for a container changing hands. With three containers one can be bound, one popped
  and one being created or evicted, and a session can be evicted and assigned again
  twice; at a cap of 1 the cap is exceeded, so that `CapacityBound` is tight.
- *`Shutdown`.* One container and two sessions: the eviction or the drain of one waits
  for the only slot while the request of the other holds it and waits for the only
  container, and each waits for mutexes that the other scan's goroutine holds. A second
  request would wait for the same three things; its races are those of `Traffic`, and
  the safety theorems of section 6 include SIGTERM for any number. Only there does one case
  occur that `NoOrphan` excuses (`Displaced`): two requests that outlive `CleanupAll`, each
  with a slot, assign two containers to one session, and the map keeps the second.
- *`Workspace`.* Two attempts give an exchange that took effect and is repeated, one
  that took effect and is given up, and one that failed twice. A write distinguishes
  an older workspace from a newer one, and no step looks at which writes there are, so
  that a second one would only be moved beside the first; three containers let a session
  live through two restores, one of them from a recycled container.
- *`FileTools`.* Files of none, one, two and three lines, with and without a last
  newline, and (a text inserted twice) with a repeated line; every line number in them and one beyond on each
  side. Lines of backticks at the start, at the end and around the limit of three.
- *`Requests`.* A cache of one entry is full at once; the TTL and the timeout of one
  tick expire at different ticks before the clock ends. One manifest clears all, the other
  has two files, of which one may be astray, so that a sync can stop between two files, and
  can leave a spoilt file beside a good one for the next sync to replace.
- *`HealthCheck`.* A limit of 3 leaves room for a count that starts in the warm pool,
  doubles in the tick of the assignment, and is reset in between.

The safety theorems of section 6 do not depend on these bounds.

**Deadlock** is checked, except in runs with SIGTERM, where the process ends.

**Fairness.** `FairSpec`: weak fairness for every goroutine that has a step to do: the
Go scheduler runs each, and HTTP clients and contexts have timeouts. Strong fairness
for `LockSession` and `EvictClaim` (a Go mutex hands over to a waiter that starved for
a millisecond) and for `EvictSem` (blocked sends on a channel are queued in FIFO
order). `SweepDelete` and the rest of `Finish` are weakly fair. Nothing is assumed of
the environment: requests, evictions and SIGTERM may never come, and a container may
stay `deploying` for ever. `RequestsAnswered` does not bound the time: a pool that
keeps handing out dead containers keeps a request in its loop beyond
`WARM_POOL_WAIT_TIMEOUT`, and ends in the model because the supply of containers does.
`HFairness`: the health loop and the goroutines it starts run, an eviction ends, and a
request that popped a container does something with it. That a container is popped or
assigned is not assumed, nor that it ever dies.

**Mutants.** Next to the definitions are wrong versions (`Name_Mistake`) that no action
uses: a scan that does not look at the pool again, an evictor that lets the mutex go, a
snapshot stored without its trailer, any refusal of the store taken for a 404, a look-up
that renews the entry, an error of the executor ignored, a counter compared with `=`.
Each property rejects one of them.

## 6. What is proved

For every value of the constants. For `Manager` from `ConfigAssumption` (the
configuration numbers are naturals), `FiniteAssumption` (finitely many ids) and
`NamesAssumption` (ids are not `None`, and no container is a request); for `Workspace`
from these and `WorkspaceAssumption` (the bounds are numbers; a set of writes is not
`None`); for `Dispatch` from `AuthAssumption` (times are naturals, the cache has room
for an entry, keys are finitely many and not `None`) and `UploadAssumption` (manifests
are sets of files, none names a file twice, and an absent one is none of them; the sha
of bytes that no manifest lists is none of theirs); for
`HealthCheck` from `HealthAssumption` (the limit is positive); for `FileTools` from
`FileAssumption` (contents are non-empty sequences of lines, and `None` is not one):

| Module | Theorem | Property |
| --- | --- | --- |
| `ManagerProofs` | `TypeCorrect` | `TypeOK` |
| `ManagerProofs` | `OneOwner`, `SessionsBound`, `PoolClean` | `ExclusiveOwner`, `SessionBinding`, `PoolIsClean` |
| `ManagerProofs` | `NothingRegisteredLate`, `DrainsFinish` | `NoInflightAfterSweep`, `DrainsAreAwaited` |
| `SerializationProofs` | `RestoreSerialized`, `AssignmentsNeverOverwrite` | `RestoreWaitsForEviction`, `CommitNeverOverwrites` |
| `SerializationProofs` | `NothingForgotten`, `NothingDeletedTwice` | `NoOrphan`, `DeletedOnce` |
| `SerializationProofs` | `CallsStayInSession` | `CallsOwnSession` |
| `CapacityProofs` | `TarsCapped`, `ContainersCapped` | `TarBuffersCapped`, `CapacityBound` |
| `CapacityProofs` | `NothingLeaksALock` | `HoldersAreAtWork` |
| `LifecycleProofs` | `LifecycleUntilShutdown`, `LifecycleImplemented` | `ImplementsLifecycle` |
| `LifecycleProofs` | `WorkspacesExclusive` | `WorkspacesAreExclusive` |
| `WorkspaceProofs` | `WorkspaceIsManager` | `Workspace` implements `Manager` |
| `WorkspaceProofs` | `WorkspaceTypes`, `WritesSurvive`, `SessionsResume` | `WTypeOK`, `AcknowledgedSurvives`, `ResumedFromLatest` |
| `DispatchProofs` | `DispatchAuthorizes` | what `Dispatch` does to the cache, `AuthCache` does |
| `DispatchProofs` | `CacheStaysBounded`, `RevocationBounded`, `DispatchTypes` | `CacheBounded`, `RevocationIsBounded`, `DispatchTypeOK` |
| `DispatchProofs` | `ExecutorIsGuarded`, `ToolsSeeTheirManifest` | `ExecutorNeedsKey`, `ToolSeesManifest` |
| `HealthProofs` | `EvictionNeedsTicks` | `FailuresSpanTicks` |
| `FileProofs` | `FileTypes`, `EditsSurvive` | `FTypeOK`, `EditSurvives` |
| `FileProofs` | `ViewShowsTheRange`, `InsertCountsAsView` | `ViewShowsWhatExists`, `InsertFollowsView` |
| `FileProofs` | `FenceIsNeverClosed` | `FenceHolds` |

Of those of `Manager` only `NoInflightAfterSweep` is inductive by itself. Its invariants
form a tower, each conjoined to the one below and proved to be preserved one action at a time:

1. `TypeInv`: `TypeOK`, and what the program counters say of the locals. That
   `needed` stays in `0 .. MaxContainers` needs the count of finite sets.
2. `OwnerInv` adds `PlaceInv`: each of the six places a container can be in
   excludes the others, *including* the containers `pollInflight` carries across
   its two critical sections (`ready`, `failed`), which is where `CleanupAll` can
   come in between, and ids never handed out.
3. `CarryInv` adds what a container carries: only its owner writes its fields.
4. `SerialInv` adds `LockInv`: until `CleanupAll`, a request in its section and an
   evictor (not a drain) hold the mutex of their session, and the map has no entry
   for it. `RestoreWaitsForEviction` follows because two holders of one mutex are
   the same; `CommitNeverOverwrites` because the entry is absent at the commit.
5. `AccountingInv` adds an equation: until `CleanupAll`, a container has been
   deleted exactly once if it was created and has no owner, and never otherwise.
   Until then `NoOrphan` and `DeletedOnce` are one direction of it each.
6. `LedgerInv` adds `DrainInv` and `SweptInv`, which carry both past `CleanupAll`, where the
   equation breaks: whoever loses its last holder from then on is deleted, in the hands of
   `CleanupAll`, left alone by it, or displaced by a second assignment; and a container that
   was drained is in nobody's reach, that of `CleanupAll` included.

`HoldersAreAtWork` needs only that a container has one owner. `CallsOwnSession` follows from
what a container carries and from `AssignedForLife`: once it has a token and a key it keeps
them, so that a call answered after its container's eviction was still a call into its own
session.

*The drains*, beside the tower: `DrainInv` says that a drained container has left every
place for good (nothing pops, binds or evicts it a second time), so that "done" means
that its own eviction ordered the delete, which is what `Finish` waited for.

*The caps* are counting arguments beside the tower. `SlotInv`: every request with a
bearer in its section, and every evictor with a tar, is among the holders of the
semaphore, which is only entered where there is room. `RoomInv`: the number of
containers in the reserve (tracked, or carried by `pollInflight`) plus `needed`
never exceeds `MaxContainers + MaxConcurrentSnapshots`. `Replenish` restores that
bound from what it counted, because what it overlooks is popped, and so has a
slot; `Register` trades one iteration for one container; no other step adds
anything. The bound holds during shutdown too.

*The refinement* is proved from `AccountingInv`: that a container which enters one
place leaves another is `PlaceInv`, and that `Commit` finds no container of the
session, bound or evicting, is `LockInv`. It is stated for as long as no shutdown
begins (`~Done`): the drain goroutines of `Finish` take no session mutex, so a
request that is still in its section can then restore and commit a session whose
container is being snapshot, which the lifecycle forbids. `LifecycleUntilShutdown`
says that every behaviour follows the lifecycle up to that moment. `WorkspacesExclusive` is
proved of the abstract specification, where it takes a few lines, and carried over.

*The data.* `WorkspaceIsManager` is proved first: every action of `Workspace` is one of
`Manager` or leaves its variables alone, so all the invariants of the tower hold of it
and can be cited. `HoldInv` adds who has what: a session's container carries a bearer,
so that its snapshot is taken (`BearerKept`); a request calls a container of its own
session (`CallsOwn`); while a container is being evicted its session has no other
(`EvictedAlone`). `DataInv` adds the argument
itself: what is in the store is contained in whatever the session will store next.
That goes round the cycle fetch, push, commit, call, snapshot, put one step at a time
(`RestoreHolds`: the tar in a request's memory is still the latest item, which needs
`RestoreWaitsForEviction`; `SnapshotNewer`: an eviction's workspace, then its tar, holds
all the item holds), and no retry breaks it, because a repeated `PUT` stores the same tar
and a repeated `/restore` adds the same files. Of a recycled container nothing is
assumed: what another session left in it may come along, and is none of this session's
writes.

*The requests.* The cache is handled in `AuthCache` alone and lifted to `Dispatch` by
`DispatchAuthorizes`. `RevocationIsBounded` needs that an entry expires no later than
the TTL and one answer after its key was confirmed, and that an answer on its way is no
older than the timeout. `ToolSeesManifest` needs, at every stage of the sync, what of
the manifest is already in the container and what is in the request's hands, for as long
as no other call touches that container, and that a spoilt file replaces no good one
(`StoredAdds`: within a manifest a name occurs once).

*The health counters.* `FailuresSpanTicks` needs where in a tick a container is: each scan
probes a target once, and only a container assigned between its probe by the warm scan
and the copy of the session scan is probed twice in a tick. It is assigned once, so that
its failures are never more than one ahead of the ticks (`CountInv`).

*The files.* `EditSurvives` is not inductive: an edit in progress is about to write the
whole file, so that `PendingInv` says of *its* content that it has every acknowledged
line but those it is excused for. That rests on what the arithmetic does to any
sequence of lines: `InsertedKeeps`, `ReplacedIs`, and for `InsertFollowsView` that
trimming the last newline and inserting commute (`TrimmedInserted`). `FenceHolds` is about a
loop: after each line the longest run seen is at least as long as every run up to there. The
induction over the lines is on the set of positions where that holds (`NatSetInduction`),
since the provers cannot instantiate the library's induction rule with an operator.

**Only model-checked**: the liveness properties `RequestsAnswered`, `EvictionCompletes`,
`ShutdownCompletes` and `DeadIsEvicted`, because liveness under fairness is beyond the proof
system's back ends. Every safety property of a passing run is a theorem.

## 7. Where code and documentation disagree

Each of the first six is shown by a run of that name.

- **`KeyFrozen`**: a different encryption key is documented to return an error
  after the first assignment. Only the fast path compares: of two first calls, the
  one that waited for the mutex gets the session whatever its key is.
- **`LeakAtExit`**: shutdown is documented to delete every container it owns, those of
  sessions past the deadline included. A container popped by a request that outlived
  `srv.Shutdown` is in no collection; queued `go deleteContainer` calls, and the drain
  goroutines that the deadline overtook, die with the process. (Containers whose
  name could not be verified are excused: leaving them alone is intended.)
- **`StaleAuthGate`**: a 403 destroys "the container that rejected the token".
  What is destroyed is the session's container at that time, which after an
  eviction and a reassignment is another one.
- **`LostWrite`**: a session's state is documented to persist. Activity is recorded when
  a call is answered, so that a session can be idle while one of its calls runs; what
  that call writes after the eviction's snapshot is acknowledged and lost.
- **`DirtyRecycle`**: the comment in `GetOrAssign` says that "a fetch failure recycles it
  untouched while push destroys it". A push that fails for a transient reason recycles the
  container as well. When `/restore` was carried out and only its answers were lost, the
  warm pool has a container with a workspace in it, whose gate is locked to that session's
  auth token: the next session's restore or first call is refused with a 403 and takes the
  container down. Where `/restore` merges into what is there, `AcknowledgedSurvives` shows
  that no write of the *owner* is lost by it.
- **`UploadsVerified`**: the manager is documented to verify the sha of the uploads it
  pulls. It compares nothing, ships empty bytes for a file that the store does not have
  ("technically a bug", says `uploads_test.go`, which expects it), does not read which files
  the executor wrote, and runs the tool after any 200. Unless the executor makes up for it,
  a tool runs without a file of its manifest, or with other bytes under its name.

Others, met while modelling and stated here only: `MAX_CONTAINERS` is documented as a hard
cap, but a popped container is in none of the three collections that are counted
(`CapacityBound` says how far the cap can be exceeded); `lockSession` is said to serialize
the assign section, but `CleanupAll` replaces the map of mutexes while requests hold them;
the failures before an eviction are documented as consecutive, but a count begun in the
warm pool goes on in the session, and the probe of `GetOrAssign` neither adds to it nor
resets it (`FailuresSpanTicks` says what is true); `create` is documented to fail if the file
exists, but takes any failed read, such as that of an unavailable container, for a file that
is not there (`FileTools` has that step, and `EditSurvives` excuses what it overwrites).

Some promises end before the process does. `RestoreWaitsForEviction` and
`CommitNeverOverwrites` are stated *until `CleanupAll`* (`~Swept`), which drops the mutexes;
the lifecycle, `WorkspacesAreExclusive` and the properties of `Workspace` until SIGTERM,
because the drains take no mutex; `DeletedOnce`, for a container that was not drained, until
`CleanupAll`, which deletes what a poll under way may afterwards append to the warm pool.
The other invariants hold to the end.

## 8. What is not modelled

- The executor, the store and the controlplane, except for what `src/` relies on, which is
  listed at the head of `Workspace`, `UploadSync` and `FileTools` and marked external in
  `PROJECT.json`.
- Metrics: nothing reads them back. TLS and attestation: a failed attestation is a failed
  container. JSON, base64, size limits, environment parsing, the HTTP server, the
  visualizer: no state that a property speaks of.
- Durations, except for the TTL and the timeout of `AuthCache` and the ticks of
  `HealthCheck`: every other timer may fire at any moment, which includes what it does.
- The language tag of `present`, and a `str_replace` inside a line.
- Which answer of the executor counts as a success: `ReadFile` and `WriteFile` ignore the
  HTTP status, and take any JSON without an `error` for the file, or for an acknowledgement.
  What the executor sends with an error status is not known here; `FileTools` assumes that
  it has an `error`, so that an acknowledged write was carried out.
- Requests that take effect after their attempt has ended, such as a PUT that the client
  gave up and the store carries out over a newer item: `Workspace` assumes that there are none.
- What is a matter of time or of a service outside, and has no property: the wait for the
  warm pool does not look at its deadline between two unhealthy candidates, each up to
  five seconds (`manager.go:341`); a create, or a name check, whose answer is lost leaves
  a container that nobody knows, or that shutdown leaves alone (`controlplane.go:81`,
  `controlplane.go:126`); a container that stays `deploying` counts against the cap for
  ever (`manager.go:174`). A call to an unknown tool is refused after its uploads were
  synchronised (`mcp.go:123`): `Dispatch` has that order, and nothing is wrong with it.
- In dev builds the bearer is optional and not validated: `Manager` has it as a constant
  and the proofs cover it; `Workspace` then promises nothing, since nothing is stored;
  `Dispatch` models production builds.
