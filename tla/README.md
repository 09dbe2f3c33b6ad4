# Verification of the Kubernetes log fetcher service

TLA+ models of the service under `src/`: a small HTTP service (Flask, one thread per
request) that extracts log lines, queries SQLite files and exports files from Kubernetes pods,
reaching a target host by SSH and the pods by `kubectl` from there. All its shared state lives in one
process, in files of a cache directory and in destination directories. Its risk is in how request threads, the
pool's reaper, failures and crashes interleave over that state, and that is what is modelled.

All source paths below are relative to `src/src/`; documents are in `src/desc/`.

## 1. Inventory

| Component | Source | State it keeps | Operations | Modelled in |
|---|---|---|---|---|
| SSH connection pool | `utils/ssh_pool.py` | per target: connections, `creating`, `failure_until`, queue of tickets; `_total_connections`, `_total_waiters`, `_closed`, one `Condition` | `acquire`, `_create`, `_release`, `_prune`, `_evict_oldest_idle`, `_reaper_loop`, `close`, `snapshot` | `SSHPool`, promise in `LeasePool` |
| SSH client wrapper | `utils/ssh_utils.py` | the lease of a `with` block | run a command, copy, stat, `invalidate` | `SSHPool` (enter, exit, invalidate) |
| SQLite source limiter | `sqlite_tool/sqlite_concurrency.py` | a semaphore per source, `_waiters` | `acquire` (a context manager) | `SourceLimiter` |
| SQLite query endpoint | `sqlite_tool/sqlite_query.py`, `k8s_log_fetcher_service_main.py` | locals of a request | resolve, loop over the sources, limits, fall back to the rescue service | `SqliteQuery` |
| SQLite rescue service | `rescue_channel/sqlite_rescue*.py` | `_QUERY_SEMAPHORE`, a limiter of its own | admit, resolve, execute, answer | `SqliteRescue`, promise in `RescueService` |
| SQLite query script | `preset_scripts.py`, run inside the pod | none shared | limits, authorizer | - |
| Log cache | `main_loop.py`, `log_fetcher.py`, `utils/cache_utils.py` | `index.json`, a directory per key, a lock per key, two `CacheStore`s with a lock each | `handle_extract`, `refresh_cache`, `fetch_logs`, `get`, `set`, `gc`, `key_lock` | `LogCache` |
| Archive extraction cache | `utils/read_utils.py`, `utils/gzip_utils.py` | extraction directories, a lock per fingerprint | extract, use, gc | `ExtractCache` |
| Log scanning | `utils/read_utils.py` | none shared | scan a file, limits per chat id | `LogScan`; file by file in `LogCache` |
| Real-time extraction | `main_loop.py`, `utils/read_utils.py`, the tail scripts | none shared | remote tails of plain, gzip and zip files | `LogScan` |
| File export | `export_tool/file_export.py` | destination, `.part-` and `.old-` directories beside it, a lock per destination | list, stage, verify, commit, roll back, clean | `FileExport` |
| Kubernetes resolution | `k8s_resolver.py` | none | pods, containers, newest directory | - |
| HTTP API | `k8s_log_fetcher_service_main.py` | none | parse, dispatch, map errors | error mapping in `SqliteQuery`, `FileExport` |
| Log rescue channel | `rescue_channel/rescue_channel.py` | none | POST with a timeout | `SqliteQuery` |
| Request parsing, models, configuration | several | none | - | constants of the modules |

**Interactions.** Every request that touches a pod leases a connection of the SSH pool. The SQLite
endpoint nests: limiter slot first, then a lease inside it; the lease used for resolution is given back
before the loop. Log requests share the cache directory; main loop and fetcher reach `index.json` through two
different `CacheStore` objects, which therefore do not exclude each other. Exports share the export root;
the lock is per exact destination, not per tree. Decompressed archives lie inside the directory of a cache entry, which a refresh
replaces without knowing of them. The rescue service is another process with its own limits; the endpoint reaches it by HTTP, with a timeout
after which its handler goes on.

**What is hard, and what makes each part correct.**

- *Pool*: a creation runs outside the lock between a reservation and its append; `close()` empties
  everything under it; `_prune` and the passing of time free slots without `notify_all`; the head of a queue
  may leave by its deadline; counters are clamped with `max(0, ...)`. Correct means: leases are exclusive and of the right
  target, slots and queues stay accounted for, limits hold, service is in queue order, nobody sleeps through his chance,
  no socket is forgotten, and every acquire ends.
- *Limiter and query*: slots and waiters must survive every exit path; two scarce resources are nested; part of
  the sources may fail. Correct means: both are conserved, nothing is held beyond its use, a success accounts for
  all sources, a failure is reported as what it was, and every query is answered.
- *Export*: a replacement is two renames, with a failure or a crash possible before, between and after them; the
  files change on the pod while they are copied; trees nest, locks do not. Correct means: a destination is whole or absent,
  an existing one is never lost nor replaced unasked, a success has delivered what was listed, an error has lost nothing that was there.
- *Log cache*: three locks that each cover a part of the work, a scan without any of them, an index saved whole from
  a snapshot, gc that decides on old data, a crash between files and index. Correct means: the index never claims more
  than there is, locked scans see one fetch, an answer is not older than the listing it rests on.
- *Extraction cache*: gc and the scan run outside the lock of the fingerprint, a refresh and a crash may come between any two file
  operations, and a directory with a meta file is taken for complete. Correct means: half an extraction never looks whole by itself,
  nobody reads an older archive than he looked up, and what a removal leaves is repaired.
- *Scanning*: texts come in blocks and chunks cut anywhere, one loop serves chat ids with a limit each, files fail one by one.
  Correct means: the result does not depend on the cuts, a chat id gets the first of its lines and is missed only if it has none, every file is
  scanned or reported.
- *Rescue service*: handlers outlive their callers, every way out of one gives its permit back. Correct means: no more handlers than
  permits, a refusal only when all are out, one answer, and a result that accounts for every pod.

`PROJECT.json` lists every hazard at its line with the properties that watch it; the ones no property
covers carry the reason.

## 2. Modules

```
LeasePool  <==implements==  SSHPool ----- MCSSHPool
                              |---------- SSHPoolProofs <--EXTENDS-- SSHPoolServiceProofs
SourceLimiter <==EXTENDS/implements== SqliteQuery -- MCSqliteQuery
                                          |--------- SqliteQueryProofs (of both)
RescueService <==implements== SqliteRescue -- MCSqliteRescue
                 SourceLimiter ----| (INSTANCE)   SqliteRescueProofs
FileExport ---- MCFileExport ------ FileExportProofs
LogCache ------ MCLogCache -------- LogCacheProofs
ExtractCache -- MCExtractCache ---- ExtractCacheProofs
LogScan ------- MCLogScan --------- LogScanProofs
```

The MC modules add the symmetry sets, and `MCLogScan` the files there may be. Every definition named "mutant" is a plausible bug in the definition that follows it;
nothing uses it in the models.

### SSHPool and LeasePool

`home`, `idle`, `creating`, `cooldown`, `waiters`, `total`, `totalWaiters`, `closed` are the fields of
`SSHConnectionManager` and its `_TargetState`s. One turn of the loop in `acquire`, from one `condition.wait` to the next, is
one action per outcome: `AcquireClosed`, `AcquireIdle`, `AcquireCooldown`, `AcquireReserve`, `AcquireQueueFull`, `AcquireWait`,
`AcquireTimeout`. Each contains the pruning at its start, the eviction when it makes one, and the `notify_all` when the code has one:
`Notified` moves the sleeping threads to "ready". `CreateSucceeds` and `CreateFails` are the two ends of `_create`, with the
connect outside the lock; `Release` and `CloseClient` are `_release` under the lock and the `client.close` after it; `Reap` and
`ReaperExit` are the reaper; `Shutdown` and `ShutdownCloses` are `close()`, which collects under the lock and closes after it.
The environment has three steps: a connection stops being usable (dead, too old, idle too long are one event,
`GoesStale`), a cooldown ends, a deadline passes. Since a deadline may pass at any time and a wait may go on after it, the
model has every order of timeout and notification.

`LeasePool` is the promise of SSH_POOL.md to a user of the pool: ask, get a connection bound to your target that
nobody else has, give it back. Queues, limits and the reaper do not appear. `SSHPool` implements it under the mapping `Abstract`
(property `PromiseKept`).

### SourceLimiter and SqliteQuery

`SourceLimiter` has one action per step of `acquire`: the try without blocking, the count of waiters under its lock, the blocking
acquire, granted or timed out, the count down in `finally`, the release. `SqliteQuery` extends it: `Receive` to `Finish` are
`handle_sqlite_query`, `Raise` is an exception leaving it with the endpoint's reaction, and `Rescue...` is the rescue service as
the endpoint uses it. In the query module the limiter's actions are called, not redefined; the proof that a query only takes limiter steps
(`EndpointUsesLimiter`) is what carries the limiter's theorems over. The pool appears as a number of leases and the
errors `acquire` raises, and the rescue service as a number of permits, which is what `RescueService` promises of it. `Resting` lets a model rest when all requests are answered, so that the
deadlock check means something.

### FileExport

One action per file operation of an export: take the lock, refuse, make the staging directory, list, copy a pod (with retries), stat
again, decide, rename, or back up, swap, roll back, clean. Each has its failure: making the staging directory (`StageFails`, before the `try`, so
nothing is cleaned up), listing and copying, the checks, both renames, the rollback, the removal of the backup, the preview. The cleanup after a failure may
fail as well: `shutil.rmtree(staging, ignore_errors=True)` leaves nothing, a part, or everything (`Leftovers`), and nobody learns of it; likewise what a removal of the backup
that raises has not reached yet. A crash ends all running exports and loses all locks;
directories stay as they are. The contents of a directory are a version number per pod, "missing" or "short". A
destination `Inner` lies inside the directory `Outer`: moving the outer one carries the inner one, its staging directory and its
backups along, and `mkdir(parents=True)` makes the outer one anew (`WithParent`). Destinations are locked one by one as in the code.

### LogCache

`index`, `dir` and `remote` are versions per key and pod. A request goes through `handle_extract`: `get` (load, and save of
`last_used_at`, in two steps), `Check` (`cache_files_exist`), a scan file by file without a lock, the key's lock, `get` and check again, then
`fetch_logs`: list, compare the signature, gc, copy, remove the old directory, rename the new one, list again, `set`. `guard` and `gcGuard` are
the locks of the two `CacheStore` objects; neither protects against the other. gc
removes any set of keys that its snapshot has, one directory at a time, and then saves its snapshot without them. `author` is who
fetched the files that are there, and `swept` the keys gc has taken files of since whoever holds the key's lock fetched them or found them
whole: both exist for the properties only. Only a request with the lock takes a key out of `swept`. An earlier version let any request whose
`cache_files_exist` succeeded do so, a request without the lock included; the proof of `LostOnlyToGc` failed on just that step, and with
three requests, one more than the runs have, the property as it was bookkept is false.
Abstractions: the files of one pod are one unit; sizes and times in gc's choice are free; the policy "single" is the
case of a single pod; `real_time` requests, which skip the cache, are left out; the two transfer modes are one copy per pod; a scan
ends early when all ids have their matches, or reports any of them missed.

### ExtractCache

The cache of decompressed archives below one entry of the log cache. `get_cached_zip_extract` and `get_cached_gzip_extract` are the same
program but for the lookup, so one request goes through one set of actions and the lookup branches: `Start`; the gc, outside any
lock (`Expire`, `WeighUp`, `Evict`, with one `RemoveItem` for each file `rmtree` deletes); `Fingerprint`; `Look` under the lock; for a hit
`Touch`, `TouchEnds` and `List` (zip: the meta file first, the list afterwards) or `ListGzip`, `Touch` and `TouchEnds` (gzip: the list first); otherwise `Open`, `Extract` for
each member, `WriteMeta`, `WriteMetaEnds`, `ClearOld`, `Install`, and their failures; then `Scan` and `ScanEnds` without a lock. Both caches share one directory and one quota, `MaxSize`.
`Refresh...` are the last lines of `fetch_logs` of another request, which removes the entry item by item and renames a new one into its place,
and `Crash` loses the locks and leaves the directories. A directory's contents are the version each member is from, whether it has the meta file, and the temporary files
of meta files (`temps`): `atomic_write_json` makes one inside the directory (`Opened`), and renames it or removes it (`Closed`), and a crash or a failing
`unlink` in between leaves it there. A removal with `ignore_errors=True` may leave any of the files it was to remove (`Keep`). The archives in `Cached` are extracted
already when the model starts, as by an earlier request; an empty directory is as good as none to this code. `torn` and `disturbed` are history: what somebody has begun to remove, and from under whom.

### LogScan

An algorithm rather than a protocol, modelled with its loops as steps because the cuts are what can go wrong: `ReadBlock` and `FirstLine` are
`reverse_read_lines` with the scan of each line, `GzipChunk` and `Trim` the sliding window of the gzip tail script, `ZipMember`, `ZipChunk` and
`ZipMemberEnds` the zip tail script. A chunk of a stream may have any length, as `read` returns; a block of a local file has the block's size.
`NotThere`, `OpenLocal` and `NextPart` are `scan_logs`; `OpenRemote`, `RemoteFails` and `ScanText` are `scan_remote_logs_real_time`. Characters are chat ids,
line feeds and others (`Chars`); a line is for the chat id that comes first in it, which stands for the two patterns. `ScanLine` is `scan_line`
with its limit, `AllReachedLimit` ends the scan for all. Two things are abstracted in the data: `Lines` stands for the splitting of a local block at `b"\n"` and for `splitlines()` of a remote
window (`utils/read_utils.py:224`), which also splits at other separators, so a character that one of them splits at and the other does not is outside the
model; and the header line the tail script writes before each zip member is nothing but its line feeds, so that the header itself, which names the member and could match a pattern, is outside, too.

### SqliteRescue and RescueService

`RescueService` is the promise to a caller: refused at once when `RescueMax` handlers run, otherwise handled and answered once; a caller
that gives up hears nothing, and his handler counts on, also when it starts only after that. `SqliteRescue` implements it (`KeepsPromise`) with the code's semaphore: `Admit`, `Refuse` and `Return`
are the handler with its `finally`, `ResolveSources` is `_resolve_sources`, `NextSource` to `Execute` the loop of `execute_request`, with the service's own limiter as
an instance of `SourceLimiter`, of which it is a copy in the code. What the sources return is good or bad; rows and bytes are not counted, so any source may
be the one that exceeds a limit: that the limit on rows holds is checked at the endpoint only (`SuccessAccountsForSources`). The token check, which precedes the semaphore, and the parsing of the request are left out.

## 3. Runs

Every passing safety run checks for deadlock as well.

| Run | Instance | Shows |
|---|---|---|
| `pool_safety` | 3 threads, 2 targets, 4 clients, global limit 2, target limit 2, 2 waiting places | all safety properties of the pool, order of service, refinement of `LeasePool` |
| `pool_liveness` | 3 threads, 1 target, limit 1 | `EveryAcquireEnds`, `ShutdownDrains` |
| `pool_physical_limit` | 2 threads, limit 1 | violation, see findings |
| `sqlite_query_safety` | 3 queries, 2 sources, 1 of everything else | conservation, holding, accounting, failures |
| `sqlite_query_liveness` | 2 queries, 2 sources | `EveryQueryAnswered` |
| `file_export` | 2 exports, 1 destination, 2 pods, 2 changes a pod, 2 crashes, 1 retry | all safety properties of one destination |
| `file_export_nested_commit` | 2 exports to `a` and `a/b`, no crash | violation, see findings |
| `log_cache_keys` | 2 requests, 2 keys, 1 pod, 2 versions, 1 retry | what a locked scan misses, gc took |
| `log_cache_pods` | 2 requests, 1 key, 2 pods, 2 versions, 1 crash | index honesty for one key, freshness, scans of one fetch, over a crash |
| `extract_cache` | 2 requests, 1 zip of 2 members, 1 gzip that is in the cache, room for 2 files, 2 versions, 1 refresh or crash | whole, current and healing extractions |
| `log_scan` | 2 chat ids, limit 2, tail 3, blocks of 2; every file up to 5 characters, zips of 2 and 3 members, pairs of files of every kind | exact windows, first matches, every file accounted |
| `sqlite_rescue` | 4 callers, 2 permits, 2 sources, 1 slot a source | accounting of a result, refinement of `RescueService` |

**Why these bounds.** Three pool threads are one holder, one creator and one waiter, or two waiters that
can overtake each other, with the queue full for a third; two targets with a shared limit are what eviction and a waiter of
another target need; four clients leave the environment one to connect while others are open, doomed or leased. Three queries
over limits of one make one holder, one waiter and one refusal. For exports, two requests are one that fills the destination and one that waits for the lock and finds it, or that finds a backup
and a staging directory a crash has left; with two crashes and two changes of the files, a crash can come in the first and in the second of them; two pods are needed for a partly copied staging directory. For the cache, two requests
are the writer and the reader (or two writers) of every race listed, two keys are needed for a gc that takes one key while another is fetched, two pods for a scan that could mix fetches, two versions for an old and a new listing. For the extraction cache, two requests are one that
removes and one that uses, or two that extract the same archive; the gzip is extracted when the model starts, so that one request can be the one that leaves something and the other the one that
finds it, and a crash may come as well; three members in all over room for two files make gc evict; a refresh and a crash are
not combined. Five characters with a tail of three, chunks of every length and blocks of two put every cut before, at and behind a line
feed and an id. Four callers over two permits are two handlers that compete for a slot, one that is refused and one that would notice a permit too many. The honesty
of the index is checked for one key and proved for any number (`IndexHonest`): with two keys a whole-index save can put back an older entry of the other key, which only the theorem covers. Larger
instances of each were too slow to run routinely. Symmetry is declared only for safety runs and over sets no property singles out.

**What the properties say** is stated above each definition. The ones that took thought:

- `NoLostWakeup`: no thread sleeps in `condition.wait` that could go on if it looked. `_prune` frees slots without a
  notification, which is safe only because a pruned connection was idle and evictable before.
- `OneCreatorPerTarget` and `SlotsAccounted` hold over `close()` under a running creation only while the pool is open, which is what the code needs; `NoLeak`,
  `ClosedPoolParksNothing` and `ShutdownDrains` say what is left for a closed one.
- `SuccessAccountsForSources` and `FailureFitsPolicy`: what a query says about its sources under contention for slots.
- `KeepsACopy`: at no moment, crash included, is there neither the destination nor a backup.
- `FailureKeepsOrFills`: an error means that the destination is as it was found, or holds what was listed, or, when the rollback failed, that the backup has all that was found. It says nothing of the
  staging directory, whose removal the code tries once and ignores when it fails (section 4, remarks).
- `SignatureHonest`: a crash between the rename and the save, a save from an older snapshot and a failed attempt all leave an
  entry that is at most pessimistic. It allows for the one case the code accepts knowingly, the warning
  `FILE_CHANGED_DURING_COPY`.
- `FreshAnswer`: reusing the scan made before the lock, when the entry looks the same, never serves an older file.
- `LostOnlyToGc`: a locked scan passes over a file only if gc took it. gc takes no key lock, so this does happen; the property pins
  it to gc.

- `WholeUnlessRemoved`: crashes, failing extractions and competing requests never leave a directory that would be taken for complete and is
  not; only a removal that somebody began does, by gc, a refresh, or of the staging directory it was made of.
- `NeverOlder`: a request uses what another one extracted under the same fingerprint, and the archive may have been replaced between `stat` and
  `open`; what is read is never older than what was looked up.
- `GzipHeals`: whatever a removal, a crash or a failed write left, a gzip lookup finds the log or decompresses again, with one exception, which is a state of the directory (`OnlyTemps`): the
  log has gone and the temporary file of a meta file has not. The zip lookup does not heal at all (section 4, remarks).
- `WindowExact`: the window is exactly the last bytes, for every way the stream is cut into chunks.
- `FirstMatches`: no block edge, limit or early end changes the matches of a chat id.
- `EveryFileAccounted`: `scanned_files`, the reported failures and `REAL_TIME_ALL_FILES_FAILED` agree, also for an early end.
- `KeepsPromise`: a permit is taken and given back exactly once on every path, which the endpoint's model takes for granted.
- `RescueAccounts`: skipped, failed and queried pods are together all the pods that were resolved, each once.

**Fairness.** Threads are scheduled by the OS, so every step of a request thread that does not depend on the environment is weakly fair. Deadlines,
cooldowns, timeouts and dying connections are never assumed. `pool_liveness` assumes that connect, the use of a lease and
`client.close` end (paramiko timeouts bound them) and that a thread that can take the lock does in the end (`ThreadFairness`);
`sqlite_query_liveness` the same for the steps of `Work`, which includes waking of a waiter when a slot is free.
The handlers of the rescue service end for the same reason: `kubectl` runs under a timeout and the wait for a slot has one; this is part of
`EveryQueryAnswered` through `SqliteQuery`, while `sqlite_rescue` checks safety only, its instance being too large for liveness.
`EveryAcquireEnds` is checked for one target: with several, a waiter of one target can be passed over again and
again by the others, since queue order holds within a target only; there its deadline ends the wait.

## 4. Findings

1. **More sockets than the limit** (`pool_physical_limit`). SSH_POOL.md calls the global limit "Maximum physical SSH connections
   in this process". A connection that is dropped is counted out before its socket is closed, so for a while one more may be open.
   `WithinLimits`, the limit on what the pool counts, does hold and is proved.
2. **A nested export commits without the files of a pod** (`file_export_nested_commit`). The request to replace `a` carries the staging
   directory of a running export to `a/b` away, the next `mkdir(parents=True)` makes it anew, and each pod is verified only right after its own
   copy. FILE_EXPORT.md says any mismatch fails the request.

**Remarks**, on behaviour the models have and no run is about:

- The export endpoint (`k8s_log_fetcher_service_main.py:217`) catches `Exception` only, so every `ServiceError` of an export, `EXPORT_TARGET_EXISTS` of
  FILE_EXPORT.md among them, is answered as `INTERNAL_ERROR`.
- A hit in the zip cache writes the meta file before it lists the directory, and hands out what it finds (`utils/read_utils.py:158-160`). If gc removes the
  directory in between, one with nothing but `.meta.json` is left, and scans of that archive find nothing in it until it expires. gzip has `if files:`.
- The gzip lookup counts every file that is not called `.meta.json` (`utils/gzip_utils.py:259`). A crash within `atomic_write_json` leaves `..meta.json.<...>.tmp` in the directory; when a removal later
  dies, or fails, after the log is gone and before the rest, a hit hands out the temporary file alone, and the log is not read until the directory expires or is evicted. A zip hit lists such a
  file as well, beside the members.
- Staging directories of extractions that died are never collected (`utils/gzip_utils.py:174`), but count against the size limit, so others are evicted for them.
- FILE_EXPORT.md (line 118) says that a mismatch removes the staging directory. The code tries (`export_tool/file_export.py:413`), but ignores an error of the removal; then the `.part-` directory
  stays, and nothing collects it later, as after a crash.
- `mkdir(parents=True)` of `zip_extract` may run between `rmtree` and `os.replace` of a refresh, which then fails as an `OSError` and is answered as `SSH_CONNECT_FAILED`.
- The text of a remote zip is the newest member first, and is scanned from its end: so the first matches of a zip are those of the
  oldest member in the window. `FirstMatches` speaks of this order.
- `state.missed` of the scan is never used for an answer; an id is missed if it has no match.
- With the default limits the queue of the rescue service's limiter (100) cannot fill up with 4 handlers.

## 5. Proofs

Proved with TLAPS for every value of the constants: any number of requests, targets, clients, sources, pods, destinations, archives and
versions, files and texts of any length, any limits, retries and bounds on crashes. Each proof has one inductive invariant, or one a layer, which TLC finds
to hold on the instance of the component's safety run as well (`INVARIANT Inv` with a module that extends the MC and the proof module; of `LogScanProofs`
without the conjunct `files \in Inputs`, which is slow to evaluate and never changes, and with the lines that `Blocks` says were scanned chosen among
the prefixes of the part's lines).

**Assumptions.** They are named in the modules, and TLC evaluates them in every run.

| Assumption | Says | Why it holds of the code |
|---|---|---|
| `PoolConfig` | positive limits, the target limit at most the global one | validation in the configuration |
| `FinitePopulation` | finitely many requests, targets, clients | threads and sockets of one process |
| `LimiterConfig`, `QueryConfig`, `RescueConfig` | limits are positive, sources are ordered, threads are finitely many | configuration; a list of sources |
| `ExportConfig`, `CacheConfig`, `ExtractConfig` | at least one pod, key, archive, version; `NoRequest` is nobody | otherwise nothing can be asked |
| `AbsentIsNoContent`, `TornApart`, `NamesApart` | a model value differs from a directory's contents; a request is not a fingerprint; a temporary file has another name than the members and the meta file | of the model; temporary files have a process, a thread and a time in their names |
| `ScanConfig` | the files to scan are a sequence, their parts sequences of texts over `Chars`; a file other than a zip is one text; limits and sizes are positive; there is a chat id, and a line feed is none | the lists `scan_logs` iterates over; validation of the request and its options |

**SSHPoolProofs.** The inductive invariant is built in layers. `TypeInv` is `TypeOK` with what the types depend on: a request in acquire has a
key, one in a stage that uses a client has one. `Ownership` strengthens `ExclusiveLease`, which is not inductive: that a new client is nobody's needs
that every client a request holds or the pool lists is open while the pool is (a reservation takes one that is not open), and that an idle one
may be evicted or leased needs that idle clients are listed and the ones being connected or closed are not. `OneCreatorPerTarget` is inductive on top of
`TypeInv`. `Slots` adds to the counter's equation the two limits; the arithmetic of pruning and of an eviction is in lemmas
(`PrunedKeepsSlots`, `ReserveSlots`), so that each action is left with a few cardinality facts. Theorems: `TypeCorrect`, `LeasesExclusive`,
`CreationSerialised`, `SlotsNeverLost`, `LimitsHold`; on `Ownership`, `NothingLeaks` (every open socket has somebody who will close it) and
`NothingParkedAfterClose`. In particular `max(0, ...)` never hides a decrement that should not have been while the pool is open.

**SSHPoolServiceProofs** is what the pool does for those who wait.

- `QueuesAgree`. `Queues` adds to `QueueMatchesTickets` that a ticket is held inside the loop only, and always asleep. The queues are reasoned about as
  sets without repetition (`Members`, `Distinct`), so the lemmas about removing and appending are stated once.
- `NoWakeupLost`. `NothingToHave` reduces "could not go on" to `Exhausted`: no parked connection, no cooldown to report, and a creation
  under way, the target full, or the pool full with nothing to evict. A step that does not notify is a `Lull`: it may drop parked connections, end
  cooldowns and start creations, but a pool that is full and parks nothing stays so. `Exhausted` survives a lull; every other step notifies. This
  is the argument the code relies on when `_prune` and the eviction release slots silently.
- `ServiceInOrder` from `Queues`: who is served is the head of the queue, or finds it empty.
- `PoolKeepsPromise`: the refinement of `LeasePool`, initial state and every step, under the mapping `LeaseOf`, `BoundTo`. `BoundIs` takes the
  `CHOOSE` out of the mapping, which needs `ExclusiveLease`; `Bound` says a leased connection is listed for the target that was asked for.

**SqliteQueryProofs.** `Accounted` states slots and waiters of the limiter with their types; a thread in each place is counted in exactly one of
them: `SlotsAlwaysConserved`, `WaitersAlwaysCounted`. Every step of a query is a step of the limiter or leaves it alone (`LimiterStep`), hence `EndpointUsesLimiter`:
`QuerySpec => Spec`, and the two limiter theorems follow for queries. `Using` adds who is in which place of the
limiter in each phase and gives `NothingOutlivesItsUse`. `Booked` says that the sources of a query are partitioned into those to do, the one in hand,
the good and the failed, with the rows within the limit, and gives `SuccessesAccount`. `Failing` ties the error and the phase of a query to its policy and to what
is left to do, and gives `FailuresFit`; `QueriesTyped` is the type invariant.

**SqliteRescueProofs.** `PermitsOut`: free permits and running handlers make up the limit; with `CallsOpen` (a handler runs for a
caller who waits or has given up, before or after it started) every step is one of `RescueService` or none: `ServiceKeepsPromise`. `JobAccounted` says in which of five places each resolved pod
is, and that no two of them overlap: `EveryPodAccounted`. The code takes the first pod left; that a non-empty set of numbers has a first one is
proved from well-foundedness.

**FileExportProofs.** `LocksHeld` says whoever is past `Lock` owns the destination; `Staged`, for an export that lies in no other, what the staging directory, the
backup and the plan hold in each place: each pod copied so far as it was listed, then all, then the same at the destination; the backup is absent until it is
made. `FoundKept` says where what an export found is, in each place up to the swap and the rollback. `KeepsACopy` needs this for the swap and the rollback, and `BackupsCarry` for a backup that carries nested directories along. Two theorems
hold for destinations nested in any way: `ExportTypes` and `FilledIsKept`. Five have the hypothesis `Inner = {}`, no destination inside another one: `NeverHalfAnExport`,
`FailureLosesNothing`, `RejectedIsKept`, `DeliversWhatWasListed`, `FillsWithWhatWasListed`. It is not an assumption of the module but a condition these
promises need: without it the code breaks `CommitsWhole`, as `file_export_nested_commit` shows. The theorem is the other half of that finding: nesting is the only reason.

**LogCacheProofs.** The crucial notion is `Claims(k)`: what `index.json` says of a key, and everything a save still to come may make it say (the
entries in hand, and the whole copies of the index between a load and a save, by `get`, `set` and gc). `SignatureHonest` is not inductive; `ClaimsHonest`, the same of every claim, is, given
that a fetch about to install is at least as new as every claim (`Fetches`). So a stale save writes back only what would have been honest all along. `Reads` ties
what a scan has seen to the entry it was of, also when the scan is reused under the lock; `Complete` says what is there to be scanned unless gc took it. Theorems: `CacheTypes`,
`IndexHonest`, `OneFetchPerScan`, `OnlyGcTakesFiles`, `AnswersAreFresh`. The work is split into what a step does to the request's locals (`JobSteps`, one case per kind
of step) and to the directories (`Taken`, `Installed`).

**ExtractCacheProofs.** `Fills`: a staging directory is filled from one version, not older than what was looked up, and is whole when it gets its meta
file unless somebody removed something from it; `DirSound`: nothing in a directory is older than its fingerprint; `Leaves`: a staging directory has no temporary file but its request's own,
and a directory has one only of a request that is writing it or is past that (`Past`); `Finds`: what a request has found stays until a removal
that the ghosts know of, be it the log or, where the log had gone, a temporary file that was left (`FoundTemps`), which is the exception of `GzipHeals`. Theorems: `ExtractTypes`, `HalfNeverLooksWhole`, `NothingStale`, `GzipAlwaysHeals`. For a zip the last has no counterpart (section 4, remarks).

**LogScanProofs.** `Counted`: the files behind the scan are scanned or failed, each once, and results come from scanned ones only. Theorem `FilesAccounted`, which
is an "exactly when": that all files failed is derived from cardinalities, and that an early end with nothing scanned is impossible from the results.

The other two theorems compare what loops over blocks and chunks do with folds over whole texts, so they need induction over data. The library's
induction theorems take an operator and cannot be instantiated here; `Counting`, `Appending` and `Growing` say the same of a set ("a set that has 0, and with
a number the next one, has them all"), proved from a least counterexample, and each use names the set. On them the
fold of the community modules is shown to exist as a function on sets of indices and to take one step for each element (`FoldExists`, `FoldAppend`), `FlattenSeq` to
go from left to right (`FlattenAppend`), and from then on the algebra is that of the code:

- `LinesConcat`: the lines of `x \o text` are those of `x \o Head(Lines(text))` with the rest of the lines of the text. This is why `reverse_read_lines` may hand
  out all lines of its buffer but the first and keep that one.
- `TrimKeeps`: dropping chunks whole and cutting the first one leaves the last `real_tail_bytes` of what the chunks were. `SpareGone`
  shows that the chunks that may go are a prefix, which is what lets the script pop them from the left; `LastAgain`, that the end of an end with more text is the end
  of it all, is what lets it forget them.
- `KeepsLines`, `KeepsAll`: matches that are the first ones of some lines stay so when more lines are scanned, and need no more
  lines once every chat id has its limit; so the one break for all chat ids takes nothing from any of them.

`ReaderInv` says where a reader is: the window is the end of what was read (`Slid`), for a member with its budget; the members done gave
their `Piece`s and used up `emitted` (`ZipDone`). It gives `WindowIsExact`; that the script may stop early rests on `PiecesEnd`: no later member has anything left to give.
`LinesInv` says that the matches are the first ones of the lines behind the scan (`Before`, `Parted`) and, in a part, of those scanned already,
while the ones still to come are exactly the lines of what is left with the buffer (`Blocks`). It needs that the buffer is one line, that the part at hand is not among
those missed, and `WindowExact` for a remote file; it gives `MatchesAreFirst`.

**Only model-checked.**

- `EveryAcquireEnds`, `ShutdownDrains`, `EveryQueryAnswered`: liveness under fairness, as is everything that needs `ENABLED`.
- The two properties of the violation runs, which do not hold: `PhysicalLimit`, and `CommitsWhole` with nested destinations.

## 6. Not modelled, and why

- Running commands, SFTP and `kubectl`: external; they succeed, fail or lose the connection.
- An `acquire` with a timeout of zero or less: it raises before it touches the pool.
- Times as numbers: idle timeout, lifetime, cooldown and deadlines are events that may happen at any moment.
- A call of the rescue service that reaches it only after the endpoint has given up: `SqliteRescue` has it, `SqliteQuery` does not. There it would take a permit
  later than the model lets it; what the endpoint sees of that is the answer "busy" to somebody else, which it handles in the same way whoever has the permits.
- Time spent under a lock: closing sockets inside the reaper's lock stalls acquires, which a model without durations cannot show.
- Request parsing, record types, configuration, logging, wording and JSON bodies: sequential and stateless.
- The query script that runs inside the pod: row, cell and result limits of one SQLite connection, and its authorizer. What it returns is
  a free choice where it is used.
- Kubernetes resolution and the allow list: selection by sequential conditions over the output of `kubectl`, without state; its result is a free choice too.
- The regular expressions and their timeouts: `scan_line` sees a chat id or none; a timeout is an error of the scan.

## 7. Plan

Done: `SSHPool`, `LeasePool`, `SourceLimiter`, `SqliteQuery`, `FileExport`, `LogCache`, `ExtractCache`, `LogScan`, `SqliteRescue`, `RescueService`, in the order
of what a fault would cost, and the proofs above: every safety invariant, action property and refinement a passing run checks is proved.

Left:

- Proving: an abstract specification of the export and of the log cache (a store of fetched versions) with the refinement.
- Modelling, if the proofs leave room: the limits of the query script in the order of its rows, against a reference definition; the choice of
  pods and of the newest directory in Kubernetes resolution.
