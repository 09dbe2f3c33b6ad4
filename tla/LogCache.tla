------------------------------- MODULE LogCache -------------------------------
(* The log cache behind the extract endpoint: handle_extract and             *)
(* refresh_cache (src/src/main_loop.py), fetch_logs (log_fetcher.py) and      *)
(* CacheStore (utils/cache_utils.py).  A request scans what is cached of its  *)
(* key without any lock; if it misses something it takes the lock of the key, *)
(* looks again, and lists the remote files; if they are not those of the      *)
(* index entry it copies them to a staging directory, renames that over the   *)
(* directory of the key, lists once more and writes the entry.                *)
(* main_loop.CACHE and log_fetcher.CACHE are two stores over one directory:   *)
(* get and set exclude each other, gc excludes gc, but a gc may run between   *)
(* the load and the save of a set and the other way round.                    *)
(* The files of one pod are one unit, a version number that only grows.       *)
(* pod_match_policy "single" is the case of a single pod: every failure of it *)
(* ends the request under either policy.                                      *)
EXTENDS Integers, FiniteSets

CONSTANTS
  Requests, Keys, Pods, NoRequest,
  MaxVersion,  \* bound: the newest version of a pod's files
  CopyRetry,   \* options.copy_retry
  MaxCrashes   \* bound: how often the process crashes

ASSUME CacheConfig ==
  /\ Keys # {}
  /\ MaxVersion \in Nat \ {0} /\ CopyRetry \in Nat /\ MaxCrashes \in Nat
  /\ NoRequest \notin Requests

VARIABLES
  index,     \* index.json
  dir,       \* the files in each key's directory
  author,    \* whose fetch they are
  remote,    \* the files in the pods each key selects
  newest,    \* the newest version there has been of them
  guard,     \* who holds _lock of main_loop.CACHE
  gcGuard,   \* who holds _lock of log_fetcher.CACHE
  keyOwner,  \* who holds the lock of a key
  at, job,   \* where a request is, its locals
  result,
  swept,     \* keys gc has removed files of since who holds their lock fetched
             \* them or found them whole
  crashes

store == <<index, dir, author, swept>>
locks == <<guard, gcGuard, keyOwner>>
pods == <<remote, newest>>
vars == <<store, locks, pods, at, job, result, crashes>>

Versions == 0 .. MaxVersion
None == [p \in Pods |-> 0]  \* no files at all
NoEntry == [sig |-> None, changed |-> FALSE]

\* Files of an entry, a listing or a directory
Of(files) == {p \in Pods : files[p] # 0}

Unread == [k \in Keys |-> NoEntry]
NoJob == [key |-> CHOOSE k \in Keys : TRUE, cacheOnly |-> FALSE, locked |-> FALSE,
          ent |-> NoEntry, index |-> Unread, victims |-> {},
          list |-> None, before |-> None, got |-> None, todo |-> {}, tries |-> 0,
          scanned |-> NoEntry, seen |-> None, from |-> {}, loose |-> FALSE,
          missed |-> TRUE, fetched |-> FALSE]

\* The cache may hold what an earlier request left
Init ==
  /\ \E cached \in SUBSET Keys, first \in [Pods -> 0 .. 1] :
       /\ Of(first) # {}
       /\ remote = [k \in Keys |-> first]
       /\ newest = remote
       /\ dir = [k \in Keys |-> IF k \in cached THEN first ELSE None]
       /\ index = [k \in Keys |-> IF k \in cached THEN [NoEntry EXCEPT !.sig = first] ELSE NoEntry]
  /\ author = [k \in Keys |-> NoRequest]
  /\ guard = NoRequest /\ gcGuard = NoRequest
  /\ keyOwner = [k \in Keys |-> NoRequest]
  /\ at = [r \in Requests |-> "new"]
  /\ job = [r \in Requests |-> NoJob]
  /\ result = [r \in Requests |-> "none"]
  /\ swept = {}
  /\ crashes = 0

Go(r, place) == at' = [at EXCEPT ![r] = place]
Here(r) == dir[job[r].key]

FilesExistSome(r) ==  \* mutant: any for all
  Of(job[r].ent.sig) \cap Of(Here(r)) # {}

\* cache_files_exist: the paths are the same for every fetch of a key
FilesExist(r) ==
  Of(job[r].ent.sig) # {} /\ Of(job[r].ent.sig) \subseteq Of(Here(r))

\* A response, or an error, and the end of the with block of the key's lock
Ends(r, how) ==
  /\ result' = [result EXCEPT ![r] = how]
  /\ Go(r, "done")
  /\ job' = [job EXCEPT ![r] = NoJob]
  /\ keyOwner' = IF job[r].locked THEN [keyOwner EXCEPT ![job[r].key] = NoRequest] ELSE keyOwner

Answer(r, how) == Ends(r, how) /\ UNCHANGED <<guard, gcGuard, crashes>>

Working == UNCHANGED <<keyOwner, result, crashes>>
Alone == Working /\ UNCHANGED <<guard, gcGuard>>

Start(r) ==
  /\ at[r] = "new"
  /\ \E k \in Keys, only \in BOOLEAN :
       job' = [job EXCEPT ![r].key = k, ![r].cacheOnly = only]
  /\ Go(r, "get")
  /\ Alone /\ UNCHANGED <<store, pods>>

----------------------------------------------------------------------------
(* CacheStore.get, which writes last_used_at, and set: load, change, save   *)

GetNothing(r) ==
  /\ at[r] = "get" /\ guard = NoRequest
  /\ index[job[r].key] = NoEntry
  /\ job' = [job EXCEPT ![r].ent = NoEntry]
  /\ Go(r, "got")
  /\ Alone /\ UNCHANGED <<store, pods>>

Load(r, place, next) ==
  /\ at[r] = place /\ guard = NoRequest
  /\ guard' = r
  /\ Go(r, next)
  /\ Working /\ UNCHANGED <<store, gcGuard, pods>>

GetLoads(r) ==
  /\ index[job[r].key] # NoEntry
  /\ Load(r, "get", "touching")
  /\ job' = [job EXCEPT ![r].ent = index[job[r].key], ![r].index = index]

GetSaves(r) ==
  /\ at[r] = "touching"
  /\ index' = job[r].index
  /\ guard' = NoRequest
  /\ job' = [job EXCEPT ![r].index = Unread]
  /\ Go(r, "got")
  /\ Working /\ UNCHANGED <<dir, author, swept, gcGuard, pods>>

SetLoads(r) ==
  /\ Load(r, "set", "setting")
  /\ job' = [job EXCEPT ![r].index = index]

\* The index cannot be written: get and set let the OSError out
SaveFails(r) ==
  /\ at[r] \in {"touching", "setting"}
  /\ guard' = NoRequest
  /\ Ends(r, "error")
  /\ UNCHANGED <<store, gcGuard, pods, crashes>>

----------------------------------------------------------------------------
(* scan_logs                                                                *)

\* The scan of the entry in hand begins
ScanOf(r) ==
  /\ job' = [job EXCEPT ![r].todo = Of(job[r].ent.sig), ![r].scanned = job[r].ent,
                        ![r].seen = None, ![r].from = {}, ![r].loose = job[r].ent.changed,
                        ![r].index = Unread]
  /\ Go(r, "scanning")

SetSavesUnlocks(r) ==  \* mutant: the scan is outside the block of the key's lock
  /\ at[r] = "setting"
  /\ index' = [job[r].index EXCEPT ![job[r].key] = job[r].ent]
  /\ guard' = NoRequest
  /\ keyOwner' = [keyOwner EXCEPT ![job[r].key] = NoRequest]
  /\ ScanOf(r)
  /\ UNCHANGED <<dir, author, swept, gcGuard, pods, result, crashes>>

SetSaves(r) ==
  /\ at[r] = "setting"
  /\ index' = [job[r].index EXCEPT ![job[r].key] = job[r].ent]
  /\ guard' = NoRequest
  /\ ScanOf(r)
  /\ Working /\ UNCHANGED <<dir, author, swept, gcGuard, pods>>

\* cache_entry_fingerprint equal: the scan done before the lock is reused
SameFingerprint(r) ==
  job[r].scanned.sig = job[r].ent.sig

Check(r) ==
  /\ at[r] = "got"
  /\ \/ /\ FilesExist(r) /\ job[r].locked /\ SameFingerprint(r)
        /\ Go(r, "scanned")
        /\ UNCHANGED <<store, job>>
     \/ /\ FilesExist(r) /\ ~(job[r].locked /\ SameFingerprint(r))
        /\ ScanOf(r)
        /\ swept' = IF job[r].locked THEN swept \ {job[r].key} ELSE swept
        /\ UNCHANGED <<index, dir, author>>
     \/ /\ ~FilesExist(r)
        /\ job' = [job EXCEPT ![r].missed = TRUE, ![r].scanned = NoEntry, ![r].seen = None,
                              ![r].loose = FALSE]
        /\ Go(r, "scanned")
        /\ UNCHANGED store
  /\ Alone /\ UNCHANGED pods

\* A file that is gone by now is passed over without a warning
Scan(r) ==
  /\ at[r] = "scanning"
  /\ \E p \in job[r].todo :
       job' = [job EXCEPT ![r].todo = @ \ {p}, ![r].seen[p] = Here(r)[p],
                          ![r].from = IF p \in Of(Here(r)) THEN @ \cup {author[job[r].key]} ELSE @]
  /\ Alone /\ UNCHANGED <<store, pods, at>>

\* After the last file, or as soon as every chat id has its matches
ScanEnds(r) ==
  /\ at[r] = "scanning"
  /\ \E missed \in BOOLEAN :
       /\ Of(job[r].seen) = {} => missed
       /\ job[r].todo # {} => ~missed
       /\ job' = [job EXCEPT ![r].missed = missed, ![r].todo = {}, ![r].from = {}]
  /\ Go(r, "scanned")
  /\ Alone /\ UNCHANGED <<store, pods>>

----------------------------------------------------------------------------
(* handle_extract                                                           *)

AnswerFound(r) ==
  /\ at[r] = "scanned"
  /\ ~job[r].missed \/ job[r].fetched
  /\ Answer(r, IF job[r].fetched THEN "fetched" ELSE "hit")
  /\ UNCHANGED <<store, pods>>

\* cache_only: hit or miss, without asking the pods
AnswerCacheOnly(r) ==
  /\ at[r] = "scanned" /\ job[r].missed
  /\ job[r].cacheOnly /\ ~job[r].locked
  /\ Answer(r, IF FilesExist(r) THEN "cached" ELSE "empty")
  /\ UNCHANGED <<store, pods>>

\* refresh_interval, looked at before and again under the lock
AnswerRecent(r) ==
  /\ at[r] = "scanned" /\ job[r].missed /\ ~job[r].fetched
  /\ ~job[r].cacheOnly
  /\ IF job[r].locked THEN job[r].scanned # NoEntry ELSE FilesExist(r)
  /\ Answer(r, "cached")
  /\ UNCHANGED <<store, pods>>

LockKeyAnyway(r) ==  \* mutant: key_lock returns a new lock every time
  /\ at[r] = "scanned" /\ job[r].missed
  /\ ~job[r].cacheOnly /\ ~job[r].locked
  /\ job' = [job EXCEPT ![r].locked = TRUE]
  /\ Go(r, "get")
  /\ UNCHANGED <<store, locks, pods, result, crashes>>

LockKey(r) ==
  /\ at[r] = "scanned" /\ job[r].missed
  /\ ~job[r].cacheOnly /\ ~job[r].locked
  /\ keyOwner[job[r].key] = NoRequest /\ guard = NoRequest
  /\ keyOwner' = [keyOwner EXCEPT ![job[r].key] = r]
  /\ job' = [job EXCEPT ![r].locked = TRUE]
  /\ Go(r, "get")
  /\ UNCHANGED <<store, guard, gcGuard, pods, result, crashes>>

SameFiles(r, list) == Of(list) = Of(job[r].ent.sig)  \* mutant: mtime and size ignored
SameSignature(r, list) == list = job[r].ent.sig

\* Pods without usable files are skipped, but some pod must have them.  Files
\* that were not there when the lock was taken are not there now, so the code's
\* scan of a matching entry that was not scanned yet never happens.
Resolve(r) ==
  /\ at[r] = "scanned" /\ job[r].locked /\ job[r].missed /\ ~job[r].fetched
  /\ LET list == remote[job[r].key] IN
       /\ Of(list) # {}
       /\ \/ /\ FilesExist(r) /\ SameSignature(r, list)
             /\ job' = [job EXCEPT ![r].list = list]
             /\ Go(r, "matched")
          \/ /\ ~(FilesExist(r) /\ SameSignature(r, list))
             /\ job' = [job EXCEPT ![r] = [NoJob EXCEPT !.key = job[r].key, !.locked = TRUE,
                                                        !.list = list]]
             /\ Go(r, "stat")
  /\ Alone /\ UNCHANGED <<store, pods>>

AnswerMatched(r) ==
  /\ at[r] = "matched"
  /\ Answer(r, "matched")
  /\ UNCHANGED <<store, pods>>

ResolveFails(r) ==
  /\ at[r] = "scanned" /\ job[r].locked /\ job[r].missed /\ ~job[r].fetched
  /\ Answer(r, "error")
  /\ UNCHANGED <<store, pods>>

----------------------------------------------------------------------------
(* refresh_cache and fetch_logs                                             *)

\* stat_remote_log_batches(files) or files
Stat(r, files) ==
  LET now == [p \in Pods |-> IF p \in Of(files) THEN remote[job[r].key][p] ELSE 0]
  IN IF now = None THEN files ELSE now

\* A ServiceError is retried, anything else is not
MayRetryOnceMore(r) == job[r].tries <= CopyRetry  \* mutant: one attempt too many
MayRetry(r) == job[r].tries < CopyRetry

Retry(r) ==
  /\ MayRetry(r)
  /\ job' = [job EXCEPT ![r].tries = @ + 1, ![r].got = None, ![r].todo = {}]
  /\ Go(r, "stat")
  /\ Alone

StatBefore(r) ==
  /\ at[r] = "stat"
  /\ \/ LET before == Stat(r, job[r].list) IN
          /\ job' = [job EXCEPT ![r].before = before, ![r].todo = Of(before)]
          /\ Go(r, "fetching")
          /\ Alone
     \/ Retry(r)
  /\ UNCHANGED <<store, pods>>

\* gc_if_needed looks at _last_gc without a lock
GcNotDue(r) ==
  /\ at[r] = "fetching"
  /\ Go(r, "copying")
  /\ Alone /\ UNCHANGED <<store, pods, job>>

\* Any entry may be too old or among the least recently used ones of a cache
\* that is too large; the index is written back even if none is
GcLoads(r) ==
  /\ at[r] = "fetching" /\ gcGuard = NoRequest
  /\ gcGuard' = r
  /\ \E victims \in SUBSET {k \in Keys : index[k] # NoEntry} :
       job' = [job EXCEPT ![r].index = index, ![r].victims = victims]
  /\ Go(r, "sweeping")
  /\ Working /\ UNCHANGED <<store, guard, pods>>

\* rmtree takes one file after the other
GcRemoves(r) ==
  /\ at[r] = "sweeping"
  /\ \E k \in job[r].victims : \E p \in Of(dir[k]) :
       /\ dir' = [dir EXCEPT ![k][p] = 0]
       /\ swept' = swept \cup {k}
  /\ Alone /\ UNCHANGED <<index, author, pods, at, job>>

GcEnds(r) ==
  /\ at[r] = "sweeping" /\ \A k \in job[r].victims : dir[k] = None
  /\ \/ index' = [k \in Keys |-> IF k \in job[r].victims THEN NoEntry ELSE job[r].index[k]]
     \/ UNCHANGED index  \* CACHE_GC_FAILED: the index cannot be written
  /\ gcGuard' = NoRequest
  /\ job' = [job EXCEPT ![r].victims = {}, ![r].index = Unread]
  /\ Go(r, "copying")
  /\ Working /\ UNCHANGED <<dir, author, swept, guard, pods>>

\* One pod after the other; one that fails is left out
Copy(r) ==
  /\ at[r] = "copying"
  /\ \E p \in job[r].todo :
       \/ job' = [job EXCEPT ![r].todo = @ \ {p}, ![r].got[p] = remote[job[r].key][p]]
       \/ job' = [job EXCEPT ![r].todo = @ \ {p}]
  /\ Alone /\ UNCHANGED <<store, pods, at>>

CopyEnds(r) ==
  /\ at[r] = "copying" /\ job[r].todo = {}
  /\ \/ job[r].got # None /\ Go(r, "clearing") /\ UNCHANGED job /\ Alone
     \/ job[r].got = None /\ Retry(r)
     \/ job[r].got = None /\ ~MayRetry(r) /\ Answer(r, "error")
  /\ UNCHANGED <<store, pods>>

\* shutil.rmtree(cache_dir), then os.replace(staging, cache_dir)
ClearOld(r) ==
  /\ at[r] = "clearing"
  /\ \E p \in Of(Here(r)) : dir' = [dir EXCEPT ![job[r].key][p] = 0]
  /\ Alone /\ UNCHANGED <<index, author, swept, pods, at, job>>

Install(r) ==
  /\ at[r] = "clearing" /\ Here(r) = None
  /\ dir' = [dir EXCEPT ![job[r].key] = job[r].got]
  /\ author' = [author EXCEPT ![job[r].key] = r]
  /\ swept' = swept \ {job[r].key}
  /\ Go(r, "installed")
  /\ Alone /\ UNCHANGED <<index, pods, job>>

FetchFails(r) ==
  /\ at[r] \in {"stat", "fetching", "copying", "clearing", "installed"}
  /\ Answer(r, "error")
  /\ UNCHANGED <<store, pods>>

FetchedListing(r) == [p \in Pods |-> IF p \in Of(job[r].got) THEN job[r].before[p] ELSE 0]

ChangedUnnoticed(r, after) == Of(after) # Of(FetchedListing(r))  \* mutant: only names compared
ChangedDuringCopy(r, after) == after # FetchedListing(r)

\* The entry has the listing made after the copy; if that differs from the one
\* before it, the copy is accepted all the same, with a warning
StatAfter(r) ==
  /\ at[r] = "installed"
  /\ \/ LET after == Stat(r, FetchedListing(r)) IN
          /\ job' = [job EXCEPT ![r].ent = [sig |-> after, changed |-> ChangedDuringCopy(r, after)],
                                ![r].before = None, ![r].got = None, ![r].tries = 0,
                                ![r].fetched = TRUE]
          /\ Go(r, "set")
          /\ Alone
     \/ Retry(r)
  /\ UNCHANGED <<store, pods>>

----------------------------------------------------------------------------
\* Files grow, appear and, when they are rotated away, disappear
RemoteChanges(k, p) ==
  /\ \/ /\ newest[k][p] < MaxVersion
        /\ newest' = [newest EXCEPT ![k][p] = @ + 1]
        /\ remote' = [remote EXCEPT ![k][p] = newest'[k][p]]
     \/ /\ remote[k][p] # 0
        /\ remote' = [remote EXCEPT ![k][p] = 0]
        /\ UNCHANGED newest
  /\ UNCHANGED <<store, locks, at, job, result, crashes>>

\* Locks and locals are gone; the index and the directories are as they were
Crash ==
  /\ crashes < MaxCrashes
  /\ crashes' = crashes + 1
  /\ guard' = NoRequest /\ gcGuard' = NoRequest
  /\ keyOwner' = [k \in Keys |-> NoRequest]
  /\ at' = [r \in Requests |-> IF at[r] \in {"new", "done"} THEN at[r] ELSE "dead"]
  /\ job' = [r \in Requests |-> NoJob]
  /\ UNCHANGED <<store, pods, result>>

Step(r) ==
  \/ Start(r) \/ GetNothing(r) \/ GetLoads(r) \/ GetSaves(r) \/ SetLoads(r) \/ SetSaves(r)
  \/ SaveFails(r)
  \/ Check(r) \/ Scan(r) \/ ScanEnds(r)
  \/ AnswerFound(r) \/ AnswerCacheOnly(r) \/ AnswerRecent(r) \/ LockKey(r)
  \/ Resolve(r) \/ AnswerMatched(r) \/ ResolveFails(r)
  \/ StatBefore(r) \/ GcNotDue(r) \/ GcLoads(r) \/ GcRemoves(r) \/ GcEnds(r)
  \/ Copy(r) \/ CopyEnds(r) \/ ClearOld(r) \/ Install(r) \/ FetchFails(r) \/ StatAfter(r)

Resting == (\A r \in Requests : at[r] \in {"done", "dead"}) /\ UNCHANGED vars

Next ==
  \/ \E r \in Requests : Step(r)
  \/ \E k \in Keys, p \in Pods : RemoteChanges(k, p)
  \/ Crash \/ Resting

Spec == Init /\ [][Next]_vars

----------------------------------------------------------------------------
(* Properties.                                                              *)

Places == {"new", "get", "touching", "got", "scanning", "scanned", "matched", "stat",
           "fetching", "sweeping", "copying", "clearing", "installed", "set", "setting",
           "done", "dead"}
Files == [Pods -> Versions]
Entries == [sig : Files, changed : BOOLEAN]

TypeOK ==
  /\ index \in [Keys -> Entries]
  /\ dir \in [Keys -> Files] /\ remote \in [Keys -> Files]
  /\ guard \in Requests \cup {NoRequest} /\ gcGuard \in Requests \cup {NoRequest}
  /\ keyOwner \in [Keys -> Requests \cup {NoRequest}]
  /\ at \in [Requests -> Places]
  /\ \A r \in Requests :
       /\ job[r].key \in Keys /\ job[r].tries \in 0 .. CopyRetry
       /\ job[r].ent \in Entries /\ job[r].seen \in Files

\* The index never claims more than the cache has: files older than the listing
\* their entry was saved with are there only if that fetch was accepted with
\* FILE_CHANGED_DURING_COPY, whatever gc, a crash or a failed attempt did
\* between the rename and the save, and whichever save came last.
SignatureHonest ==
  \A k \in Keys : index[k].changed \/
    \A p \in Of(dir[k]) : dir[k][p] >= index[k].sig[p]

\* A scan under the lock of the key never mixes the files of two fetches.
ScanOfOneFetch ==
  \A r \in Requests :
    at[r] = "scanning" /\ job[r].locked => Cardinality(job[r].from) <= 1

\* A scan under the lock passes a file of its entry over only if gc has removed
\* it since the scan's own request fetched the entry or found it whole: nobody else
\* takes files from under it.
LostOnlyToGc ==
  \A r \in Requests :
    at[r] = "scanning" /\ job[r].locked /\ job[r].key \notin swept =>
      Of(job[r].ent.sig) \ job[r].todo \subseteq Of(job[r].seen)

\* A request that asked the pods and answers from what it fetched, or from the
\* cache because the listing is the one of the entry, has read no file older
\* than that listing, though it may have read them before it took the lock:
\* unless the entry was accepted with FILE_CHANGED_DURING_COPY.
FreshAnswer ==
  [][\A r \in Requests :
       result[r] = "none" /\ result'[r] \in {"matched", "fetched"} =>
         \/ job[r].loose
         \/ \A p \in Of(job[r].seen) : job[r].seen[p] >= job[r].list[p]]_vars
=============================================================================
