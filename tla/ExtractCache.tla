----------------------------- MODULE ExtractCache -----------------------------
(* The cache of decompressed archives under one entry of the log cache:       *)
(* get_cached_zip_extract and its gc (src/src/utils/read_utils.py),           *)
(* get_cached_gzip_extract and its gc (utils/gzip_utils.py), and the scan of  *)
(* what they hand out.  A request collects garbage without any lock, stats    *)
(* the archive, takes the lock of that fingerprint, and either uses the       *)
(* directory of the fingerprint or decompresses into a staging directory and  *)
(* renames that.  Meanwhile fetch_logs of another request may replace the     *)
(* whole entry, archives and extractions alike, and the process may crash.    *)
(* A meta file is written as a temporary file in the directory itself, which  *)
(* is then renamed, and a removal that ignores its errors may leave whatever  *)
(* it was to remove.  A directory without anything in it is as good as none   *)
(* to this code.                                                              *)
EXTENDS Integers, FiniteSets, FiniteSetsExt

CONSTANTS
  Requests, NoRequest,
  Archives,
  Gzips,         \* those that are single gzip streams; the others are zip files
  Cached,        \* those an earlier request has extracted
  MaxSize,       \* options.zip_extract_cache_max_size_mb, counted in files
  MaxVersion,    \* bound: the newest version of an archive
  MaxEvents      \* bound: how often the entry is replaced or the process crashes

ASSUME ExtractConfig ==
  /\ NoRequest \notin Requests
  /\ Archives # {}
  /\ Gzips \subseteq Archives /\ Cached \subseteq Archives
  /\ MaxSize \in Nat \ {0} /\ MaxVersion \in Nat \ {0}
  /\ MaxEvents \in Nat

VARIABLES
  version,    \* the archives in the entry's files directory, 0: not there
  newest,     \* the newest version there has been
  root,       \* whether the entry has a zip_extract directory
  dir,        \* the extraction directories, by fingerprint
  staging,    \* the staging directory of a request
  lock,       \* who holds the lock of a fingerprint
  at, job,    \* where a request is, its locals
  clearing,   \* whether fetch_logs is removing the old entry
  events,     \* refreshes and crashes so far
  torn,       \* prints, and requests by their staging directory, whose extraction
              \* somebody has begun to remove
  disturbed   \* requests something was removed from under

disk == <<version, newest, root, dir, staging>>
history == <<torn, disturbed>>
bounds == <<clearing, events>>
vars == <<disk, lock, at, job, bounds, history>>

Versions == 0 .. MaxVersion
Prints == Archives \X (1 .. MaxVersion)  \* sha256 of path, size and mtime
Members == {"log", "old"}
Meta == ".meta.json"
MembersOf(a) == IF a \in Gzips THEN {"log"} ELSE Members

\* torn has both in it, and a directory files of archives and of requests
ASSUME TornApart == Requests \cap Prints = {}
ASSUME NamesApart == Requests \cap (Members \cup {Meta}) = {}

\* The contents of a directory: the meta file, which version of an archive each
\* file is from, and the temporary files of meta files.  Such a file has the
\* process, the thread and the time in its name; a request writes one meta file
\* at most, so the request names it.
NoFiles == [m \in Members |-> 0]
Empty == [meta |-> FALSE, files |-> NoFiles, temps |-> {}]
Held(d) == {m \in Members : d.files[m] # 0}
Files(d) == Held(d) \cup d.temps  \* those that are not called .meta.json
Items(d) == Files(d) \cup (IF d.meta THEN {Meta} ELSE {})
Keep(d, items) ==
  [meta |-> d.meta /\ Meta \in items, temps |-> d.temps \cap items,
   files |-> [m \in Members |-> IF m \in items THEN d.files[m] ELSE 0]]
Without(d, item) == Keep(d, Items(d) \ {item})
FilesOf(a, v) == [m \in Members |-> IF m \in MembersOf(a) THEN v ELSE 0]
Whole(a, v) == [meta |-> TRUE, files |-> FilesOf(a, v), temps |-> {}]

\* atomic_write_json of the meta file, first its temporary file and then the
\* rename: each may fail, and the removal of the file after that, too
Opened(d, r) == {[d EXCEPT !.temps = @ \cup {r}], d}
Closed(d, r) ==
  LET gone == [d EXCEPT !.temps = @ \ {r}] IN
  {d, gone} \cup (IF r \in d.temps THEN {[gone EXCEPT !.meta = TRUE]} ELSE {})

NoJob == [arc |-> CHOOSE a \in Archives : TRUE, ver |-> 0, left |-> {}, over |-> 0,
          victim |-> {}, items |-> {}, reads |-> 0, todo |-> {}, seen |-> NoFiles]

Init ==
  /\ version = [a \in Archives |-> 1] /\ newest = version
  /\ dir = [f \in Prints |-> IF f[1] \in Cached /\ f[2] = 1 THEN Whole(f[1], 1) ELSE Empty]
  /\ root = (\E f \in Prints : dir[f] # Empty)
  /\ staging = [r \in Requests |-> Empty]
  /\ lock = [f \in Prints |-> NoRequest]
  /\ at = [r \in Requests |-> "new"]
  /\ job = [r \in Requests |-> NoJob]
  /\ clearing = FALSE /\ events = 0
  /\ torn = {} /\ disturbed = {}

Go(r, place) == at' = [at EXCEPT ![r] = place]
FpByPath(r) == <<job[r].arc, 1>>  \* mutant: size and mtime not in the fingerprint
Fp(r) == <<job[r].arc, job[r].ver>>
IsGzip(r) == job[r].arc \in Gzips

\* What a removal of something of a fingerprint does to those who use it
Users(f) == {r \in Requests : lock[f] = r \/ (at[r] = "scanning" /\ Fp(r) = f)}
Removing(who, f) ==
  /\ torn' = torn \cup {f}
  /\ disturbed' = disturbed \cup (Users(f) \ {who})

\* Out of get_cached_... and the with block of the lock: on to the scan of these
\* files, or done with the archive, with nothing to scan or with an exception
Unlocked(r) == lock' = [f \in Prints |-> IF lock[f] = r THEN NoRequest ELSE lock[f]]
HandOut(r, files) ==
  /\ Unlocked(r)
  /\ job' = [job EXCEPT ![r].todo = files, ![r].reads = 0]
  /\ Go(r, "scanning")
Finish(r) == job' = [job EXCEPT ![r] = NoJob] /\ Go(r, "done")
GiveUpHolding(r) == Finish(r) /\ UNCHANGED lock  \* mutant: acquire and release, not "with"
GiveUp(r) == Unlocked(r) /\ Finish(r)

Private == UNCHANGED <<disk, lock, bounds, history>>
Quiet == UNCHANGED <<lock, bounds, history>>

InUse == {f \in Prints : dir[f] # Empty}

----------------------------------------------------------------------------
(* scan_logs, and the gc every request begins with                          *)

\* A file that is not there is passed over; for an archive the zip_extract
\* directory is made, and gc lists what is in it
Start(r) ==
  /\ at[r] = "new"
  /\ \E a \in Archives :
       \/ /\ version[a] # 0
          /\ root' = TRUE
          /\ job' = [job EXCEPT ![r].arc = a, ![r].left = InUse]
          /\ Go(r, "expiring")
       \/ version[a] = 0 /\ Finish(r) /\ UNCHANGED root
  /\ Quiet /\ UNCHANGED <<version, newest, dir, staging>>

Above(total, limit) == IF total > limit THEN total - limit ELSE 0

\* rmtree lists a directory and then removes one item after the other; what it
\* cannot remove it passes over, and that, or what has come into the directory
\* meanwhile, keeps it there
Remove(r, f) ==
  /\ job[r].items = {}
  /\ \E items \in SUBSET Items(dir[f]) :
       job' = [job EXCEPT ![r].left = @ \ {f}, ![r].victim = {f}, ![r].items = items,
                          ![r].over = Above(@, Cardinality(Held(dir[f])))]
  /\ UNCHANGED at /\ Private

RemoveItem(r) ==
  /\ \E f \in job[r].victim, item \in job[r].items :
       /\ dir' = [dir EXCEPT ![f] = Without(@, item)]
       /\ job' = [job EXCEPT ![r].items = @ \ {item}]
       /\ Removing(r, f)
  /\ UNCHANGED <<version, newest, root, staging, lock, at, bounds>>

\* Any directory whose meta file says when it was used may be too old by now
Expire(r) ==
  /\ at[r] = "expiring"
  /\ \E f \in job[r].left : dir[f].meta /\ Remove(r, f)

\* dir_size_bytes(root): the staging directories count, whoever left them
Size == MapThenSumSet(LAMBDA f : Cardinality(Held(dir[f])), Prints)
        + MapThenSumSet(LAMBDA r : Cardinality(Held(staging[r])), Requests)

WeighUp(r) ==
  /\ at[r] = "expiring" /\ job[r].items = {}
  /\ LET excess == Above(Size, MaxSize) IN
       job' = [job EXCEPT ![r].over = excess, ![r].victim = {},
                          ![r].left = IF excess > 0 THEN InUse ELSE {}]
  /\ Go(r, "evicting")
  /\ Private

\* In the order of last use, which is any order here; "total" goes down by the
\* size the directory had before rmtree
Evict(r) ==
  /\ at[r] = "evicting" /\ job[r].over > 0
  /\ \E f \in job[r].left : Remove(r, f)

----------------------------------------------------------------------------
(* The lookup, under the lock of the fingerprint                            *)

\* Garbage is collected; an archive that has gone by now makes stat raise
Fingerprint(r) ==
  /\ at[r] = "evicting" /\ job[r].items = {}
  /\ job[r].over = 0 \/ job[r].left = {}
  /\ LET found == version[job[r].arc] IN
       \/ /\ found # 0
          /\ job' = [job EXCEPT ![r].over = 0, ![r].left = {}, ![r].victim = {}, ![r].ver = found]
          /\ Go(r, "locking")
       \/ found = 0 /\ Finish(r)
  /\ Private

Look(r) ==
  /\ at[r] = "locking" /\ lock[Fp(r)] = NoRequest
  /\ lock' = [lock EXCEPT ![Fp(r)] = r]
  /\ Go(r, IF ~dir[Fp(r)].meta THEN "staging"
           ELSE IF IsGzip(r) THEN "listing gzip" ELSE "touching")
  /\ UNCHANGED <<disk, job, bounds, history>>

ListGzipAnyway(r) ==  \* mutant: no "if files", as in the zip cache
  /\ at[r] = "listing gzip"
  /\ job' = [job EXCEPT ![r].todo = Files(dir[Fp(r)])]
  /\ Go(r, "touching")
  /\ Private

\* gzip lists first and decompresses again if there is only the meta file; a
\* temporary file that was left counts as a file.  A directory that has gone by
\* now makes iterdir raise.
ListGzip(r) ==
  /\ at[r] = "listing gzip"
  /\ LET files == Files(dir[Fp(r)]) IN
       \/ /\ files # {}
          /\ job' = [job EXCEPT ![r].todo = files]
          /\ Go(r, "touching")
          /\ Private
       \/ files = {} /\ Go(r, "staging") /\ UNCHANGED job /\ Private
       \/ /\ dir[Fp(r)] = Empty
          /\ GiveUp(r)
          /\ UNCHANGED <<disk, bounds, history>>

\* atomic_write_json makes the directory when there is none
Touch(r) ==
  /\ at[r] = "touching"
  /\ \E d \in Opened(dir[Fp(r)], r) : dir' = [dir EXCEPT ![Fp(r)] = d]
  /\ root' \in {root, TRUE}
  /\ Go(r, "touched")
  /\ Quiet /\ UNCHANGED <<version, newest, staging, job>>

\* A failure is a warning at most
TouchEnds(r) ==
  /\ at[r] = "touched"
  /\ \E d \in Closed(dir[Fp(r)], r) : dir' = [dir EXCEPT ![Fp(r)] = d]
  /\ root' \in {root, TRUE}
  /\ UNCHANGED <<version, newest, staging, bounds, history>>
  /\ IF IsGzip(r) THEN HandOut(r, job[r].todo)
     ELSE Go(r, "listing") /\ UNCHANGED <<lock, job>>

\* zip hands out whatever files there are now
List(r) ==
  /\ at[r] = "listing"
  /\ HandOut(r, Files(dir[Fp(r)]))
  /\ UNCHANGED <<disk, bounds, history>>

----------------------------------------------------------------------------
(* The extraction                                                           *)

\* The archive is opened: what it holds at that moment is what is extracted
Open(r) ==
  /\ at[r] = "staging" /\ version[job[r].arc] # 0
  /\ root' = TRUE
  /\ job' = [job EXCEPT ![r].reads = version[job[r].arc], ![r].todo = MembersOf(job[r].arc)]
  /\ Go(r, "extracting")
  /\ Quiet /\ UNCHANGED <<version, newest, dir, staging>>

\* mkdir(parents=True) before every file of a zip
Extract(r) ==
  /\ at[r] = "extracting"
  /\ \E m \in job[r].todo :
       /\ staging' = [staging EXCEPT ![r].files[m] = job[r].reads]
       /\ job' = [job EXCEPT ![r].todo = @ \ {m}]
  /\ root' = TRUE
  /\ Quiet /\ UNCHANGED <<version, newest, dir, at>>

ExtractFailsUnnoticed(r) ==  \* mutant: "if not extracted" is not there
  /\ at[r] = "extracting" /\ job[r].todo # {}
  /\ job' = [job EXCEPT ![r].todo = {}]
  /\ UNCHANGED at /\ Private

\* Unsafe, too many, too large, or not decompressible; or the archive has gone.
\* What rmtree cannot remove of the staging directory stays.
ExtractFails(r) ==
  /\ at[r] \in {"staging", "extracting"}
  /\ \E kept \in SUBSET Items(staging[r]) : staging' = [staging EXCEPT ![r] = Keep(@, kept)]
  /\ GiveUp(r)
  /\ UNCHANGED <<version, newest, root, dir, bounds, history>>

WriteMeta(r) ==
  /\ at[r] = "extracting" /\ job[r].todo = {}
  /\ \E d \in Opened(staging[r], r) : staging' = [staging EXCEPT ![r] = d]
  /\ root' \in {root, TRUE}
  /\ Go(r, "written")
  /\ Quiet /\ UNCHANGED <<version, newest, dir, job>>

WriteMetaEnds(r) ==
  /\ at[r] = "written"
  /\ \E d \in Closed(staging[r], r) : staging' = [staging EXCEPT ![r] = d]
  /\ root' \in {root, TRUE}
  /\ Go(r, "clearing")
  /\ Quiet /\ UNCHANGED <<version, newest, dir, job>>

\* rmtree again
ClearOld(r) ==
  /\ at[r] = "clearing"
  /\ \E kept \in SUBSET Items(dir[Fp(r)]) :
       /\ dir' = [dir EXCEPT ![Fp(r)] = Keep(@, kept)]
       /\ torn' = torn \cup (IF kept = {} THEN {} ELSE {Fp(r)})
  /\ disturbed' = disturbed \cup (IF dir[Fp(r)] = Empty THEN {} ELSE Users(Fp(r)) \ {r})
  /\ Go(r, "installing")
  /\ UNCHANGED <<version, newest, root, staging, lock, job, bounds>>

\* os.replace, which wants a source and an empty target; then gzip knows the
\* name of its file, zip lists the directory
Install(r) ==
  /\ at[r] = "installing" /\ staging[r] # Empty /\ dir[Fp(r)] = Empty
  /\ dir' = [dir EXCEPT ![Fp(r)] = staging[r]]
  /\ staging' = [staging EXCEPT ![r] = Empty]
  /\ torn' = IF r \in torn THEN torn \cup {Fp(r)} ELSE torn \ {Fp(r)}
  /\ IF IsGzip(r) THEN HandOut(r, {"log"})
     ELSE Go(r, "listing") /\ UNCHANGED <<lock, job>>
  /\ UNCHANGED <<version, newest, root, bounds, disturbed>>

\* For one of these reasons or another; the exception leaves the staging directory
InstallFails(r) ==
  /\ at[r] = "installing"
  /\ GiveUp(r)
  /\ UNCHANGED <<disk, bounds, history>>

----------------------------------------------------------------------------
(* The scan, without a lock                                                 *)

\* A file that has gone is passed over; if it goes between is_file and open,
\* the request fails
Scan(r) ==
  /\ at[r] = "scanning"
  /\ \E item \in job[r].todo :
       \/ /\ job' = [job EXCEPT ![r].todo = @ \ {item},
                                ![r].seen = [m \in Members |-> IF m = item THEN dir[Fp(r)].files[m]
                                                               ELSE @[m]]]
          /\ UNCHANGED at
       \/ item \notin Files(dir[Fp(r)]) /\ Finish(r)
  /\ Private

\* After the last file, or earlier when every chat id has its matches
ScanEnds(r) ==
  /\ at[r] = "scanning" /\ (job[r].todo = {} \/ \E m \in Members : job[r].seen[m] # 0)
  /\ Finish(r)
  /\ Private

----------------------------------------------------------------------------
(* fetch_logs of another request replaces the entry                         *)

RefreshStarts ==
  /\ ~clearing /\ events < MaxEvents
  /\ clearing' = TRUE /\ events' = events + 1
  /\ UNCHANGED <<disk, lock, at, job, history>>

\* shutil.rmtree(cache_dir)
RefreshRemoves ==
  /\ clearing
  /\ \/ /\ \E a \in Archives :
             version[a] # 0 /\ version' = [version EXCEPT ![a] = 0]
        /\ UNCHANGED <<root, dir, staging, history>>
     \/ /\ \E f \in Prints : \E item \in Items(dir[f]) :
             dir' = [dir EXCEPT ![f] = Without(@, item)] /\ Removing(NoRequest, f)
        /\ UNCHANGED <<version, root, staging>>
     \/ /\ \E r \in Requests : \E item \in Items(staging[r]) :
             /\ staging' = [staging EXCEPT ![r] = Without(@, item)]
             /\ torn' = torn \cup {r}
             /\ disturbed' = disturbed \cup (IF at[r] = "done" THEN {} ELSE {r})
        /\ UNCHANGED <<version, root, dir>>
     \/ /\ root /\ \A f \in Prints : dir[f] = Empty
        /\ \A r \in Requests : staging[r] = Empty
        /\ root' = FALSE
        /\ UNCHANGED <<version, dir, staging, history>>
  /\ UNCHANGED <<newest, lock, at, job, bounds>>

\* os.replace(staging, cache_dir); tar keeps the mtime of an archive that has
\* not changed
RefreshInstalls ==
  /\ clearing /\ ~root /\ \A a \in Archives : version[a] = 0
  /\ \E fresh \in [Archives -> 1 .. MaxVersion] :
       /\ \A a \in Archives : fresh[a] >= newest[a]
       /\ version' = fresh /\ newest' = fresh
  /\ clearing' = FALSE
  /\ UNCHANGED <<root, dir, staging, lock, at, job, events, history>>

\* rmtree and os.replace raise when something new has come into the directory;
\* gc of the log cache, too, may remove an entry without putting another there
RefreshFails ==
  /\ clearing
  /\ clearing' = FALSE
  /\ UNCHANGED <<disk, lock, at, job, events, history>>

\* Locks and locals are gone, the directories are as they were
Crash ==
  /\ events < MaxEvents
  /\ events' = events + 1
  /\ clearing' = FALSE
  /\ lock' = [f \in Prints |-> NoRequest]
  /\ at' = [r \in Requests |-> IF at[r] = "new" THEN "new" ELSE "done"]
  /\ job' = [r \in Requests |-> NoJob]
  /\ UNCHANGED <<disk, history>>

----------------------------------------------------------------------------
Collect(r) ==
  \/ Expire(r) \/ WeighUp(r) \/ Evict(r) \/ RemoveItem(r)

Step(r) ==
  \/ Start(r) \/ Collect(r) \/ Fingerprint(r)
  \/ Look(r) \/ ListGzip(r) \/ Touch(r) \/ TouchEnds(r) \/ List(r)
  \/ Open(r) \/ Extract(r) \/ ExtractFails(r)
  \/ WriteMeta(r) \/ WriteMetaEnds(r) \/ ClearOld(r) \/ Install(r) \/ InstallFails(r) \/ Scan(r) \/ ScanEnds(r)

Resting == (\A r \in Requests : at[r] = "done") /\ ~clearing /\ UNCHANGED vars

Next ==
  \/ \E r \in Requests : Step(r)
  \/ RefreshStarts \/ RefreshRemoves \/ RefreshInstalls \/ RefreshFails
  \/ Crash \/ Resting

Spec == Init /\ [][Next]_vars

----------------------------------------------------------------------------
(* Properties.                                                              *)

Locked == {"listing gzip", "touching", "touched", "listing", "staging", "extracting", "written",
           "clearing", "installing"}
Dirs == [meta : BOOLEAN, files : [Members -> Versions], temps : SUBSET Requests]

\* Types, and who may hold a lock: the request that is looking into the
\* directory of that fingerprint or filling it, and nobody who has left.
TypeOK ==
  /\ version \in [Archives -> Versions] /\ newest \in [Archives -> Versions]
  /\ root \in BOOLEAN /\ clearing \in BOOLEAN
  /\ dir \in [Prints -> Dirs] /\ staging \in [Requests -> Dirs]
  /\ lock \in [Prints -> Requests \cup {NoRequest}]
  /\ torn \subseteq Prints \cup Requests /\ disturbed \subseteq Requests
  /\ \A r \in Requests : job[r].arc \in Archives /\ job[r].seen \in [Members -> Versions]
  /\ \A r \in Requests, f \in Prints : lock[f] = r <=> at[r] \in Locked /\ f = Fp(r)

\* Half an extraction never looks whole by itself: a directory with a meta file
\* holds every member of its archive, all from one version, unless gc or a
\* refresh has begun to remove it or the staging directory it was made of.
\* Crashes, failed extractions and competing requests do not do that.
WholeUnlessRemoved ==
  \A f \in Prints \ torn :
    dir[f].meta => \E v \in 1 .. MaxVersion : dir[f].files = FilesOf(f[1], v)

\* No request reads of an archive what is older than the version it found in
\* the cache, though the extraction it uses may be another request's, and the
\* archive may have been replaced between its stat and the extraction.
NeverOlder ==
  \A r \in Requests : \A m \in Members :
    job[r].seen[m] # 0 => job[r].seen[m] >= job[r].ver

ScannedToTheEnd(r) == at[r] = "scanning" /\ job[r].todo = {}
ReadAll(r) == \A m \in MembersOf(job[r].arc) : job[r].seen[m] # 0

\* Whatever gc, a refresh, a crash or a removal that failed have left of an
\* extraction of a gzip file, a later scan, from under which nothing is removed
\* while it runs, reads the log all the same, but for one case: the log has gone
\* and the temporary file of a meta file, which the lookup takes for the log, has
\* not.
OnlyTemps(r) == Held(dir[Fp(r)]) = {} /\ dir[Fp(r)].temps # {}
GzipHeals ==
  \A r \in Requests :
    ScannedToTheEnd(r) /\ IsGzip(r) /\ r \notin disturbed => ReadAll(r) \/ OnlyTemps(r)
=============================================================================
