---------------------------- MODULE LogCacheProofs ----------------------------
(* What the index of the log cache claims, what a scan under the lock of a    *)
(* key finds and how fresh an answer is, for every number of requests, keys,  *)
(* pods, versions, retries and crashes.                                       *)
EXTENDS LogCache, FiniteSetTheorems, TLAPS

----------------------------------------------------------------------------
(* The invariant.                                                           *)

Fields == {"key", "cacheOnly", "locked", "ent", "index", "victims", "list", "before", "got", "todo",
           "tries", "scanned", "seen", "from", "loose", "missed", "fetched"}
JobTyped(j) ==
  /\ DOMAIN j = Fields
  /\ j.key \in Keys /\ j.cacheOnly \in BOOLEAN /\ j.locked \in BOOLEAN
  /\ j.ent \in Entries /\ j.index \in [Keys -> Entries] /\ j.victims \subseteq Keys
  /\ j.list \in Files /\ j.before \in Files /\ j.got \in Files /\ j.todo \subseteq Pods
  /\ j.tries \in 0 .. CopyRetry
  /\ j.scanned \in Entries /\ j.seen \in Files /\ j.from \subseteq Requests \cup {NoRequest}
  /\ j.loose \in BOOLEAN /\ j.missed \in BOOLEAN /\ j.fetched \in BOOLEAN

TypeInv ==
  /\ index \in [Keys -> Entries] /\ dir \in [Keys -> Files]
  /\ author \in [Keys -> Requests \cup {NoRequest}]
  /\ remote \in [Keys -> Files] /\ newest \in [Keys -> Files]
  /\ guard \in Requests \cup {NoRequest} /\ gcGuard \in Requests \cup {NoRequest}
  /\ keyOwner \in [Keys -> Requests \cup {NoRequest}]
  /\ at \in [Requests -> Places]
  /\ DOMAIN job = Requests /\ \A r \in Requests : JobTyped(job[r])
  /\ DOMAIN result = Requests

\* Who has gone into the block of a key's lock owns the key
LocksHeld ==
  \A r \in Requests, k \in Keys : keyOwner[k] = r <=> job[r].locked /\ job[r].key = k

\* Files that are there are the newest
RemoteNewest == \A k \in Keys, p \in Pods : remote[k][p] \in {0, newest[k][p]}

\* What the index says of a key, and what a save may make it say: the entry in
\* hand, and the copies of the index between a load and its save, however old
Claims(k) ==
  {index[k]} \cup {job[r].index[k] : r \in Requests}
  \cup {job[r].ent : r \in {u \in Requests : job[u].key = k}}

Known == \A k \in Keys : \A e \in Claims(k), p \in Pods : e.sig[p] <= newest[k][p]

Honest(e, k) == e.changed \/ \A p \in Of(dir[k]) : dir[k][p] >= e.sig[p]
ClaimsHonest == \A k \in Keys : \A e \in Claims(k) : Honest(e, k)

InFetch == {"matched", "stat", "fetching", "sweeping", "copying", "clearing", "installed",
            "set", "setting"}
Placed(r) ==
  /\ at[r] \in InFetch => job[r].locked
  /\ at[r] = "new" => job[r] = NoJob
  /\ at[r] \notin {"copying", "clearing", "installed"} => job[r].got = None
  /\ at[r] \notin {"stat", "fetching", "sweeping", "copying", "clearing", "installed"} =>
       job[r].before = None
  /\ job[r].fetched => job[r].locked /\ at[r] \in {"set", "setting", "scanning", "scanned"}

\* The listings of a fetch, and its copies: no claim to the key is newer than
\* what has been copied, since only the fetch under the lock makes claims
Fetches(r) ==
  /\ \A p \in Pods : /\ job[r].list[p] <= newest[job[r].key][p]
                     /\ job[r].before[p] <= newest[job[r].key][p]
  /\ \A p \in Of(job[r].before) : job[r].before[p] >= job[r].list[p]
  /\ \A p \in Of(job[r].got) :
       /\ job[r].got[p] >= job[r].before[p]
       /\ \A e \in Claims(job[r].key) : e.sig[p] <= job[r].got[p]
  /\ at[r] = "installed" =>
       /\ \A p \in Pods : Here(r)[p] \in {0, job[r].got[p]}
       /\ job[r].key \notin swept => Here(r) = job[r].got
  /\ job[r].fetched => \A p \in Of(job[r].ent.sig) : job[r].ent.sig[p] >= job[r].list[p]

\* What has been read is of the entry that was scanned, and as new as it says
Reads(r) ==
  /\ job[r].loose = job[r].scanned.changed
  /\ \A p \in Of(job[r].seen) :
       /\ p \in Of(job[r].scanned.sig)
       /\ job[r].loose \/ job[r].seen[p] >= job[r].scanned.sig[p]
  /\ at[r] = "scanning" =>
       job[r].scanned = job[r].ent /\ job[r].todo \subseteq Of(job[r].ent.sig)
  /\ at[r] # "scanning" => job[r].from = {}
  /\ at[r] = "scanning" /\ job[r].locked => job[r].from \subseteq {author[job[r].key]}
  /\ at[r] \in {"scanned", "matched"} /\ job[r].locked =>
       job[r].seen = None \/ job[r].scanned.sig = job[r].ent.sig
  /\ at[r] = "matched" => job[r].list = job[r].ent.sig

\* What is to be scanned under the lock is there as long as gc does not remove it
Complete(r) ==
  job[r].locked /\ job[r].key \notin swept =>
    /\ at[r] \in {"set", "setting", "scanning"} => Of(job[r].ent.sig) \subseteq Of(Here(r))
    /\ at[r] = "scanning" => Of(job[r].ent.sig) \ job[r].todo \subseteq Of(job[r].seen)

Inv ==
  /\ TypeInv /\ LocksHeld /\ RemoteNewest /\ Known /\ ClaimsHonest
  /\ \A r \in Requests : Placed(r) /\ Fetches(r) /\ Reads(r) /\ Complete(r)

LEMMA Zeroes ==
  /\ 0 \in Versions /\ Versions \subseteq Nat /\ None \in Files /\ NoEntry \in Entries
  /\ Unread \in [Keys -> Entries] /\ \A p \in Pods : None[p] = 0
BY CacheConfig DEF Versions, None, Files, NoEntry, Entries, Unread

LEMMA NoJobTyped ==
  /\ JobTyped(NoJob)
  /\ ~NoJob.locked /\ ~NoJob.fetched /\ NoJob.loose = FALSE /\ NoJob.from = {} /\ NoJob.index = Unread
  /\ NoJob.ent = NoEntry /\ NoJob.scanned = NoEntry /\ NoJob.seen = None /\ NoJob.got = None
  /\ NoJob.list = None /\ NoJob.before = None
<1>1. (CHOOSE k \in Keys : TRUE) \in Keys
  BY CacheConfig
<1> QED BY <1>1, Zeroes, CacheConfig DEF NoJob, JobTyped, Fields

LEMMA OfNone == Of(None) = {} /\ NoEntry.changed = FALSE /\ NoEntry.sig = None
BY DEF Of, None, NoEntry

LEMMA InitInv == Init => Inv
<1> SUFFICES ASSUME Init PROVE Inv
  OBVIOUS
<1>1. PICK cached \in SUBSET Keys, first \in [Pods -> 0 .. 1] :
       /\ remote = [k \in Keys |-> first] /\ newest = remote
       /\ dir = [k \in Keys |-> IF k \in cached THEN first ELSE None]
       /\ index = [k \in Keys |-> IF k \in cached THEN [NoEntry EXCEPT !.sig = first] ELSE NoEntry]
  BY DEF Init
<1>2. first \in Files
  BY CacheConfig DEF Files, Versions
<1> DEFINE old == [NoEntry EXCEPT !.sig = first]
<1>3. old \in Entries /\ old.sig = first /\ ~old.changed
  BY <1>2, Zeroes DEF NoEntry, Entries
<1>4. TypeInv
  BY <1>1, <1>2, <1>3, Zeroes, NoJobTyped DEF Init, TypeInv, Places, Entries
<1>5. LocksHeld /\ RemoteNewest
  BY <1>1, NoJobTyped, CacheConfig DEF Init, LocksHeld, RemoteNewest
<1>6. ASSUME NEW k \in Keys, NEW e \in Claims(k)
      PROVE  /\ \A p \in Pods : e.sig[p] <= newest[k][p]
             /\ Honest(e, k)
  <2>1. e = NoEntry \/ e = index[k]
    BY <1>6, NoJobTyped DEF Claims, Init, Unread
  <2>2. newest[k] = first /\ \A p \in Pods : first[p] \in Nat
    BY <1>1
  <2>3. CASE e = NoEntry
    BY <2>2, <2>3, <1>4, OfNone, Zeroes DEF Honest, TypeInv, Of, Files, Versions
  <2>4. CASE e = old /\ dir[k] = first
    BY <1>3, <2>2, <2>4 DEF Honest, Of
  <2> QED BY <1>1, <1>3, <2>1, <2>3, <2>4
<1>7. Known /\ ClaimsHonest
  BY <1>6 DEF Known, ClaimsHonest
<1>8. ASSUME NEW r \in Requests PROVE Placed(r) /\ Fetches(r) /\ Reads(r) /\ Complete(r)
  <2>1. at[r] = "new" /\ job[r] = NoJob
    BY DEF Init
  <2>2. Placed(r)
    BY <2>1, NoJobTyped DEF Placed, InFetch
  <2>5. Reads(r)
    BY <2>1, NoJobTyped, OfNone DEF Reads
  <2>6. Complete(r)
    BY <2>1, NoJobTyped DEF Complete
  <2>3. NoJob.key \in Keys
    BY NoJobTyped DEF JobTyped, Fields
  <2>4. Fetches(r)
    BY <1>4, <2>1, <2>3, NoJobTyped, OfNone, Zeroes DEF Fetches, TypeInv, Files, Versions
  <2> QED BY <2>2, <2>4, <2>5, <2>6
<1> QED BY <1>4, <1>5, <1>7, <1>8 DEF Inv

----------------------------------------------------------------------------
(* What a step of one request leaves alone, and what it does to its locals. *)

Answering(r) ==
  \/ SaveFails(r) \/ AnswerFound(r) \/ AnswerCacheOnly(r) \/ AnswerRecent(r) \/ AnswerMatched(r)
  \/ ResolveFails(r) \/ FetchFails(r) \/ (CopyEnds(r) /\ Answer(r, "error"))

LEMMA AnswersEnd ==
  ASSUME NEW r, Answering(r)
  PROVE  (\E how : Ends(r, how)) /\ UNCHANGED <<store, pods>>
BY DEF Answering, SaveFails, AnswerFound, AnswerCacheOnly, AnswerRecent, AnswerMatched, ResolveFails,
       FetchFails, CopyEnds, Answer

LEMMA StepMoves ==
  ASSUME TypeInv, NEW r \in Requests, Step(r)
  PROVE  /\ \A u \in Requests : u # r => at'[u] = at[u] /\ job'[u] = job[u]
         /\ at' = [u \in Requests |-> at'[u]] /\ DOMAIN job' = Requests
         /\ UNCHANGED pods
<1> USE DEF TypeInv
<1>1. CASE (\E how : Ends(r, how)) /\ UNCHANGED pods
  BY <1>1 DEF Ends, Go
<1>2. CASE Start(r) \/ GetNothing(r) \/ GetLoads(r) \/ GetSaves(r) \/ SetLoads(r) \/ SetSaves(r)
  BY <1>2 DEF Start, GetNothing, GetLoads, GetSaves, SetLoads, SetSaves, Load, ScanOf, Go
<1>3. CASE Check(r) \/ Scan(r) \/ ScanEnds(r) \/ LockKey(r) \/ Resolve(r)
  BY <1>3 DEF Check, Scan, ScanEnds, LockKey, Resolve, ScanOf, Go
<1>4. CASE Retry(r) /\ UNCHANGED pods
  BY <1>4 DEF Retry, Go
<1>5. CASE (StatBefore(r) \/ StatAfter(r)) /\ ~Retry(r)
  BY <1>5 DEF StatBefore, StatAfter, Go
<1>6. CASE GcNotDue(r) \/ GcLoads(r) \/ GcRemoves(r) \/ GcEnds(r)
  BY <1>6 DEF GcNotDue, GcLoads, GcRemoves, GcEnds, Go
<1>7. CASE Copy(r) \/ ClearOld(r) \/ Install(r)
  BY <1>7 DEF Copy, ClearOld, Install, Go
<1>8. CASE CopyEnds(r) /\ at'[r] = "clearing"
  BY <1>8 DEF CopyEnds, Retry, Answer, Ends, Go
<1>9. CASE Answering(r)
  BY <1>1, <1>9, AnswersEnd
<1> QED
  <2>1. CopyEnds(r) => UNCHANGED pods /\ (Retry(r) \/ at'[r] = "clearing" \/ Answering(r))
    BY DEF CopyEnds, Go, Answering
  <2>2. StatBefore(r) \/ StatAfter(r) => UNCHANGED pods
    BY DEF StatBefore, StatAfter
  <2> QED BY <1>2, <1>3, <1>4, <1>5, <1>6, <1>7, <1>8, <1>9, <2>1, <2>2 DEF Step, Answering

----------------------------------------------------------------------------
(* What a step of r does to its locals, one case per kind of step.          *)

Moved(r, from, to) == at[r] = from /\ at'[r] = to

Starts(r) ==
  /\ Moved(r, "new", "get")
  /\ \E k \in Keys, only \in BOOLEAN : job'[r] = [job[r] EXCEPT !.key = k, !.cacheOnly = only]
Loads(r) ==
  \/ /\ Moved(r, "get", "got") /\ index[job[r].key] = NoEntry
     /\ job'[r] = [job[r] EXCEPT !.ent = NoEntry]
  \/ /\ Moved(r, "get", "touching")
     /\ job'[r] = [job[r] EXCEPT !.ent = index[job[r].key], !.index = index]
  \/ /\ Moved(r, "set", "setting")
     /\ job'[r] = [job[r] EXCEPT !.index = index]
Saves(r) == Moved(r, "touching", "got") /\ job'[r] = [job[r] EXCEPT !.index = Unread]
Locks(r) ==
  /\ Moved(r, "scanned", "get") /\ LockKey(r)
  /\ job'[r] = [job[r] EXCEPT !.locked = TRUE]
BeginsScan(r) ==
  /\ \/ Moved(r, "setting", "scanning") /\ SetSaves(r)
     \/ Moved(r, "got", "scanning") /\ Check(r) /\ FilesExist(r)
  /\ job'[r] = [job[r] EXCEPT !.todo = Of(job[r].ent.sig), !.scanned = job[r].ent,
                              !.seen = None, !.from = {}, !.loose = job[r].ent.changed,
                              !.index = Unread]
Reuses(r) == Moved(r, "got", "scanned") /\ SameFingerprint(r) /\ job'[r] = job[r]
Misses(r) ==
  /\ Moved(r, "got", "scanned")
  /\ job'[r] = [job[r] EXCEPT !.missed = TRUE, !.scanned = NoEntry, !.seen = None, !.loose = FALSE]
ReadsOne(r) ==
  /\ Moved(r, "scanning", "scanning")
  /\ \E p \in job[r].todo :
       job'[r] = [job[r] EXCEPT
         !.todo = @ \ {p}, !.seen = [job[r].seen EXCEPT ![p] = Here(r)[p]],
         !.from = IF p \in Of(Here(r)) THEN @ \cup {author[job[r].key]} ELSE @]
EndsScan(r) ==
  /\ Moved(r, "scanning", "scanned")
  /\ \E missed \in BOOLEAN : job'[r] = [job[r] EXCEPT !.missed = missed, !.todo = {}, !.from = {}]
Matches(r) ==
  /\ Moved(r, "scanned", "matched") /\ job[r].locked /\ ~job[r].fetched
  /\ remote[job[r].key] = job[r].ent.sig
  /\ job'[r] = [job[r] EXCEPT !.list = remote[job[r].key]]
BeginsFetch(r) ==
  /\ Moved(r, "scanned", "stat") /\ job[r].locked
  /\ job'[r] = [NoJob EXCEPT !.key = job[r].key, !.locked = TRUE, !.list = remote[job[r].key]]
Retries(r) ==
  /\ at[r] \in {"stat", "copying", "installed"} /\ at'[r] = "stat" /\ job[r].tries < CopyRetry
  /\ job'[r] = [job[r] EXCEPT !.tries = @ + 1, !.got = None, !.todo = {}]
ListsBefore(r) ==
  /\ Moved(r, "stat", "fetching")
  /\ \E before : /\ before = Stat(r, job[r].list)
                 /\ job'[r] = [job[r] EXCEPT !.before = before, !.todo = Of(before)]
Goes(r) ==
  /\ \/ Moved(r, "fetching", "copying") \/ Moved(r, "sweeping", "sweeping")
     \/ Moved(r, "copying", "clearing") \/ Moved(r, "clearing", "clearing")
     \/ Moved(r, "clearing", "installed") /\ Install(r)
  /\ job'[r] = job[r]
Collects(r) ==
  \/ /\ Moved(r, "fetching", "sweeping")
     /\ \E victims \in SUBSET Keys : job'[r] = [job[r] EXCEPT !.index = index, !.victims = victims]
  \/ /\ Moved(r, "sweeping", "copying")
     /\ job'[r] = [job[r] EXCEPT !.victims = {}, !.index = Unread]
Copies(r) ==
  /\ Moved(r, "copying", "copying")
  /\ \E p \in job[r].todo :
       \/ job'[r] = [job[r] EXCEPT !.todo = @ \ {p},
                                   !.got = [job[r].got EXCEPT ![p] = remote[job[r].key][p]]]
       \/ job'[r] = [job[r] EXCEPT !.todo = @ \ {p}]
ListsAfter(r) ==
  /\ Moved(r, "installed", "set") /\ StatAfter(r)
  /\ \E after : /\ after = Stat(r, FetchedListing(r))
                /\ job'[r] = [job[r] EXCEPT !.ent = [sig |-> after, changed |-> ChangedDuringCopy(r, after)],
                                !.before = None, !.got = None, !.tries = 0, !.fetched = TRUE]
Leaves(r) == at'[r] = "done" /\ job'[r] = NoJob /\ \E how : Ends(r, how)

JobSteps(r) ==
  \/ Starts(r) \/ Loads(r) \/ Saves(r) \/ Locks(r) \/ BeginsScan(r) \/ Reuses(r) \/ Misses(r)
  \/ ReadsOne(r) \/ EndsScan(r) \/ Matches(r) \/ BeginsFetch(r) \/ Retries(r) \/ ListsBefore(r)
  \/ Goes(r) \/ Collects(r) \/ Copies(r) \/ ListsAfter(r) \/ Leaves(r)

LEMMA JobStep == ASSUME TypeInv, NEW r \in Requests, Step(r) PROVE JobSteps(r)
<1> USE DEF Moved, Go
<1>0. at \in [Requests -> Places] /\ DOMAIN job = Requests /\ \A u \in Requests : JobTyped(job[u])
  BY DEF TypeInv
<1>1. Start(r) => Starts(r)
  BY <1>0 DEF Start, Starts
<1>2. GetNothing(r) \/ GetLoads(r) \/ SetLoads(r) => Loads(r)
  BY <1>0 DEF GetNothing, GetLoads, SetLoads, Load, Loads
<1>3. GetSaves(r) => Saves(r)
  BY <1>0 DEF GetSaves, Saves
<1>4. LockKey(r) => Locks(r)
  BY <1>0 DEF LockKey, Locks
<1>5. ScanOf(r) => at'[r] = "scanning" /\
        job'[r] = [job[r] EXCEPT !.todo = Of(job[r].ent.sig), !.scanned = job[r].ent,
                              !.seen = None, !.from = {}, !.loose = job[r].ent.changed,
                              !.index = Unread]
  BY <1>0 DEF ScanOf
<1>6. SetSaves(r) => BeginsScan(r)
  BY <1>5 DEF SetSaves, BeginsScan
<1>7. Check(r) => BeginsScan(r) \/ Reuses(r) \/ Misses(r)
  BY <1>0, <1>5 DEF Check, BeginsScan, Reuses, Misses
<1>8. ASSUME Scan(r) PROVE ReadsOne(r)
  <2>1. PICK p \in job[r].todo :
          job' = [job EXCEPT ![r].todo = @ \ {p}, ![r].seen[p] = Here(r)[p],
                    ![r].from = IF p \in Of(Here(r)) THEN @ \cup {author[job[r].key]} ELSE @]
    BY <1>8 DEF Scan
  <2>2. job'[r] = [job[r] EXCEPT
          !.todo = @ \ {p}, !.seen = [job[r].seen EXCEPT ![p] = Here(r)[p]],
          !.from = IF p \in Of(Here(r)) THEN @ \cup {author[job[r].key]} ELSE @]
    BY <1>0, <2>1 DEF JobTyped, Fields
  <2> QED BY <1>0, <1>8, <2>2 DEF Scan, ReadsOne
<1>9. ScanEnds(r) => EndsScan(r)
  BY <1>0 DEF ScanEnds, EndsScan
<1>10. Resolve(r) => Matches(r) \/ BeginsFetch(r)
  BY <1>0 DEF Resolve, SameSignature, Matches, BeginsFetch
<1>11. Retry(r) /\ at[r] \in {"stat", "copying", "installed"} => Retries(r)
  BY <1>0 DEF Retry, MayRetry, Retries
<1>12. StatBefore(r) => ListsBefore(r) \/ Retries(r)
  BY <1>0, <1>11 DEF StatBefore, ListsBefore
<1>13. GcNotDue(r) \/ GcRemoves(r) \/ ClearOld(r) \/ Install(r) => Goes(r)
  BY <1>0 DEF GcNotDue, GcRemoves, ClearOld, Install, Goes
<1>14. GcLoads(r) \/ GcEnds(r) => Collects(r)
  BY <1>0 DEF GcLoads, GcEnds, Collects
<1>15. ASSUME Copy(r) PROVE Copies(r)
  <2>1. PICK p \in job[r].todo :
          \/ job' = [job EXCEPT ![r].todo = @ \ {p}, ![r].got[p] = remote[job[r].key][p]]
          \/ job' = [job EXCEPT ![r].todo = @ \ {p}]
    BY <1>15 DEF Copy
  <2>2. CASE job' = [job EXCEPT ![r].todo = @ \ {p}, ![r].got[p] = remote[job[r].key][p]]
    <3>1. job'[r] = [job[r] EXCEPT !.todo = @ \ {p},
                                   !.got = [job[r].got EXCEPT ![p] = remote[job[r].key][p]]]
      BY <1>0, <2>2 DEF JobTyped, Fields
    <3> QED BY <1>0, <1>15, <3>1 DEF Copy, Copies
  <2>3. CASE job' = [job EXCEPT ![r].todo = @ \ {p}]
    BY <1>0, <1>15, <2>3 DEF Copy, Copies
  <2> QED BY <2>1, <2>2, <2>3
<1>16. CopyEnds(r) => Goes(r) \/ Retries(r) \/ Answering(r)
  BY <1>0, <1>11 DEF CopyEnds, Goes, Answering
<1>17. StatAfter(r) => ListsAfter(r) \/ Retries(r)
  BY <1>0, <1>11 DEF StatAfter, ListsAfter
<1>18. Answering(r) => Leaves(r)
  BY <1>0, AnswersEnd DEF Ends, Leaves
<1> QED BY <1>1, <1>2, <1>3, <1>4, <1>6, <1>7, <1>8, <1>9, <1>10, <1>12, <1>13, <1>14, <1>15, <1>16,
           <1>17, <1>18 DEF Step, JobSteps, Answering

\* A listing made again names no new files, and none older than it did
LEMMA StatFacts ==
  ASSUME Inv, NEW r \in Requests, NEW files \in Files,
         \A p \in Pods : files[p] <= newest[job[r].key][p]
  PROVE  /\ Stat(r, files) \in Files
         /\ \A p \in Pods : Stat(r, files)[p] <= newest[job[r].key][p]
         /\ \A p \in Of(Stat(r, files)) : p \in Of(files) /\ Stat(r, files)[p] >= files[p]
<1> DEFINE k == job[r].key
           now == [p \in Pods |-> IF p \in Of(files) THEN remote[k][p] ELSE 0]
<1>1. k \in Keys /\ remote[k] \in Files /\ newest[k] \in Files
  BY DEF Inv, TypeInv, JobTyped, Fields
<1>2. \A p \in Pods : files[p] \in Nat /\ newest[k][p] \in Nat /\ remote[k][p] \in {0, newest[k][p]}
  BY <1>1 DEF Inv, RemoteNewest, Files, Versions
<1>3. now \in Files
  BY <1>1, Zeroes DEF Files
<1>4. Stat(r, files) \in {files, now}
  BY DEF Stat
<1>5. \A p \in Pods : now[p] <= newest[k][p] /\ (p \in Of(now) => p \in Of(files) /\ now[p] >= files[p])
  BY <1>2 DEF Of
<1>6. \A p \in Of(files) : files[p] >= files[p]
  BY <1>2 DEF Of
<1>7. Of(now) \subseteq Pods
  BY DEF Of
<1> HIDE DEF k, now
<1> QED BY <1>3, <1>4, <1>5, <1>6, <1>7 DEF k

LEMMA FetchedFacts ==
  ASSUME Inv, NEW r \in Requests
  PROVE  /\ FetchedListing(r) \in Files
         /\ \A p \in Pods : FetchedListing(r)[p] <= newest[job[r].key][p]
         /\ \A p \in Of(FetchedListing(r)) :
              p \in Of(job[r].got) /\ FetchedListing(r)[p] = job[r].before[p]
<1>1. job[r].before \in Files /\ newest[job[r].key] \in Files
  BY DEF Inv, TypeInv, JobTyped, Fields
<1>2. \A p \in Pods : job[r].before[p] <= newest[job[r].key][p]
  BY DEF Inv, Fetches
<1>3. \A p \in Pods : newest[job[r].key][p] \in Nat
  BY <1>1 DEF Files, Versions
<1> QED BY <1>1, <1>2, <1>3, Zeroes DEF FetchedListing, Files, Of

\* What is put into the index when the fetch is over
LEMMA NewClaim ==
  ASSUME Inv, NEW r \in Requests, ListsAfter(r)
  PROVE  /\ job'[r].ent \in Entries /\ job'[r].key = job[r].key
         /\ \A p \in Pods : job'[r].ent.sig[p] <= newest[job[r].key][p]
         /\ \A p \in Of(job'[r].ent.sig) :
              /\ p \in Of(job[r].got) /\ p \in Of(job[r].before)
              /\ job'[r].ent.sig[p] >= job[r].before[p]
         /\ job'[r].ent.changed \/ job'[r].ent.sig = FetchedListing(r)
<1>0. JobTyped(job[r])
  BY DEF Inv, TypeInv
<1>1. PICK after : /\ after = Stat(r, FetchedListing(r))
                   /\ job'[r].ent = [sig |-> after, changed |-> ChangedDuringCopy(r, after)]
                   /\ job'[r].key = job[r].key
  BY <1>0 DEF ListsAfter, JobTyped, Fields
<1>2. /\ after \in Files
      /\ \A p \in Pods : after[p] <= newest[job[r].key][p]
      /\ \A p \in Of(after) : p \in Of(FetchedListing(r)) /\ after[p] >= FetchedListing(r)[p]
  BY <1>1, FetchedFacts, StatFacts
<1>3. ChangedDuringCopy(r, after) \in BOOLEAN /\ (ChangedDuringCopy(r, after) \/ after = FetchedListing(r))
  BY DEF ChangedDuringCopy
<1>4. \A p \in Of(FetchedListing(r)) :
        p \in Of(job[r].got) /\ p \in Of(job[r].before) /\ FetchedListing(r)[p] = job[r].before[p]
  BY FetchedFacts DEF Of
<1> QED BY <1>1, <1>2, <1>3, <1>4 DEF Entries

LEMMA JobTypes == ASSUME Inv, NEW r \in Requests, Step(r) PROVE JobTyped(job'[r])
<1>0. TypeInv /\ JobTyped(job[r]) /\ Fetches(r)
  BY DEF Inv, TypeInv
<1>1. /\ job[r].key \in Keys /\ job[r].ent \in Entries /\ job[r].todo \subseteq Pods
      /\ job[r].seen \in Files /\ job[r].got \in Files /\ job[r].list \in Files
      /\ remote[job[r].key] \in Files /\ Here(r) \in Files
      /\ job[r].ent.sig \in Files /\ job[r].ent.changed \in BOOLEAN
      /\ author[job[r].key] \in Requests \cup {NoRequest}
      /\ index \in [Keys -> Entries] /\ index[job[r].key] \in Entries
  BY <1>0 DEF TypeInv, JobTyped, Fields, Entries, Here
<1>2. \A files : Of(files) \subseteq Pods
  BY DEF Of
<1>3. \A files \in Files, p \in Pods : files[p] \in Versions
  BY DEF Files
<1>4. CASE Starts(r) \/ Saves(r) \/ Locks(r)
  BY <1>0, <1>4, Zeroes DEF Starts, Saves, Locks, JobTyped, Fields
<1>14. CASE Loads(r)
  BY <1>0, <1>1, <1>14, Zeroes DEF Loads, JobTyped, Fields
<1>5. CASE BeginsScan(r)
  BY <1>0, <1>1, <1>2, <1>5, Zeroes DEF BeginsScan, JobTyped, Fields
<1>15. CASE Reuses(r) \/ Misses(r) \/ EndsScan(r)
  BY <1>0, <1>15, Zeroes, OfNone DEF Reuses, Misses, EndsScan, JobTyped, Fields
<1>6. CASE ReadsOne(r)
  <2>1. PICK p \in job[r].todo :
          job'[r] = [job[r] EXCEPT
            !.todo = @ \ {p}, !.seen = [job[r].seen EXCEPT ![p] = Here(r)[p]],
            !.from = IF p \in Of(Here(r)) THEN @ \cup {author[job[r].key]} ELSE @]
    BY <1>6 DEF ReadsOne
  <2>2. [job[r].seen EXCEPT ![p] = Here(r)[p]] \in Files
    BY <1>1, <1>3 DEF Files
  <2>3. (IF p \in Of(Here(r)) THEN job[r].from \cup {author[job[r].key]} ELSE job[r].from)
          \in SUBSET (Requests \cup {NoRequest})
    BY <1>0, <1>1 DEF JobTyped, Fields
  <2>4. job[r].todo \ {p} \in SUBSET Pods
    BY <1>1
  <2> QED BY <1>0, <2>1, <2>2, <2>3, <2>4 DEF JobTyped, Fields
<1>7. CASE Matches(r) \/ Goes(r) \/ Leaves(r)
  BY <1>0, <1>1, <1>7, NoJobTyped DEF Matches, Goes, Leaves, JobTyped, Fields
<1>8. CASE BeginsFetch(r)
  BY <1>0, <1>1, <1>8, NoJobTyped DEF BeginsFetch, JobTyped, Fields
<1>9. CASE Retries(r)
  <2>1. job[r].tries + 1 \in 0 .. CopyRetry
    BY <1>0, <1>9, CacheConfig DEF Retries, JobTyped, Fields
  <2> QED BY <1>0, <1>9, <2>1, Zeroes DEF Retries, JobTyped, Fields
<1>10. CASE ListsBefore(r)
  <2>1. Stat(r, job[r].list) \in Files
    BY <1>0, <1>1, StatFacts DEF Fetches
  <2> QED BY <1>0, <1>2, <1>10, <2>1 DEF ListsBefore, JobTyped, Fields
<1>11. CASE Collects(r)
  BY <1>0, <1>1, <1>11, Zeroes DEF Collects, JobTyped, Fields
<1>12. CASE Copies(r)
  <2>1. PICK p \in job[r].todo :
          \/ job'[r] = [job[r] EXCEPT !.todo = @ \ {p},
                          !.got = [job[r].got EXCEPT ![p] = remote[job[r].key][p]]]
          \/ job'[r] = [job[r] EXCEPT !.todo = @ \ {p}]
    BY <1>12 DEF Copies
  <2>2. [job[r].got EXCEPT ![p] = remote[job[r].key][p]] \in Files
    BY <1>1, <1>3 DEF Files
  <2>3. job[r].todo \ {p} \in SUBSET Pods
    BY <1>1
  <2> QED BY <1>0, <2>1, <2>2, <2>3 DEF JobTyped, Fields
<1>13. CASE ListsAfter(r)
  <2>1. job'[r].ent \in Entries
    BY <1>13, NewClaim
  <2> QED BY <1>0, <1>13, <2>1, Zeroes, CacheConfig DEF ListsAfter, JobTyped, Fields
<1> QED BY <1>0, <1>4, <1>5, <1>6, <1>7, <1>8, <1>9, <1>10, <1>11, <1>12, <1>13, <1>14,
           <1>15, JobStep DEF JobSteps

----------------------------------------------------------------------------
(* What a step of r does to what requests share.                            *)

\* A save puts nothing into the index that was not claimed before
LEMMA IndexSteps ==
  ASSUME TypeInv, NEW r \in Requests, Step(r)
  PROVE  /\ index' \in [Keys -> Entries]
         /\ \A k \in Keys : index'[k] \in Claims(k) \cup {NoEntry}
<1>0. /\ index \in [Keys -> Entries] /\ job[r].index \in [Keys -> Entries]
      /\ job[r].ent \in Entries /\ job[r].key \in Keys /\ NoEntry \in Entries
  BY Zeroes DEF TypeInv, JobTyped
<1>1. CASE index' = index \/ index' = job[r].index
  BY <1>0, <1>1 DEF Claims
<1>2. CASE index' = [job[r].index EXCEPT ![job[r].key] = job[r].ent]
  BY <1>0, <1>2 DEF Claims
<1>3. CASE index' = [k \in Keys |-> IF k \in job[r].victims THEN NoEntry ELSE job[r].index[k]]
  BY <1>0, <1>3 DEF Claims
<1>4. GetSaves(r) => index' = job[r].index
  BY DEF GetSaves
<1>5. SetSaves(r) => index' = [job[r].index EXCEPT ![job[r].key] = job[r].ent]
  BY DEF SetSaves
<1>6. GcEnds(r) => \/ index' = index
                   \/ index' = [k \in Keys |-> IF k \in job[r].victims THEN NoEntry ELSE job[r].index[k]]
  BY DEF GcEnds
<1>7. CASE Answering(r) \/ CopyEnds(r)
  BY <1>1, <1>7, AnswersEnd DEF store, CopyEnds
<1>8. CASE ~Answering(r) /\ ~CopyEnds(r) /\ ~GetSaves(r) /\ ~SetSaves(r) /\ ~GcEnds(r)
  <2>1. index' = index
    BY <1>8 DEF Step, Answering, Start, GetNothing, GetLoads, SetLoads, Load, Check, Scan, ScanEnds,
                LockKey, Resolve, StatBefore, GcNotDue, GcLoads, GcRemoves, Copy, ClearOld, Install,
                StatAfter, store
  <2> QED BY <1>1, <2>1
<1> QED BY <1>1, <1>2, <1>3, <1>4, <1>5, <1>6, <1>7, <1>8

\* Files are taken away by gc, or by the fetch that is to replace them
Taken(r, k) ==
  /\ k \in swept' \/ (k = job[r].key /\ at[r] = "clearing" /\ at'[r] = "clearing")
  /\ author'[k] = author[k]
  /\ \A p \in Pods : dir'[k][p] \in {0, dir[k][p]}
Installed(r, k) ==
  k = job[r].key /\ at[r] = "clearing" /\ at'[r] = "installed" /\ dir'[k] = job[r].got

LEMMA DirSteps ==
  ASSUME TypeInv, NEW r \in Requests, Step(r)
  PROVE  /\ dir' \in [Keys -> Files] /\ author' \in [Keys -> Requests \cup {NoRequest}]
         /\ \A k \in Keys :
              (dir'[k] = dir[k] /\ author'[k] = author[k]) \/ Taken(r, k) \/ Installed(r, k)
<1>0. /\ dir \in [Keys -> Files] /\ author \in [Keys -> Requests \cup {NoRequest}]
      /\ job[r].key \in Keys /\ job[r].got \in Files /\ at \in [Requests -> Places]
  BY DEF TypeInv, JobTyped
<1>1. ASSUME NEW k \in Keys, NEW p \in Pods, dir' = [dir EXCEPT ![k][p] = 0]
      PROVE  /\ dir' \in [Keys -> Files]
             /\ \A l \in Keys : dir'[l] = dir[l] \/ (l = k /\ \A q \in Pods : dir'[l][q] \in {0, dir[l][q]})
  <2>1. dir' = [dir EXCEPT ![k] = [dir[k] EXCEPT ![p] = 0]] /\ dir[k] \in Files
    BY <1>0, <1>1
  <2>2. [dir[k] EXCEPT ![p] = 0] \in Files
    BY <2>1, Zeroes DEF Files
  <2>3. \A q \in Pods : [dir[k] EXCEPT ![p] = 0][q] \in {0, dir[k][q]}
    BY <2>1 DEF Files
  <2> QED BY <1>0, <2>1, <2>2, <2>3
<1>2. CASE GcRemoves(r)
  <2>1. PICK k \in job[r].victims, p \in Pods :
          dir' = [dir EXCEPT ![k][p] = 0] /\ swept' = swept \cup {k} /\ author' = author
    BY <1>2 DEF GcRemoves, Of
  <2>2. k \in Keys
    BY DEF TypeInv, JobTyped
  <2> QED BY <1>0, <1>1, <2>1, <2>2 DEF Taken
<1>3. CASE ClearOld(r)
  <2>1. PICK p \in Pods : dir' = [dir EXCEPT ![job[r].key][p] = 0]
    BY <1>3 DEF ClearOld, Of
  <2>2. author' = author /\ at[r] = "clearing" /\ at'[r] = "clearing"
    BY <1>3 DEF ClearOld
  <2> QED BY <1>0, <1>1, <2>1, <2>2 DEF Taken
<1>4. CASE Install(r)
  BY <1>0, <1>4 DEF Install, Installed, Go
<1>5. CASE Answering(r) \/ CopyEnds(r)
  BY <1>0, <1>5, AnswersEnd DEF store, CopyEnds
<1>6. CASE ~Answering(r) /\ ~CopyEnds(r) /\ ~GcRemoves(r) /\ ~ClearOld(r) /\ ~Install(r)
  <2>1. UNCHANGED <<dir, author>>
    BY <1>6 DEF Step, Answering, Start, GetNothing, GetLoads, GetSaves, SetLoads, SetSaves, Load,
                Check, Scan, ScanEnds, LockKey, Resolve, StatBefore, GcNotDue, GcLoads, GcEnds, Copy,
                StatAfter, store
  <2> QED BY <1>0, <2>1
<1> QED BY <1>2, <1>3, <1>4, <1>5, <1>6

\* Only who holds the lock of a key forgets what gc has removed of it
LEMMA SweptSteps ==
  ASSUME Inv, NEW r \in Requests, Step(r), NEW k \in swept, k \notin swept'
  PROVE  k = job[r].key /\ job[r].locked /\ at[r] \in {"got", "clearing"}
<1>1. CASE Check(r)
  BY <1>1 DEF Check, store
<1>2. CASE Install(r)
  BY <1>2 DEF Install, Inv, Placed, InFetch
<1>3. ~(Answering(r) \/ CopyEnds(r))
  BY AnswersEnd DEF store, CopyEnds
<1>4. ~GcRemoves(r)
  BY DEF GcRemoves
<1> QED
  BY <1>1, <1>2, <1>3, <1>4 DEF Step, Answering, Start, GetNothing, GetLoads, GetSaves, SetLoads,
     SetSaves, Load, Scan, ScanEnds, LockKey, Resolve, StatBefore, GcNotDue, GcLoads, GcEnds, Copy,
     ClearOld, StatAfter, store

LEMMA OwnersApart ==
  ASSUME Inv, NEW r \in Requests, NEW u \in Requests, u # r, job[r].locked, job[u].locked
  PROVE  job[u].key # job[r].key
BY DEF Inv, LocksHeld, TypeInv, JobTyped

\* Most steps keep the key and whether its lock is held
Keeps(r) ==
  \/ Loads(r) \/ Saves(r) \/ BeginsScan(r) \/ Reuses(r) \/ Misses(r) \/ ReadsOne(r) \/ EndsScan(r)
  \/ Matches(r) \/ Retries(r) \/ ListsBefore(r) \/ Goes(r) \/ Collects(r) \/ Copies(r)
  \/ ListsAfter(r)

LEMMA KeptLocals ==
  ASSUME NEW r \in Requests, DOMAIN job[r] = Fields, Keeps(r)
  PROVE  job'[r].locked = job[r].locked /\ job'[r].key = job[r].key
<1> DEFINE Kept == job'[r].locked = job[r].locked /\ job'[r].key = job[r].key
<1>1. Loads(r) \/ Saves(r) \/ Matches(r) => Kept
  BY DEF Loads, Saves, Matches, Fields
<1>2. BeginsScan(r) \/ Reuses(r) \/ Misses(r) \/ ReadsOne(r) \/ EndsScan(r) => Kept
  BY DEF BeginsScan, Reuses, Misses, ReadsOne, EndsScan, Fields
<1>3. Retries(r) \/ ListsBefore(r) \/ Goes(r) \/ Collects(r) => Kept
  BY DEF Retries, ListsBefore, Goes, Collects, Fields
<1>4. Copies(r) \/ ListsAfter(r) => Kept
  BY DEF Copies, ListsAfter, Fields
<1> QED BY <1>1, <1>2, <1>3, <1>4 DEF Keeps

LEMMA StepLocks ==
  ASSUME Inv, NEW r \in Requests, Step(r)
  PROVE  LocksHeld' /\ keyOwner' \in [Keys -> Requests \cup {NoRequest}]
<1>0. /\ TypeInv /\ LocksHeld /\ JobTyped(job[r]) /\ Placed(r)
      /\ keyOwner \in [Keys -> Requests \cup {NoRequest}] /\ NoRequest \notin Requests
  BY CacheConfig DEF Inv, TypeInv
<1>1. \A u \in Requests : u # r => job'[u] = job[u]
  BY <1>0, StepMoves
<1>2. CASE LockKey(r)
  <2>1. keyOwner' = [keyOwner EXCEPT ![job[r].key] = r] /\ keyOwner[job[r].key] = NoRequest
        /\ job' = [job EXCEPT ![r].locked = TRUE] /\ ~job[r].locked
    BY <1>2 DEF LockKey
  <2>2. job'[r].locked /\ job'[r].key = job[r].key /\ job[r].key \in Keys
    BY <1>0, <2>1 DEF TypeInv, JobTyped, Fields
  <2>3. \A k \in Keys : keyOwner'[k] = IF k = job[r].key THEN r ELSE keyOwner[k]
    BY <1>0, <2>1, <2>2
  <2>4. ASSUME NEW u \in Requests, NEW k \in Keys
        PROVE  keyOwner'[k] = u <=> job'[u].locked /\ job'[u].key = k
    <3>1. CASE u = r
      BY <1>0, <2>1, <2>2, <2>3, <3>1 DEF LocksHeld
    <3>2. CASE u # r
      BY <1>0, <1>1, <2>1, <2>2, <2>3, <3>2 DEF LocksHeld
    <3> QED BY <3>1, <3>2
  <2> QED BY <1>0, <2>1, <2>4 DEF LocksHeld
<1>3. CASE \E how : Ends(r, how)
  <2>1. /\ job'[r] = NoJob
        /\ keyOwner' = IF job[r].locked THEN [keyOwner EXCEPT ![job[r].key] = NoRequest] ELSE keyOwner
    BY <1>0, <1>3 DEF Ends, TypeInv
  <2>2. job[r].key \in Keys
    BY <1>0 DEF JobTyped
  <2>3. \A k \in Keys : keyOwner'[k] = IF keyOwner[k] = r THEN NoRequest ELSE keyOwner[k]
    BY <1>0, <2>1, <2>2 DEF LocksHeld
  <2> QED BY <1>0, <1>1, <2>1, <2>2, <2>3, NoJobTyped DEF LocksHeld
<1>4. CASE ~LockKey(r) /\ ~ \E how : Ends(r, how)
  <2>1. ~Answering(r)
    BY <1>4, AnswersEnd
  <2>2. keyOwner' = keyOwner
    BY <1>4, <2>1 DEF Step, Answering, Start, GetNothing, GetLoads, GetSaves, SetLoads, SetSaves,
       Load, Check, Scan, ScanEnds, Resolve, StatBefore, GcNotDue, GcLoads, GcRemoves, GcEnds, Copy,
       CopyEnds, Retry, ClearOld, Install, StatAfter, Alone, Working
  <2>3. \/ ~job[r].locked /\ ~job'[r].locked
        \/ job'[r].locked = job[r].locked /\ job'[r].key = job[r].key
    <3>1. JobSteps(r) /\ ~Leaves(r) /\ ~Locks(r)
      BY <1>0, <1>4, JobStep DEF Locks, Leaves
    <3>2. CASE Starts(r)
      BY <1>0, <3>2, NoJobTyped DEF Starts, Moved, Placed, JobTyped, Fields
    <3>3. CASE BeginsFetch(r)
      BY <1>0, <3>3, NoJobTyped DEF BeginsFetch, JobTyped, Fields
    <3>4. CASE Keeps(r)
      BY <1>0, <3>4, KeptLocals DEF JobTyped
    <3> QED BY <3>1, <3>2, <3>3, <3>4 DEF JobSteps, Keeps
  <2> QED BY <1>0, <1>1, <2>2, <2>3 DEF LocksHeld
<1> QED BY <1>2, <1>3, <1>4

LEMMA PlaceStep == ASSUME TypeInv, NEW r \in Requests, Step(r) PROVE at' \in [Requests -> Places]
<1>1. at'[r] \in Places
  <2>1. at[r] \in Places
    BY DEF TypeInv
  <2> QED
    BY <2>1, JobStep DEF JobSteps, Starts, Loads, Saves, Locks, BeginsScan, Reuses, Misses, ReadsOne,
       EndsScan, Matches, BeginsFetch, Retries, ListsBefore, Goes, Collects, Copies, ListsAfter, Leaves,
       Moved, Places
<1> QED BY <1>1, StepMoves DEF TypeInv

\* Only an answer is a result
LEMMA ResultSteps ==
  ASSUME NEW r \in Requests, Step(r) PROVE result' = result \/ (Answering(r) /\ \E how : Ends(r, how))
BY AnswersEnd DEF Step, Answering, Start, GetNothing, GetLoads, GetSaves, SetLoads, SetSaves,
   Load, Check, Scan, ScanEnds, LockKey, Resolve, StatBefore, GcNotDue, GcLoads, GcRemoves, GcEnds,
   Copy, CopyEnds, Retry, ClearOld, Install, StatAfter, Alone, Working

LEMMA StepTyped == ASSUME Inv, NEW r \in Requests, Step(r) PROVE TypeInv'
<1>0. TypeInv
  BY DEF Inv
<1>1. DOMAIN job' = Requests /\ \A u \in Requests : JobTyped(job'[u])
  BY <1>0, JobTypes, StepMoves DEF TypeInv
<1>2. remote' \in [Keys -> Files] /\ newest' \in [Keys -> Files]
  BY <1>0, StepMoves DEF TypeInv, pods
<1>3. guard' \in Requests \cup {NoRequest} /\ gcGuard' \in Requests \cup {NoRequest}
  BY <1>0 DEF TypeInv, Step, Start, GetNothing, GetLoads, GetSaves, SetLoads, SetSaves, Load,
     SaveFails, Check, Scan, ScanEnds, AnswerFound, AnswerCacheOnly, AnswerRecent, LockKey, Resolve,
     AnswerMatched, ResolveFails, StatBefore, GcNotDue, GcLoads, GcRemoves, GcEnds, Copy, CopyEnds,
     Retry, ClearOld, Install, FetchFails, StatAfter, Answer, Alone, Working
<1>4. DOMAIN result' = Requests
  BY <1>0, ResultSteps DEF TypeInv, Ends
<1> QED BY <1>0, <1>1, <1>2, <1>3, <1>4, IndexSteps, DirSteps, StepLocks, PlaceStep DEF TypeInv

\* What a step may claim of a key was claimed before, is nothing at all, or is
\* what the fetch under its lock has found
LEMMA EntSteps ==
  ASSUME Inv, NEW r \in Requests, Step(r)
  PROVE  /\ job'[r].index \in {job[r].index, index, Unread}
         /\ \/ ListsAfter(r) \/ job'[r].ent = NoEntry
            \/ job'[r].key = job[r].key /\ job'[r].ent \in {job[r].ent, index[job[r].key]}
<1>0. DOMAIN job[r] = Fields /\ Placed(r)
  BY DEF Inv, TypeInv, JobTyped
<1> DEFINE Same == /\ job'[r].index \in {job[r].index, index, Unread}
                   /\ job'[r].ent \in {job[r].ent, index[job[r].key], NoEntry}
<1>1. Loads(r) \/ Saves(r) \/ Matches(r) => Same
  BY <1>0 DEF Loads, Saves, Matches, Fields
<1>2. BeginsScan(r) \/ Reuses(r) \/ Misses(r) \/ ReadsOne(r) \/ EndsScan(r) => Same
  BY <1>0 DEF BeginsScan, Reuses, Misses, ReadsOne, EndsScan, Fields
<1>3. Retries(r) \/ ListsBefore(r) \/ Goes(r) \/ Collects(r) \/ Copies(r) => Same
  BY <1>0 DEF Retries, ListsBefore, Goes, Collects, Copies, Fields
<1>4. ListsAfter(r) => job'[r].index = job[r].index
  BY <1>0 DEF ListsAfter, Fields
<1>5. Locks(r) => Same /\ job'[r].key = job[r].key
  BY <1>0 DEF Locks, Fields
<1>6. Starts(r) => job'[r].index = job[r].index /\ job'[r].ent = job[r].ent /\ job[r].ent = NoEntry
  BY <1>0, NoJobTyped DEF Starts, Moved, Placed, Fields
<1>7. BeginsFetch(r) \/ Leaves(r) => job'[r].index = Unread /\ job'[r].ent = NoEntry
  BY NoJobTyped DEF BeginsFetch, Leaves, JobTyped, Fields
<1>8. JobSteps(r)
  BY JobStep DEF Inv
<1> HIDE DEF Same
<1>9. CASE Keeps(r) /\ ~ListsAfter(r)
  <2>1. Same /\ job'[r].key = job[r].key
    BY <1>0, <1>1, <1>2, <1>3, <1>9, KeptLocals DEF Keeps
  <2> QED BY <2>1 DEF Same
<1>10. CASE Locks(r)
  BY <1>5, <1>10 DEF Same
<1>11. CASE ~Keeps(r) /\ ~Locks(r)
  BY <1>6, <1>7, <1>8, <1>11 DEF JobSteps, Keeps
<1>12. CASE ListsAfter(r)
  BY <1>4, <1>12
<1> QED BY <1>9, <1>10, <1>11, <1>12

LEMMA ClaimSteps ==
  ASSUME Inv, NEW r \in Requests, Step(r), NEW k \in Keys, NEW e \in Claims(k)'
  PROVE  \/ e \in Claims(k) \cup {NoEntry}
         \/ ListsAfter(r) /\ k = job[r].key /\ e = job'[r].ent
<1>0. TypeInv /\ \A u \in Requests : u # r => job'[u] = job[u]
  BY StepMoves DEF Inv
<1>1. CASE e = index'[k]
  BY <1>0, <1>1, IndexSteps
<1>2. ASSUME NEW u \in Requests, e = job'[u].index[k] PROVE e \in Claims(k) \cup {NoEntry}
  <2>1. CASE u # r
    BY <1>0, <1>2, <2>1 DEF Claims
  <2>2. CASE u = r
    BY <1>2, <2>2, EntSteps DEF Claims, Unread
  <2> QED BY <2>1, <2>2
<1>3. ASSUME NEW u \in Requests, e = job'[u].ent, job'[u].key = k
      PROVE  e \in Claims(k) \cup {NoEntry} \/ (ListsAfter(r) /\ k = job[r].key /\ e = job'[r].ent)
  <2>1. CASE u # r
    BY <1>0, <1>3, <2>1 DEF Claims
  <2>2. CASE u = r
    <3>1. ListsAfter(r) => job'[r].key = job[r].key
      BY NewClaim
    <3> QED BY <1>3, <2>2, <3>1, EntSteps DEF Claims
  <2> QED BY <2>1, <2>2
<1>4. \/ e = index'[k]
      \/ \E u \in Requests : e = job'[u].index[k]
      \/ \E u \in Requests : e = job'[u].ent /\ job'[u].key = k
  BY DEF Claims
<1> QED BY <1>1, <1>2, <1>3, <1>4

LEMMA ClaimsTyped ==
  ASSUME TypeInv, NEW k \in Keys, NEW e \in Claims(k) PROVE e \in Entries
BY DEF TypeInv, JobTyped, Claims

LEMMA NothingClaimed ==
  ASSUME TypeInv, NEW k \in Keys
  PROVE  Honest(NoEntry, k) /\ \A p \in Pods : NoEntry.sig[p] = 0 /\ newest[k][p] \in Nat
BY OfNone, Zeroes DEF TypeInv, Honest, Of, Files, Versions

LEMMA StepKnown == ASSUME Inv, NEW r \in Requests, Step(r) PROVE Known'
<1> SUFFICES ASSUME NEW k \in Keys, NEW e \in Claims(k)', NEW p \in Pods
             PROVE  e.sig[p] <= newest'[k][p]
  BY DEF Known
<1>0. TypeInv /\ newest' = newest
  BY StepMoves DEF Inv, pods
<1>1. CASE e \in Claims(k)
  BY <1>0, <1>1 DEF Inv, Known
<1>2. CASE e = NoEntry
  BY <1>0, <1>2, NothingClaimed
<1>3. CASE ListsAfter(r) /\ k = job[r].key /\ e = job'[r].ent
  BY <1>0, <1>3, NewClaim
<1> QED BY <1>1, <1>2, <1>3, ClaimSteps

LEMMA StepHonest == ASSUME Inv, NEW r \in Requests, Step(r) PROVE ClaimsHonest'
<1> SUFFICES ASSUME NEW k \in Keys, NEW e \in Claims(k)', NEW p \in Of(dir'[k]), ~e.changed
             PROVE  dir'[k][p] >= e.sig[p]
  BY DEF ClaimsHonest, Honest
<1>0. /\ TypeInv /\ Fetches(r) /\ dir[k] \in Files /\ job[r].got \in Files /\ job[r].before \in Files
      /\ p \in Pods /\ dir'[k][p] # 0
  BY DEF Inv, TypeInv, JobTyped, Of
<1>1. ASSUME e \in Claims(k) \cup {NoEntry}, ~Installed(r, k) PROVE dir'[k][p] >= e.sig[p]
  <2>1. Honest(e, k)
    BY <1>0, <1>1, NothingClaimed DEF Inv, ClaimsHonest
  <2>2. dir'[k][p] = dir[k][p]
    BY <1>0, <1>1, DirSteps DEF Taken
  <2> QED BY <1>0, <2>1, <2>2 DEF Honest, Of
<1>2. ASSUME e \in Claims(k) \cup {NoEntry}, Installed(r, k) PROVE dir'[k][p] >= e.sig[p]
  <2>1. k = job[r].key /\ dir'[k][p] = job[r].got[p] /\ p \in Of(job[r].got)
    BY <1>0, <1>2 DEF Installed, Of
  <2>2. CASE e = NoEntry
    <3>1. job[r].got[p] \in Nat
      BY <1>0 DEF Files, Versions
    <3> QED BY <1>0, <2>1, <2>2, <3>1, NothingClaimed
  <2>3. CASE e \in Claims(k)
    <3>1. e.sig[p] <= job[r].got[p]
      BY <1>0, <2>1, <2>3 DEF Fetches
    <3>2. e.sig[p] \in Nat /\ job[r].got[p] \in Nat
      BY <1>0, <2>3, ClaimsTyped DEF Entries, Files, Versions
    <3> QED BY <2>1, <3>1, <3>2
  <2> QED BY <1>2, <2>2, <2>3
<1>3. ASSUME ListsAfter(r), k = job[r].key, e = job'[r].ent PROVE dir'[k][p] >= e.sig[p]
  <2>1. at[r] = "installed" /\ at'[r] = "set"
    BY <1>3 DEF ListsAfter, Moved
  <2>2. dir'[k][p] = dir[k][p]
    BY <1>0, <2>1, DirSteps DEF Taken, Installed
  <2>3. dir'[k][p] = job[r].got[p] /\ p \in Of(job[r].got)
    BY <1>0, <1>3, <2>1, <2>2 DEF Fetches, Here, Of
  <2>4. e.sig = FetchedListing(r)
    BY <1>3, NewClaim
  <2>5. job[r].got[p] >= job[r].before[p] /\ FetchedListing(r)[p] = job[r].before[p]
    BY <1>0, <2>3 DEF Fetches, FetchedListing
  <2> QED BY <2>3, <2>4, <2>5
<1> QED BY <1>1, <1>2, <1>3, ClaimSteps

\* Nobody else changes the directory of a key whose lock is held, but gc
LEMMA OthersDir ==
  ASSUME Inv, NEW r \in Requests, Step(r), NEW u \in Requests, u # r, job[u].locked
  PROVE  /\ author'[job[u].key] = author[job[u].key]
         /\ \A p \in Pods : dir'[job[u].key][p] \in {0, dir[job[u].key][p]}
         /\ job[u].key \notin swept' =>
              job[u].key \notin swept /\ dir'[job[u].key] = dir[job[u].key]
<1> DEFINE k == job[u].key
<1>1. k \in Keys
  BY DEF Inv, TypeInv, JobTyped
<1>2. ~(job[r].locked /\ job[r].key = k)
  BY OwnersApart
<1>3. at[r] = "clearing" => job[r].locked
  BY DEF Inv, Placed, InFetch
<1>4. ~Installed(r, k) /\ (Taken(r, k) => k \in swept')
  BY <1>2, <1>3 DEF Installed, Taken
<1>5. (dir'[k] = dir[k] /\ author'[k] = author[k]) \/ Taken(r, k)
  BY <1>1, <1>4, DirSteps DEF Inv
<1>6. k \in swept => k \in swept'
  BY <1>2, SweptSteps
<1> HIDE DEF k
<1>7. author'[k] = author[k] /\ \A p \in Pods : dir'[k][p] \in {0, dir[k][p]}
  BY <1>5 DEF Taken
<1>8. k \notin swept' => k \notin swept /\ dir'[k] = dir[k]
  BY <1>4, <1>5, <1>6
<1> QED BY <1>7, <1>8 DEF k

\* Nor does a request change what it has got, but by a fetch
LEMMA OwnDir ==
  ASSUME Inv, NEW r \in Requests, Step(r), at'[r] \notin {"clearing", "installed"}
  PROVE  /\ author'[job[r].key] = author[job[r].key]
         /\ job[r].key \notin swept' => dir'[job[r].key] = dir[job[r].key]
<1>1. job[r].key \in Keys
  BY DEF Inv, TypeInv, JobTyped
<1> QED BY <1>1, DirSteps DEF Taken, Installed, Inv

----------------------------------------------------------------------------
(* Each part of the invariant, for the request that takes the step and for  *)
(* the others.                                                              *)

LEMMA OwnPlaced == ASSUME Inv, NEW r \in Requests, Step(r) PROVE Placed(r)'
<1>0. DOMAIN job[r] = Fields /\ Placed(r) /\ job[r].fetched \in BOOLEAN
  BY DEF Inv, TypeInv, JobTyped
<1> USE DEF Placed, InFetch, Moved
<1>1. CASE Starts(r) \/ Saves(r) \/ Locks(r)
  <2>1. Locks(r) => ~job[r].fetched
    BY <1>0 DEF Locks, LockKey
  <2> QED BY <1>0, <1>1, <2>1, NoJobTyped DEF Starts, Saves, Locks, Fields
<1>2. CASE Loads(r)
  BY <1>0, <1>2 DEF Loads, Fields
<1>3. CASE BeginsScan(r)
  BY <1>0, <1>3 DEF BeginsScan, Fields
<1>4. CASE Reuses(r) \/ Misses(r) \/ EndsScan(r)
  BY <1>0, <1>4 DEF Reuses, Misses, EndsScan, Fields
<1>5. CASE ReadsOne(r)
  BY <1>0, <1>5 DEF ReadsOne, Fields
<1>6. CASE Matches(r) \/ Goes(r) \/ Collects(r)
  BY <1>0, <1>6 DEF Matches, Goes, Collects, Fields
<1>7. CASE BeginsFetch(r) \/ Leaves(r)
  BY <1>0, <1>7, NoJobTyped DEF BeginsFetch, Leaves, JobTyped, Fields
<1>8. CASE Retries(r)
  BY <1>0, <1>8 DEF Retries, Fields
<1>9. CASE ListsBefore(r)
  BY <1>0, <1>9 DEF ListsBefore, Fields
<1>10. CASE Copies(r)
  BY <1>0, <1>10 DEF Copies, Fields
<1>11. CASE ListsAfter(r)
  BY <1>0, <1>11 DEF ListsAfter, Fields
<1>12. JobSteps(r)
  BY JobStep DEF Inv
<1> QED BY <1>1, <1>2, <1>3, <1>4, <1>5, <1>6, <1>7, <1>8, <1>9, <1>10, <1>11, <1>12 DEF JobSteps

LEMMA OthersPlaced ==
  ASSUME Inv, NEW r \in Requests, Step(r), NEW u \in Requests, u # r PROVE Placed(u)'
<1>1. Placed(u) /\ at'[u] = at[u] /\ job'[u] = job[u]
  BY StepMoves DEF Inv
<1> QED BY <1>1 DEF Placed

\* The listings are no newer than the files, and the second no older than the first
Listings(r) ==
  /\ \A p \in Pods : /\ job[r].list[p] <= newest[job[r].key][p]
                     /\ job[r].before[p] <= newest[job[r].key][p]
  /\ \A p \in Of(job[r].before) : job[r].before[p] >= job[r].list[p]

LEMMA OwnListings == ASSUME Inv, NEW r \in Requests, Step(r) PROVE Listings(r)'
<1>0. /\ DOMAIN job[r] = Fields /\ Listings(r) /\ Placed(r) /\ newest' = newest
      /\ job[r].key \in Keys /\ job[r].list \in Files /\ job[r].before \in Files
      /\ newest[job[r].key] \in Files /\ remote[job[r].key] \in Files
      /\ \A p \in Pods : remote[job[r].key][p] \in {0, newest[job[r].key][p]}
  BY StepMoves DEF Inv, TypeInv, JobTyped, Fetches, Listings, pods, RemoteNewest
<1>1. \A p \in Pods : newest[job[r].key][p] \in Nat
  BY <1>0 DEF Files, Versions
<1>2. CASE Starts(r) \/ Leaves(r)
  <2>1. job'[r].list = None /\ job'[r].before = None /\ job'[r].key \in Keys
    <3>1. CASE Starts(r)
      BY <1>0, <3>1, NoJobTyped DEF Starts, Moved, Placed, Fields
    <3>2. CASE Leaves(r)
      BY <3>2, NoJobTyped DEF Leaves, JobTyped
    <3> QED BY <1>2, <3>1, <3>2
  <2>2. \A p \in Pods : newest[job'[r].key][p] \in Nat
    BY <2>1 DEF Inv, TypeInv, Files, Versions
  <2> QED BY <1>0, <2>1, <2>2, OfNone, Zeroes DEF Listings
<1>3. CASE Matches(r)
  <2>1. /\ job'[r].list = remote[job[r].key] /\ job'[r].before = None /\ job'[r].key = job[r].key
    BY <1>0, <1>3 DEF Matches, Moved, Placed, Fields
  <2> QED BY <1>0, <1>1, <2>1, OfNone, Zeroes DEF Listings
<1>4. CASE BeginsFetch(r)
  <2>1. /\ job'[r].list = remote[job[r].key] /\ job'[r].before = None /\ job'[r].key = job[r].key
    BY <1>0, <1>4, NoJobTyped DEF BeginsFetch, JobTyped, Fields
  <2> QED BY <1>0, <1>1, <2>1, OfNone, Zeroes DEF Listings
<1>5. CASE ListsBefore(r)
  <2>1. /\ job'[r].list = job[r].list /\ job'[r].before = Stat(r, job[r].list)
        /\ job'[r].key = job[r].key
    BY <1>0, <1>5 DEF ListsBefore, Fields
  <2>2. /\ \A p \in Pods : Stat(r, job[r].list)[p] <= newest[job[r].key][p]
        /\ \A p \in Of(Stat(r, job[r].list)) : Stat(r, job[r].list)[p] >= job[r].list[p]
    BY <1>0, StatFacts DEF Listings
  <2> QED BY <1>0, <2>1, <2>2 DEF Listings
<1>6. CASE ListsAfter(r)
  <2>1. job'[r].list = job[r].list /\ job'[r].before = None /\ job'[r].key = job[r].key
    BY <1>0, <1>6 DEF ListsAfter, Fields
  <2> QED BY <1>0, <1>1, <2>1, OfNone, Zeroes DEF Listings
<1> DEFINE Same == /\ job'[r].list = job[r].list /\ job'[r].before = job[r].before
                   /\ job'[r].key = job[r].key
<1>7. Loads(r) \/ Saves(r) \/ Locks(r) => Same
  BY <1>0 DEF Loads, Saves, Locks, Fields
<1>8. BeginsScan(r) \/ Reuses(r) \/ Misses(r) \/ ReadsOne(r) \/ EndsScan(r) => Same
  BY <1>0 DEF BeginsScan, Reuses, Misses, ReadsOne, EndsScan, Fields
<1>9. Retries(r) \/ Goes(r) \/ Collects(r) \/ Copies(r) => Same
  BY <1>0 DEF Retries, Goes, Collects, Copies, Fields
<1>10. CASE Same
  BY <1>0, <1>10 DEF Listings
<1>11. JobSteps(r)
  BY JobStep DEF Inv
<1> HIDE DEF Same
<1> QED BY <1>2, <1>3, <1>4, <1>5, <1>6, <1>7, <1>8, <1>9, <1>10, <1>11 DEF JobSteps

\* No claim is newer than what has been copied
Covers(r) ==
  \A p \in Of(job[r].got) :
    /\ job[r].got[p] >= job[r].before[p]
    /\ \A e \in Claims(job[r].key) : e.sig[p] <= job[r].got[p]

LEMMA OwnCovers == ASSUME Inv, NEW r \in Requests, Step(r) PROVE Covers(r)'
<1>0. /\ DOMAIN job[r] = Fields /\ Covers(r) /\ Placed(r) /\ TypeInv
      /\ job[r].key \in Keys /\ job[r].got \in Files /\ job[r].before \in Files
      /\ newest[job[r].key] \in Files /\ remote[job[r].key] \in Files
      /\ \A p \in Pods : remote[job[r].key][p] \in {0, newest[job[r].key][p]}
  BY DEF Inv, TypeInv, JobTyped, Fetches, Covers, RemoteNewest
<1>1. CASE job'[r].got = None
  BY <1>1, OfNone DEF Covers
<1>2. CASE job'[r].got # None
  <2>1. at'[r] \in {"copying", "clearing", "installed"}
    BY <1>2, OwnPlaced DEF Placed
  <2>2. Goes(r) \/ Collects(r) \/ Copies(r)
    BY <2>1, JobStep DEF Inv, JobSteps, Starts, Loads, Saves, Locks, BeginsScan, Reuses, Misses,
       ReadsOne, EndsScan, Matches, BeginsFetch, Retries, ListsBefore, ListsAfter, Leaves, Moved
  <2>3. job'[r].key = job[r].key /\ job'[r].before = job[r].before
    BY <1>0, <2>2 DEF Goes, Collects, Copies, Fields
  <2>0. PICK k \in Keys : k = job[r].key
    BY <1>0
  <2>4. ASSUME NEW e \in Claims(k)' PROVE e \in Claims(k) \cup {NoEntry}
    <3>1. ~ListsAfter(r)
      BY <2>1 DEF ListsAfter, Moved
    <3> QED BY <2>4, <3>1, ClaimSteps
  <2>5. ASSUME NEW p \in Of(job'[r].got)
        PROVE  \/ p \in Of(job[r].got) /\ job'[r].got[p] = job[r].got[p]
               \/ job'[r].got[p] = newest[job[r].key][p]
    <3>1. CASE job'[r].got = job[r].got
      BY <2>5, <3>1
    <3>2. CASE \E q \in Pods : job'[r].got = [job[r].got EXCEPT ![q] = remote[job[r].key][q]]
      <4>1. PICK q \in Pods : job'[r].got = [job[r].got EXCEPT ![q] = remote[job[r].key][q]]
        BY <3>2
      <4> QED BY <1>0, <2>5, <4>1 DEF Of, Files
    <3>3. job[r].todo \subseteq Pods
      BY <1>0 DEF TypeInv, JobTyped
    <3>4. Goes(r) \/ Collects(r) => job'[r].got = job[r].got
      BY <1>0 DEF Goes, Collects, Fields
    <3>5. ASSUME Copies(r)
          PROVE \/ job'[r].got = job[r].got
                \/ \E q \in Pods : job'[r].got = [job[r].got EXCEPT ![q] = remote[job[r].key][q]]
      BY <1>0, <3>3, <3>5 DEF Copies, Fields
    <3> QED BY <2>2, <3>1, <3>2, <3>4, <3>5
  <2>6. ASSUME NEW p \in Of(job'[r].got)
        PROVE  /\ job'[r].got[p] >= job[r].before[p]
               /\ \A e \in Claims(job[r].key) \cup {NoEntry} : e.sig[p] <= job'[r].got[p]
    <3>1. p \in Pods
      BY DEF Of
    <3>2. CASE p \in Of(job[r].got) /\ job'[r].got[p] = job[r].got[p]
      <4>1. job[r].got[p] \in Nat
        BY <1>0, <3>1 DEF Files, Versions
      <4> QED BY <1>0, <3>1, <3>2, <4>1, NothingClaimed DEF Covers
    <3>3. CASE job'[r].got[p] = newest[job[r].key][p]
      <4>1. job[r].before[p] <= newest[job[r].key][p]
        BY <3>1 DEF Inv, Fetches
      <4>2. job[r].before[p] \in Nat /\ newest[job[r].key][p] \in Nat
        BY <1>0, <3>1 DEF Files, Versions
      <4> QED BY <1>0, <3>1, <3>3, <4>1, <4>2, NothingClaimed DEF Inv, Known
    <3> QED BY <2>5, <3>2, <3>3
  <2>7. Claims(k)' = Claims(job[r].key)' /\ Claims(k) = Claims(job[r].key)
    BY <2>0, <2>3 DEF Claims
  <2> QED BY <2>3, <2>4, <2>6, <2>7 DEF Covers
<1> QED BY <1>1, <1>2

LEMMA OwnFetches == ASSUME Inv, NEW r \in Requests, Step(r) PROVE Fetches(r)'
<1>0. /\ DOMAIN job[r] = Fields /\ Fetches(r) /\ Placed(r) /\ TypeInv /\ job[r].fetched \in BOOLEAN
      /\ JobSteps(r) /\ job[r].key \in Keys /\ job[r].got \in Files /\ job[r].before \in Files
  BY JobStep DEF Inv, TypeInv, JobTyped
<1>1. at'[r] = "installed" =>
        /\ \A p \in Pods : Here(r)'[p] \in {0, job'[r].got[p]}
        /\ job'[r].key \notin swept' => Here(r)' = job'[r].got
  <2>1. ASSUME at'[r] = "installed" PROVE Install(r) /\ job'[r] = job[r]
    BY <1>0, <2>1 DEF JobSteps, Starts, Loads, Saves, Locks, BeginsScan, Reuses, Misses, ReadsOne,
       EndsScan, Matches, BeginsFetch, Retries, ListsBefore, Goes, Collects, Copies, ListsAfter, Leaves,
       Moved
  <2>2. Install(r) => dir'[job[r].key] = job[r].got
    BY <1>0 DEF Install, TypeInv
  <2> QED BY <2>1, <2>2 DEF Here
<1>2. job'[r].fetched => \A p \in Of(job'[r].ent.sig) : job'[r].ent.sig[p] >= job'[r].list[p]
  <2>1. CASE ListsAfter(r)
    <3>1. job'[r].list = job[r].list
      BY <1>0, <2>1 DEF ListsAfter, Fields
    <3>2. \A p \in Of(job'[r].ent.sig) :
            /\ p \in Of(job[r].before) /\ job'[r].ent.sig[p] >= job[r].before[p]
            /\ job[r].before[p] >= job[r].list[p]
      BY <1>0, <2>1, NewClaim DEF Fetches
    <3>3. \A p \in Of(job'[r].ent.sig) :
            job'[r].ent.sig[p] \in Nat /\ job[r].before[p] \in Nat /\ job[r].list[p] \in Nat
      BY <1>0, <2>1, NewClaim DEF Entries, Files, Versions, Of, TypeInv, JobTyped
    <3> QED BY <3>1, <3>2, <3>3
  <2> DEFINE Same == /\ job'[r].fetched = job[r].fetched /\ job'[r].list = job[r].list
                     /\ job'[r].ent = job[r].ent
  <2>2. CASE Same
    BY <1>0, <2>2 DEF Fetches
  <2>3. CASE ~job'[r].fetched
    BY <2>3
  <2>4. Starts(r) \/ Locks(r) \/ BeginsFetch(r) \/ Leaves(r) => ~job'[r].fetched
    BY <1>0, OwnPlaced, NoJobTyped DEF Starts, Locks, BeginsFetch, Leaves, Placed, Moved
  <2>5. Matches(r) \/ Retries(r) \/ ListsBefore(r) \/ Goes(r) \/ Collects(r) \/ Copies(r) => ~job'[r].fetched
    BY <1>0, OwnPlaced DEF Matches, Retries, ListsBefore, Goes, Collects, Copies, Placed, Moved
  <2>6. Loads(r) => Same \/ ~job'[r].fetched
    <3>1. at'[r] \in {"got", "touching"} => ~job'[r].fetched
      BY OwnPlaced DEF Placed
    <3> QED BY <1>0, <3>1 DEF Loads, Moved, Fields
  <2>7. Saves(r) \/ BeginsScan(r) \/ Reuses(r) \/ Misses(r) \/ ReadsOne(r) \/ EndsScan(r) => Same
    BY <1>0 DEF Saves, BeginsScan, Reuses, Misses, ReadsOne, EndsScan, Fields
  <2> HIDE DEF Same
  <2> QED BY <1>0, <2>1, <2>2, <2>3, <2>4, <2>5, <2>6, <2>7 DEF JobSteps
<1> QED BY <1>1, <1>2, OwnListings, OwnCovers DEF Fetches, Listings, Covers

LEMMA OthersFetches ==
  ASSUME Inv, NEW r \in Requests, Step(r), NEW u \in Requests, u # r PROVE Fetches(u)'
<1>0. /\ TypeInv /\ Fetches(u) /\ Placed(u) /\ at'[u] = at[u] /\ job'[u] = job[u] /\ newest' = newest
      /\ job[u].got \in Files
  BY StepMoves DEF Inv, pods, TypeInv, JobTyped
<1>1. PICK k \in Keys : k = job[u].key
  BY <1>0 DEF TypeInv, JobTyped
<1>2. ASSUME NEW p \in Of(job[u].got), NEW e \in Claims(k)' PROVE e.sig[p] <= job[u].got[p]
  <2>1. job[u].got # None
    BY <1>2, OfNone
  <2>2. job[u].locked
    BY <1>0, <2>1 DEF Placed, InFetch
  <2>3. ~(ListsAfter(r) /\ k = job[r].key)
    <3>1. ListsAfter(r) => job[r].locked
      BY DEF ListsAfter, Moved, Inv, Placed, InFetch
    <3> QED BY <1>1, <2>2, <3>1, OwnersApart
  <2>4. CASE e \in Claims(k)
    BY <1>0, <1>1, <1>2, <2>4 DEF Fetches
  <2>5. CASE e = NoEntry
    <3>1. p \in Pods /\ job[u].got[p] \in Nat
      BY <1>0, <1>2 DEF Of, Files, Versions
    <3> QED BY <1>0, <1>1, <2>5, <3>1, NothingClaimed
  <2> QED BY <2>3, <2>4, <2>5, ClaimSteps
<1>3. Claims(k)' = Claims(job[u].key)'
  BY <1>0, <1>1 DEF Claims
<1>4. at[u] = "installed" =>
        /\ \A p \in Pods : Here(u)'[p] \in {0, job[u].got[p]}
        /\ job[u].key \notin swept' => Here(u)' = job[u].got
  <2>1. at[u] = "installed" => job[u].locked
    BY <1>0 DEF Placed, InFetch
  <2> QED BY <1>0, <2>1, OthersDir DEF Fetches, Here
<1> QED BY <1>0, <1>2, <1>3, <1>4 DEF Fetches

LEMMA OthersRead ==
  ASSUME Inv, NEW r \in Requests, Step(r), NEW u \in Requests, u # r PROVE Reads(u)' /\ Complete(u)'
<1>0. Reads(u) /\ Complete(u) /\ at'[u] = at[u] /\ job'[u] = job[u]
  BY StepMoves DEF Inv
<1>1. Reads(u)'
  BY <1>0, OthersDir DEF Reads
<1>2. Complete(u)'
  BY <1>0, OthersDir DEF Complete, Here
<1> QED BY <1>1, <1>2

LEMMA OwnReads == ASSUME Inv, NEW r \in Requests, Step(r) PROVE Reads(r)'
<1>0. DOMAIN job[r] = Fields /\ Reads(r) /\ JobTyped(job[r]) /\ TypeInv /\ JobSteps(r)
  BY JobStep DEF Inv, TypeInv, JobTyped
<1> USE DEF Moved
<1>1. CASE Starts(r)
  BY <1>0, <1>1 DEF Starts, Reads, Fields
<1>2. CASE Loads(r) \/ Saves(r) \/ Locks(r)
  BY <1>0, <1>2 DEF Loads, Saves, Locks, Reads, Fields
<1>3. CASE BeginsScan(r)
  <2>1. /\ at'[r] = "scanning" /\ job'[r].scanned = job[r].ent /\ job'[r].ent = job[r].ent
        /\ job'[r].loose = job[r].ent.changed /\ job'[r].seen = None /\ job'[r].from = {}
        /\ job'[r].todo = Of(job[r].ent.sig)
    BY <1>0, <1>3 DEF BeginsScan, Fields
  <2> QED BY <2>1, OfNone DEF Reads
<1>4. CASE Reuses(r)
  BY <1>0, <1>4 DEF Reuses, SameFingerprint, Reads
<1>5. CASE Misses(r)
  <2>1. /\ at'[r] = "scanned" /\ job'[r].scanned = NoEntry /\ job'[r].loose = FALSE
        /\ job'[r].seen = None /\ job'[r].from = job[r].from /\ at[r] = "got"
    BY <1>0, <1>5 DEF Misses, Fields
  <2> QED BY <1>0, <2>1, OfNone DEF Reads
<1>6. CASE ReadsOne(r)
  <2>1. PICK p \in job[r].todo :
          job'[r] = [job[r] EXCEPT
            !.todo = @ \ {p}, !.seen = [job[r].seen EXCEPT ![p] = Here(r)[p]],
            !.from = IF p \in Of(Here(r)) THEN @ \cup {author[job[r].key]} ELSE @]
    BY <1>6 DEF ReadsOne
  <2>2. /\ job'[r].todo = job[r].todo \ {p}
        /\ job'[r].seen = [job[r].seen EXCEPT ![p] = Here(r)[p]]
        /\ job'[r].from \subseteq job[r].from \cup {author[job[r].key]}
        /\ job'[r].scanned = job[r].scanned /\ job'[r].ent = job[r].ent
        /\ job'[r].loose = job[r].loose /\ job'[r].locked = job[r].locked
        /\ job'[r].key = job[r].key
    BY <1>0, <2>1 DEF Fields
  <2>3. at[r] = "scanning" /\ at'[r] = "scanning"
    BY <1>6 DEF ReadsOne
  <2>4. /\ job[r].scanned = job[r].ent /\ job[r].todo \subseteq Of(job[r].ent.sig)
        /\ p \in Pods /\ job[r].key \in Keys /\ job[r].seen \in Files
    BY <1>0, <2>3 DEF Reads, JobTyped
  <2>5. Here(r)[p] # 0 => job[r].loose \/ Here(r)[p] >= job[r].scanned.sig[p]
    <3>1. Honest(job[r].ent, job[r].key)
      BY <2>4 DEF Inv, ClaimsHonest, Claims
    <3> QED BY <1>0, <2>4, <3>1 DEF Honest, Here, Of, Reads
  <2>6. \A q \in Of(job'[r].seen) :
          q \in Of(job[r].scanned.sig) /\ (job[r].loose \/ job'[r].seen[q] >= job[r].scanned.sig[q])
    <3> SUFFICES ASSUME NEW q \in Of(job'[r].seen)
                 PROVE  q \in Of(job[r].scanned.sig)
                        /\ (job[r].loose \/ job'[r].seen[q] >= job[r].scanned.sig[q])
      OBVIOUS
    <3>1. q \in Pods /\ job'[r].seen[q] = IF q = p THEN Here(r)[p] ELSE job[r].seen[q]
      BY <2>2, <2>4 DEF Of, Files
    <3>2. CASE q = p
      BY <2>1, <2>4, <2>5, <3>1, <3>2 DEF Of
    <3>3. CASE q # p
      BY <1>0, <3>1, <3>3 DEF Reads, Of
    <3> QED BY <3>2, <3>3
  <2>7. author'[job[r].key] = author[job[r].key]
    BY <2>3, OwnDir
  <2> QED BY <1>0, <2>2, <2>3, <2>4, <2>6, <2>7 DEF Reads
<1>7. CASE EndsScan(r)
  BY <1>0, <1>7 DEF EndsScan, Reads, Fields
<1>8. CASE Matches(r)
  BY <1>0, <1>8 DEF Matches, Reads, Fields
<1>9. CASE BeginsFetch(r) \/ Leaves(r)
  <2>1. /\ at'[r] \in {"stat", "done"} /\ job'[r].scanned = NoEntry /\ job'[r].loose = FALSE
        /\ job'[r].seen = None /\ job'[r].from = {}
    BY <1>9, NoJobTyped DEF BeginsFetch, Leaves, JobTyped, Fields
  <2> QED BY <2>1, OfNone DEF Reads
<1>10. CASE Retries(r) \/ ListsBefore(r) \/ Goes(r) \/ Collects(r)
  BY <1>0, <1>10 DEF Retries, ListsBefore, Goes, Collects, Reads, Fields
<1>11. CASE Copies(r)
  BY <1>0, <1>11 DEF Copies, Reads, Fields
<1>12. CASE ListsAfter(r)
  BY <1>0, <1>12 DEF ListsAfter, Reads, Fields
<1> QED BY <1>0, <1>1, <1>2, <1>3, <1>4, <1>5, <1>6, <1>7, <1>8, <1>9, <1>10, <1>11, <1>12 DEF JobSteps

LEMMA OwnComplete == ASSUME Inv, NEW r \in Requests, Step(r) PROVE Complete(r)'
<1>0. DOMAIN job[r] = Fields /\ Reads(r) /\ Complete(r) /\ JobTyped(job[r]) /\ TypeInv /\ JobSteps(r)
  BY JobStep DEF Inv, TypeInv, JobTyped
<1> SUFFICES ASSUME job'[r].locked, job'[r].key \notin swept', at'[r] \in {"set", "setting", "scanning"}
             PROVE  /\ Of(job'[r].ent.sig) \subseteq Of(Here(r)')
                    /\ at'[r] = "scanning" =>
                         Of(job'[r].ent.sig) \ job'[r].todo \subseteq Of(job'[r].seen)
  BY DEF Complete
<1>1. Loads(r) \/ BeginsScan(r) \/ ReadsOne(r) \/ ListsAfter(r)
  BY <1>0 DEF JobSteps, Starts, Saves, Locks, Reuses, Misses, EndsScan, Matches, BeginsFetch, Retries,
     ListsBefore, Goes, Collects, Copies, Leaves, Moved
<1>2. job'[r].key = job[r].key /\ job[r].locked
  BY <1>0, <1>1, KeptLocals DEF Keeps
<1>3. Here(r)' = Here(r)
  BY <1>2, OwnDir DEF Here
<1>4. job[r].key \notin swept \/ BeginsScan(r)
  <2>1. Loads(r) \/ ReadsOne(r) \/ ListsAfter(r) => at[r] \notin {"got", "clearing"}
    BY DEF Loads, ReadsOne, ListsAfter, Moved
  <2> QED BY <1>1, <1>2, <2>1, SweptSteps
<1>5. CASE Loads(r)
  <2>1. at[r] = "set" /\ at'[r] = "setting" /\ job'[r].ent = job[r].ent
    BY <1>0, <1>5 DEF Loads, Moved, Fields
  <2>2. ~BeginsScan(r)
    BY <2>1 DEF BeginsScan, Moved
  <2> QED BY <1>0, <1>2, <1>3, <1>4, <2>1, <2>2 DEF Complete
<1>6. CASE BeginsScan(r)
  <2>1. job'[r].ent = job[r].ent /\ job'[r].todo = Of(job[r].ent.sig)
    BY <1>0, <1>6 DEF BeginsScan, Fields
  <2>2. Of(job[r].ent.sig) \subseteq Of(Here(r))
    <3>1. CASE FilesExist(r)
      BY <3>1 DEF FilesExist
    <3>2. CASE SetSaves(r) /\ at[r] = "setting"
      <4>1. job[r].key \notin swept
        BY <1>2, <3>2 DEF SetSaves
      <4> QED BY <1>0, <1>2, <3>2, <4>1 DEF Complete
    <3> QED BY <1>6, <3>1, <3>2 DEF BeginsScan, Moved
  <2> QED BY <1>3, <2>1, <2>2
<1>7. CASE ReadsOne(r)
  <2>1. PICK p \in job[r].todo :
          job'[r] = [job[r] EXCEPT
            !.todo = @ \ {p}, !.seen = [job[r].seen EXCEPT ![p] = Here(r)[p]],
            !.from = IF p \in Of(Here(r)) THEN @ \cup {author[job[r].key]} ELSE @]
    BY <1>7 DEF ReadsOne
  <2>2. /\ job'[r].todo = job[r].todo \ {p} /\ job'[r].ent = job[r].ent
        /\ job'[r].seen = [job[r].seen EXCEPT ![p] = Here(r)[p]]
    BY <1>0, <2>1 DEF Fields
  <2>3. at[r] = "scanning"
    BY <1>7 DEF ReadsOne, Moved
  <2>4. ~BeginsScan(r)
    BY <2>3 DEF BeginsScan, Moved
  <2>5. /\ Of(job[r].ent.sig) \subseteq Of(Here(r))
        /\ Of(job[r].ent.sig) \ job[r].todo \subseteq Of(job[r].seen)
    BY <1>0, <1>2, <1>4, <2>3, <2>4 DEF Complete
  <2>6. ASSUME NEW q \in Of(job[r].ent.sig), q \notin job'[r].todo PROVE q \in Of(job'[r].seen)
    <3>1. q \in Pods /\ job[r].seen \in Files
      BY <1>0 DEF Of, JobTyped
    <3>2. job'[r].seen[q] = IF q = p THEN Here(r)[q] ELSE job[r].seen[q]
      BY <2>2, <3>1 DEF Files
    <3> QED BY <2>2, <2>5, <2>6, <3>1, <3>2 DEF Of
  <2> QED BY <1>3, <2>2, <2>5, <2>6
<1>8. CASE ListsAfter(r)
  <2>1. at[r] = "installed" /\ at'[r] = "set"
    BY <1>8 DEF ListsAfter, Moved
  <2>2. ~BeginsScan(r)
    BY <2>1 DEF BeginsScan, Moved
  <2>3. Here(r) = job[r].got
    BY <1>4, <2>1, <2>2 DEF Inv, Fetches
  <2> QED BY <1>3, <1>8, <2>1, <2>3, NewClaim DEF Of
<1> QED BY <1>1, <1>5, <1>6, <1>7, <1>8

LEMMA StepInv == ASSUME Inv, NEW r \in Requests, Step(r) PROVE Inv'
<1>1. TypeInv' /\ LocksHeld' /\ Known' /\ ClaimsHonest'
  BY StepTyped, StepLocks, StepKnown, StepHonest
<1>2. RemoteNewest'
  BY StepMoves DEF Inv, RemoteNewest, pods
<1>3. ASSUME NEW u \in Requests PROVE Placed(u)' /\ Fetches(u)' /\ Reads(u)' /\ Complete(u)'
  <2>1. CASE u = r
    BY <2>1, OwnPlaced, OwnFetches, OwnReads, OwnComplete
  <2>2. CASE u # r
    BY <2>2, OthersPlaced, OthersFetches, OthersRead
  <2> QED BY <2>1, <2>2
<1> QED BY <1>1, <1>2, <1>3 DEF Inv

----------------------------------------------------------------------------
(* The pods, a crash and the theorems.                                      *)

LEMMA RemoteInv == ASSUME Inv, NEW k \in Keys, NEW p \in Pods, RemoteChanges(k, p) PROVE Inv'
<1> USE DEF Inv
<1>1. UNCHANGED <<index, dir, author, swept, guard, gcGuard, keyOwner, at, job, result>>
  BY DEF RemoteChanges, store, locks
<1>2. /\ remote \in [Keys -> Files] /\ newest \in [Keys -> Files]
      /\ \A u \in Requests : job[u].key \in Keys
  BY DEF TypeInv, JobTyped
<1>3. /\ remote' \in [Keys -> Files] /\ newest' \in [Keys -> Files]
      /\ \A l \in Keys, q \in Pods : /\ newest'[l][q] >= newest[l][q]
                                     /\ remote'[l][q] \in {0, newest'[l][q]}
  <2>1. CASE /\ newest[k][p] < MaxVersion
             /\ newest' = [newest EXCEPT ![k][p] = @ + 1]
             /\ remote' = [remote EXCEPT ![k][p] = newest'[k][p]]
    <3>1. newest[k][p] + 1 \in Versions
      BY <1>2, <2>1, CacheConfig DEF Files, Versions
    <3>2. newest'[k][p] = newest[k][p] + 1
      BY <1>2, <2>1 DEF Files
    <3>3. newest' \in [Keys -> Files] /\ remote' \in [Keys -> Files]
      BY <1>2, <2>1, <3>1, <3>2 DEF Files
    <3>4. ASSUME NEW l \in Keys, NEW q \in Pods
          PROVE  newest'[l][q] >= newest[l][q] /\ remote'[l][q] \in {0, newest'[l][q]}
      <4>1. newest[l][q] \in Nat
        BY <1>2, Zeroes DEF Files
      <4>2. CASE l = k /\ q = p
        BY <1>2, <2>1, <3>2, <4>1, <4>2 DEF Files
      <4>3. CASE ~(l = k /\ q = p)
        <5>1. newest'[l][q] = newest[l][q] /\ remote'[l][q] = remote[l][q]
          BY <1>2, <2>1, <4>3 DEF Files
        <5> QED BY <4>1, <5>1 DEF RemoteNewest
      <4> QED BY <4>2, <4>3
    <3> QED BY <3>3, <3>4
  <2>2. CASE remote' = [remote EXCEPT ![k][p] = 0] /\ newest' = newest
    <3>1. remote' \in [Keys -> Files]
      BY <1>2, <2>2, Zeroes DEF Files
    <3>2. \A l \in Keys, q \in Pods : newest[l][q] \in Nat /\ remote'[l][q] \in {0, remote[l][q]}
      BY <1>2, <2>2, Zeroes DEF Files
    <3> QED BY <1>2, <2>2, <3>1, <3>2 DEF RemoteNewest
  <2> QED BY <2>1, <2>2 DEF RemoteChanges
<1>4. TypeInv' /\ LocksHeld' /\ RemoteNewest'
  BY <1>1, <1>3 DEF TypeInv, LocksHeld, RemoteNewest
<1>5. \A l \in Keys : Claims(l)' = Claims(l)
  BY <1>1 DEF Claims
<1>6. Known'
  <2>1. ASSUME NEW l \in Keys, NEW e \in Claims(l), NEW q \in Pods PROVE e.sig[q] <= newest'[l][q]
    <3>1. e.sig[q] <= newest[l][q] /\ e \in Entries
      BY ClaimsTyped DEF Known
    <3>2. e.sig[q] \in Nat /\ newest[l][q] \in Nat /\ newest'[l][q] \in Nat
      BY <1>2, <1>3, <3>1, Zeroes DEF Entries, Files
    <3> QED BY <1>3, <3>1, <3>2
  <2> QED BY <1>5, <2>1 DEF Known
<1>7. ClaimsHonest'
  BY <1>1, <1>5 DEF ClaimsHonest, Honest
<1>8. ASSUME NEW u \in Requests PROVE Placed(u)' /\ Fetches(u)' /\ Reads(u)' /\ Complete(u)'
  <2>1. Placed(u)' /\ Reads(u)' /\ Complete(u)'
    BY <1>1 DEF Placed, Reads, Complete, Here
  <2>2. ASSUME NEW q \in Pods
        PROVE  job[u].list[q] <= newest'[job[u].key][q] /\ job[u].before[q] <= newest'[job[u].key][q]
    <3>1. job[u].list[q] \in Nat /\ job[u].before[q] \in Nat
      BY Zeroes DEF TypeInv, JobTyped, Files
    <3>2. newest[job[u].key][q] \in Nat /\ newest'[job[u].key][q] \in Nat
      BY <1>2, <1>3, Zeroes DEF Files
    <3> QED BY <1>2, <1>3, <3>1, <3>2 DEF Fetches
  <2>3. PICK l \in Keys : l = job[u].key
    BY <1>2
  <2>4. job[u].key' = job[u].key /\ Claims(l)' = Claims(l) /\ Here(u)' = Here(u)
    BY <1>1, <1>5 DEF Here
  <2>5. \A p_1 \in Of(job[u].got) : \A e \in Claims(job[u].key)' : e.sig[p_1] <= job[u].got[p_1]
    BY <1>1, <2>3, <2>4 DEF Fetches, Claims
  <2> QED BY <1>1, <2>1, <2>2, <2>4, <2>5 DEF Fetches
<1> QED BY <1>4, <1>6, <1>7, <1>8

LEMMA CrashInv == ASSUME Inv, Crash PROVE Inv'
<1> USE DEF Inv
<1>1. /\ UNCHANGED <<index, dir, author, swept, remote, newest, result>>
      /\ guard' = NoRequest /\ gcGuard' = NoRequest /\ keyOwner' = [k \in Keys |-> NoRequest]
      /\ job' = [u \in Requests |-> NoJob]
      /\ at' = [u \in Requests |-> IF at[u] \in {"new", "done"} THEN at[u] ELSE "dead"]
  BY DEF Crash, store, pods
<1>2. TypeInv'
  <2>1. at' \in [Requests -> Places]
    BY <1>1 DEF TypeInv, Places
  <2> QED BY <1>1, <2>1, NoJobTyped DEF TypeInv
<1>3. LocksHeld' /\ RemoteNewest'
  BY <1>1, NoJobTyped, CacheConfig DEF LocksHeld, RemoteNewest
<1>4. \A k \in Keys : Claims(k)' \subseteq Claims(k) \cup {NoEntry}
  BY <1>1, NoJobTyped DEF Claims, Unread
<1>5. Known' /\ ClaimsHonest'
  <2>1. ASSUME NEW k \in Keys
        PROVE  Honest(NoEntry, k) /\ \A p \in Pods : NoEntry.sig[p] <= newest[k][p]
    BY NothingClaimed DEF TypeInv
  <2> QED BY <1>1, <1>4, <2>1 DEF Known, ClaimsHonest, Honest
<1>6. ASSUME NEW u \in Requests PROVE Placed(u)' /\ Fetches(u)' /\ Reads(u)' /\ Complete(u)'
  <2>1. job'[u] = NoJob /\ at'[u] \in {"new", "done", "dead"}
    BY <1>1
  <2>2. Placed(u)'
    BY <2>1, NoJobTyped DEF Placed, InFetch
  <2>3. Reads(u)' /\ Complete(u)'
    BY <2>1, NoJobTyped, OfNone DEF Reads, Complete
  <2>4. NoJob.key \in Keys
    BY NoJobTyped DEF JobTyped
  <2>5. \A p \in Pods : 0 <= newest'[NoJob.key][p]
    <3>1. newest' = newest /\ newest \in [Keys -> Files]
      BY <1>1 DEF TypeInv
    <3>2. \A k \in Keys, p \in Pods : newest[k][p] \in Nat
      BY <3>1, Zeroes DEF Files
    <3>3. \A k \in Keys, p \in Pods : 0 <= newest[k][p]
      BY <3>2
    <3> QED BY <2>4, <3>1, <3>3
  <2>6. /\ \A p \in Pods : /\ job'[u].list[p] <= newest'[job'[u].key][p]
                          /\ job'[u].before[p] <= newest'[job'[u].key][p]
        /\ Of(job'[u].before) = {} /\ Of(job'[u].got) = {} /\ ~job'[u].fetched
    BY <2>1, <2>5, NoJobTyped, OfNone, Zeroes
  <2>7. Fetches(u)'
    BY <2>1, <2>6 DEF Fetches
  <2> QED BY <2>2, <2>3, <2>7
<1> QED BY <1>2, <1>3, <1>5, <1>6

LEMMA NextInv == Inv /\ [Next]_vars => Inv'
<1> SUFFICES ASSUME Inv, [Next]_vars PROVE Inv'
  OBVIOUS
<1>1. CASE UNCHANGED vars
  <2>1. UNCHANGED <<index, dir, author, swept, guard, gcGuard, keyOwner, remote, newest, at, job, result>>
    BY <1>1 DEF vars, store, locks, pods
  <2>2. TypeInv' /\ LocksHeld' /\ RemoteNewest'
    BY <2>1 DEF Inv, TypeInv, LocksHeld, RemoteNewest
  <2>3. Known' /\ ClaimsHonest'
    BY <2>1 DEF Inv, Known, ClaimsHonest, Honest, Claims
  <2>4. \A r \in Requests : Placed(r)' /\ Reads(r)' /\ Complete(r)'
    BY <2>1 DEF Inv, Placed, Reads, Complete, Here
  <2>5. \A r \in Requests : Fetches(r)'
    BY <2>1 DEF Inv, Fetches, Claims, Here
  <2> QED BY <2>2, <2>3, <2>4, <2>5 DEF Inv
<1> QED BY <1>1, StepInv, RemoteInv, CrashInv DEF Next, Resting

LEMMA Invariance == Spec => []Inv
BY InitInv, NextInv, PTL DEF Spec

\* Whatever get, set, gc, a refresh and a crash do to index.json and to the
\* directories of the keys, both stay of their types, and every request is at
\* a line of handle_extract with well-formed locals.
THEOREM CacheTypes == Spec => []TypeOK
<1>1. Inv => TypeOK
  BY DEF Inv, TypeInv, TypeOK, JobTyped
<1> QED BY <1>1, Invariance, PTL

\* CacheStore.set and gc write back an index they have read before, refresh_cache
\* renames before it saves, and the process may die in between: still no entry
\* of index.json is newer than the files in the directory of its key, unless it
\* was accepted with FILE_CHANGED_DURING_COPY.
THEOREM IndexHonest == Spec => []SignatureHonest
<1>1. Inv => SignatureHonest
  BY DEF Inv, ClaimsHonest, Claims, Honest, SignatureHonest
<1> QED BY <1>1, Invariance, PTL

\* handle_extract holds the lock of the key from the rename of the fetched
\* directory to the end of its scan, so that no other fetch comes in between
\* two files it reads.
THEOREM OneFetchPerScan == Spec => []ScanOfOneFetch
<1>1. Inv => ScanOfOneFetch
  <2> SUFFICES ASSUME Inv, NEW r \in Requests, at[r] = "scanning", job[r].locked
               PROVE  Cardinality(job[r].from) <= 1
    BY DEF ScanOfOneFetch
  <2>1. job[r].from = {} \/ job[r].from = {author[job[r].key]}
    BY DEF Inv, Reads
  <2>2. Cardinality(job[r].from) \in {0, 1}
    BY <2>1, FS_EmptySet, FS_Singleton
  <2> QED BY <2>2
<1> QED BY <1>1, Invariance, PTL

\* What refresh_cache put in place, or cache_files_exist found whole under the
\* lock, is all there when scan_logs comes to it: only CacheStore.gc, which
\* knows nothing of that lock, can have taken a file away.
THEOREM OnlyGcTakesFiles == Spec => []LostOnlyToGc
<1>1. Inv => LostOnlyToGc
  BY DEF Inv, Complete, LostOnlyToGc
<1> QED BY <1>1, Invariance, PTL

LEMMA FreshStep ==
  ASSUME Inv, Next, NEW r \in Requests,
         result[r] = "none", result'[r] \in {"matched", "fetched"}
  PROVE  job[r].loose \/ \A p \in Of(job[r].seen) : job[r].seen[p] >= job[r].list[p]
<1> USE DEF Inv
<1>1. result' # result
  OBVIOUS
<1>2. PICK u \in Requests : Step(u)
  BY <1>1 DEF Next, RemoteChanges, Crash, Resting, vars
<1>3. Answering(u) /\ \E how : Ends(u, how)
  BY <1>1, <1>2, ResultSteps
<1>4. u = r
  BY <1>3 DEF TypeInv, Ends
<1>5. \A how : Ends(r, how) => result'[r] = how
  BY DEF TypeInv, Ends
<1>6. AnswerMatched(r) \/ (AnswerFound(r) /\ job[r].fetched)
  BY <1>3, <1>4, <1>5 DEF Answering, SaveFails, AnswerFound, AnswerCacheOnly, AnswerRecent,
     ResolveFails, FetchFails, Answer
<1>7. /\ at[r] \in {"scanned", "matched"} /\ job[r].locked
      /\ \A p \in Of(job[r].ent.sig) : job[r].ent.sig[p] >= job[r].list[p]
  <2>1. CASE AnswerMatched(r)
    <3>1. at[r] = "matched" /\ job[r].list = job[r].ent.sig /\ job[r].locked
      BY <2>1 DEF AnswerMatched, Placed, InFetch, Reads
    <3>2. \A p \in Pods : job[r].list[p] \in Nat
      BY Zeroes DEF TypeInv, JobTyped, Files
    <3> QED BY <3>1, <3>2 DEF Of
  <2>2. CASE AnswerFound(r) /\ job[r].fetched
    BY <2>2 DEF AnswerFound, Placed, Fetches
  <2> QED BY <1>6, <2>1, <2>2
<1>8. CASE job[r].seen = None
  BY <1>8, OfNone
<1>9. CASE job[r].scanned.sig = job[r].ent.sig
  <2> SUFFICES ASSUME ~job[r].loose, NEW p \in Of(job[r].seen)
               PROVE  job[r].seen[p] >= job[r].list[p]
    OBVIOUS
  <2>1. p \in Pods /\ p \in Of(job[r].ent.sig) /\ job[r].seen[p] >= job[r].ent.sig[p]
    BY <1>9 DEF Reads, Of
  <2>2. job[r].seen \in Files /\ job[r].ent.sig \in Files /\ job[r].list \in Files
    BY DEF TypeInv, JobTyped, Entries
  <2>3. job[r].seen[p] \in Nat /\ job[r].ent.sig[p] \in Nat /\ job[r].list[p] \in Nat
    BY <2>1, <2>2, Zeroes DEF Files
  <2> QED BY <1>7, <2>1, <2>3
<1> QED BY <1>7, <1>8, <1>9 DEF Reads

\* Whoever asked the pods and answers "fetched" or "matched" has read nothing
\* older than the listing it was given, the scan it did before it took the lock
\* and reuses for an equal cache_entry_fingerprint included; the exception is an
\* entry accepted with FILE_CHANGED_DURING_COPY.
THEOREM AnswersAreFresh == Spec => FreshAnswer
<1>1. Inv /\ [Next]_vars =>
        [\A r \in Requests :
           result[r] = "none" /\ result'[r] \in {"matched", "fetched"} =>
             \/ job[r].loose
             \/ \A p \in Of(job[r].seen) : job[r].seen[p] >= job[r].list[p]]_vars
  BY FreshStep
<1> QED BY <1>1, Invariance, PTL DEF Spec, FreshAnswer
=============================================================================
