----------------------------- MODULE FileExport -----------------------------
(* File export: handle_file_export (src/src/export_tool/file_export.py) under *)
(* the lock of its destination, and files_export_api around it.  An export    *)
(* copies the files of every pod into a staging directory beside the          *)
(* destination, checks each pod's copy against a second stat, and renames the *)
(* staging directory over the destination, keeping the old one as a backup    *)
(* while it does so.  The files change on the pods meanwhile, any file        *)
(* operation may fail, the removal of the staging directory included, the     *)
(* process may crash, and a destination may lie inside another one            *)
(* (relative_dir "a" and "a/b"), which has its own lock.                      *)
(* The files of one pod are one unit: a version number, or a defect.          *)
EXTENDS Integers, FiniteSets

CONSTANTS
  Exports,     \* the requests
  Dests,       \* the destinations asked for
  Outer,       \* a destination that contains ...
  Inner,       \* ... these
  PodCount,    \* the pods are 1 .. PodCount, in the order of their names
  CopyRetry,   \* options.copy_retry
  MaxChanges,  \* bound: how often the files of a pod change
  MaxCrashes,  \* bound: how often the process crashes
  Absent, NoExport

ASSUME ExportConfig ==
  /\ Inner \subseteq Dests \ {Outer} /\ Outer \in Dests
  /\ PodCount \in Nat \ {0} /\ CopyRetry \in Nat
  /\ MaxChanges \in Nat /\ MaxCrashes \in Nat
  /\ NoExport \notin Exports

VARIABLES
  dest,     \* the content of each destination
  part,     \* the content of each export's staging directory
  old,      \* the content of each export's backup
  inside,   \* what the directories inside that backup were when it was made
  owner,    \* who holds a destination's lock
  remote,   \* the version of the files of each pod
  at,       \* where an export is
  job,      \* its request and locals, and (no state of the code) what it found
  result,   \* what became of it
  crashes

disk == <<dest, part, old, inside>>
vars == <<disk, owner, remote, at, job, result, crashes>>

Pods == 1 .. PodCount
Missing == -1  \* no files of this pod
Short == -2    \* a truncated copy
Content == [Pods -> Missing .. MaxChanges \cup {Short}]
Empty == [p \in Pods |-> Missing]

ASSUME AbsentIsNoContent == Absent \notin Content

NoJob == [dst |-> Outer, policy |-> "none", plan |-> Empty, pod |-> 1, tries |-> 0,
          found |-> Absent]

Init ==
  /\ dest = [d \in Dests |-> Absent]
  /\ part = [e \in Exports |-> Absent]
  /\ old = [e \in Exports |-> Absent]
  /\ inside = [e \in Exports |-> Absent]
  /\ owner = [d \in Dests |-> NoExport]
  /\ remote = [p \in Pods |-> 0]
  /\ at = [e \in Exports |-> "new"]
  /\ job = [e \in Exports |-> NoJob]
  /\ result = [e \in Exports |-> "none"]
  /\ crashes = 0

Go(e, place) == at' = [at EXCEPT ![e] = place]
Put(f, x, content) == [f EXCEPT ![x] = content]

\* mkdir(parents=True) of something beside the destination d
WithParent(d) ==
  IF d \in Inner /\ dest[Outer] = Absent THEN Put(dest, Outer, Empty) ELSE dest

\* What lies inside a destination, and a directory that os.replace may overwrite
ExportsInside(d) == {e \in Exports : d = Outer /\ job[e].dst \in Inner}
DestsInside(d) == {i \in Inner : d = Outer}
Overwritable(d) ==
  \/ dest[d] = Absent
  \/ /\ dest[d] = Empty
     /\ \A i \in DestsInside(d) : dest[i] = Absent
     /\ \A e \in ExportsInside(d) : part[e] = Absent /\ old[e] = Absent

----------------------------------------------------------------------------
(* Entering                                                                 *)

Start(e) ==
  /\ at[e] = "new"
  /\ \E d \in Dests, policy \in {"reject", "replace"} :
       job' = [job EXCEPT ![e].dst = d, ![e].policy = policy]
  /\ Go(e, "waiting")
  /\ UNCHANGED <<disk, owner, remote, result, crashes>>

Lock(e) ==
  /\ at[e] = "waiting"
  /\ owner[job[e].dst] = NoExport
  /\ owner' = [owner EXCEPT ![job[e].dst] = e]
  /\ job' = [job EXCEPT ![e].found = dest[job[e].dst]]
  /\ Go(e, "locked")
  /\ UNCHANGED <<disk, remote, result, crashes>>

\* The with block ends and the endpoint answers.  files_export_api has no
\* clause for ServiceError: the client sees INTERNAL_ERROR, whatever was raised.
End(e, outcome) ==
  /\ owner' = [owner EXCEPT ![job[e].dst] = NoExport]
  /\ Go(e, "done")
  /\ result' = [result EXCEPT ![e] = outcome]
  /\ UNCHANGED <<remote, job, crashes>>

\* What a removal that stops half way leaves of a directory, and what one whose
\* errors are ignored may leave: nothing, some of it, or all of it
Remains(content) == {c \in Content : \A p \in Pods : c[p] \in {content[p], Missing}}
Leftovers(content) == {Absent} \cup (IF content = Absent THEN {} ELSE Remains(content))

\* except Exception: shutil.rmtree(staging, ignore_errors=True), and the endpoint
\* answers
Fail(e) ==
  /\ \E left \in Leftovers(part[e]) : part' = Put(part, e, left)
  /\ End(e, "INTERNAL_ERROR")

RefusesNothing(e) == FALSE  \* mutant: the policy is not looked at

RefusesExisting(e) ==
  /\ dest[job[e].dst] # Absent /\ job[e].policy = "reject"

\* EXPORT_TARGET_EXISTS, before anything is staged
Refuse(e) ==
  /\ at[e] = "locked" /\ RefusesExisting(e)
  /\ End(e, "INTERNAL_ERROR")
  /\ UNCHANGED disk

Stage(e) ==
  /\ at[e] = "locked" /\ ~RefusesExisting(e)
  /\ dest' = WithParent(job[e].dst)
  /\ part' = Put(part, e, Empty)
  /\ Go(e, "planning")
  /\ UNCHANGED <<old, inside, owner, remote, job, result, crashes>>

\* mkdir raises, before the try that cleans up, its parents made or not
StageFails(e) ==
  /\ at[e] = "locked" /\ ~RefusesExisting(e)
  /\ dest' \in {dest, WithParent(job[e].dst)}
  /\ End(e, "INTERNAL_ERROR")
  /\ UNCHANGED <<part, old, inside>>

----------------------------------------------------------------------------
(* Copying                                                                  *)

Plan(e) ==
  /\ at[e] = "planning"
  /\ job' = [job EXCEPT ![e].plan = remote]
  /\ Go(e, "copying")
  /\ UNCHANGED <<disk, owner, remote, result, crashes>>

\* SSH, a pod, a path or a limit
PlanFails(e) == at[e] = "planning" /\ Fail(e) /\ UNCHANGED <<dest, old, inside>>

\* The local directory of the pod is made anew, and its parents if need be
Copied(e, v) ==
  /\ dest' = WithParent(job[e].dst)
  /\ part' = Put(part, e, Put(IF part[e] = Absent THEN Empty ELSE part[e], job[e].pod, v))

Copy(e) ==
  /\ at[e] = "copying"
  /\ \E v \in {remote[job[e].pod], Short} : Copied(e, v)
  /\ Go(e, "verifying")
  /\ UNCHANGED <<old, inside, owner, remote, job, result, crashes>>

MayRetryOnceMore(e) == job[e].tries <= CopyRetry  \* mutant: one attempt too many
MayRetry(e) == job[e].tries < CopyRetry

\* An attempt fails that is not the last one
CopyAgain(e) ==
  /\ at[e] = "copying" /\ MayRetry(e)
  /\ Copied(e, Missing)
  /\ job' = [job EXCEPT ![e].tries = @ + 1]
  /\ UNCHANGED <<old, inside, owner, at, remote, result, crashes>>

\* The last attempt fails, or any attempt's mkdir, which nothing catches
CopyFails(e) ==
  /\ at[e] = "copying"
  /\ dest' \in {dest, WithParent(job[e].dst)}
  /\ Fail(e)
  /\ UNCHANGED <<old, inside>>

\* _validate_transfer: the second stat agrees with the first and the local
\* files agree with both.  A change that leaves size and mtime alone is not a
\* change here.
SameAsListedOnly(e) ==  \* mutant: local sizes are not compared
  part[e] # Absent /\ remote[job[e].pod] = job[e].plan[job[e].pod]

SameSizeOnly(e) ==  \* mutant: the two stats are not compared
  part[e] # Absent /\ part[e][job[e].pod] >= 0

SameAsListed(e) ==
  /\ part[e] # Absent
  /\ remote[job[e].pod] = job[e].plan[job[e].pod]
  /\ part[e][job[e].pod] = remote[job[e].pod]

Verify(e) ==
  /\ at[e] = "verifying" /\ SameAsListed(e)
  /\ \/ /\ job[e].pod < PodCount
        /\ job' = [job EXCEPT ![e].pod = @ + 1, ![e].tries = 0]
        /\ Go(e, "copying")
     \/ job[e].pod = PodCount /\ Go(e, "committing") /\ UNCHANGED job
  /\ UNCHANGED <<disk, owner, remote, result, crashes>>

\* They differ, or the second stat fails
VerifyFails(e) == at[e] = "verifying" /\ Fail(e) /\ UNCHANGED <<dest, old, inside>>

----------------------------------------------------------------------------
(* _commit_staging, one file operation at a time                            *)

Commit(e) ==
  /\ at[e] = "committing"
  /\ dest' = WithParent(job[e].dst)
  /\ \/ /\ dest[job[e].dst] = Absent
        /\ Go(e, "renaming")
     \/ /\ dest[job[e].dst] # Absent /\ ~RefusesExisting(e)
        /\ Go(e, "backing up")
  /\ UNCHANGED <<part, old, inside, owner, remote, job, result, crashes>>

\* EXPORT_TARGET_EXISTS after all, or mkdir raises
CommitFails(e) ==
  /\ at[e] = "committing"
  /\ dest' \in {dest, WithParent(job[e].dst)}
  /\ Fail(e)
  /\ UNCHANGED <<old, inside>>

\* os.replace(staging, destination)
Renamed(e) ==
  /\ part[e] # Absent /\ Overwritable(job[e].dst)
  /\ dest' = Put(dest, job[e].dst, part[e])
  /\ part' = Put(part, e, Absent)

Rename(e) ==
  /\ at[e] = "renaming"
  /\ Renamed(e)
  /\ Go(e, "listing")
  /\ UNCHANGED <<old, inside, owner, remote, job, result, crashes>>

RenameFails(e) == at[e] = "renaming" /\ Fail(e) /\ UNCHANGED <<dest, old, inside>>

\* os.replace(destination, backup): what is inside goes along
Backup(e) ==
  LET d == job[e].dst IN
  /\ at[e] = "backing up" /\ dest[d] # Absent
  /\ dest' = [i \in Dests |-> IF i \in DestsInside(d) \cup {d} THEN Absent ELSE dest[i]]
  /\ part' = [x \in Exports |-> IF x \in ExportsInside(d) THEN Absent ELSE part[x]]
  /\ old' = [x \in Exports |->
               IF x = e THEN dest[d] ELSE IF x \in ExportsInside(d) THEN Absent ELSE old[x]]
  /\ inside' = Put(inside, e, [dest |-> [i \in DestsInside(d) |-> dest[i]],
                               part |-> [x \in ExportsInside(d) |-> part[x]],
                               old |-> [x \in ExportsInside(d) |-> old[x]]])
  /\ Go(e, "swapping")
  /\ UNCHANGED <<owner, remote, job, result, crashes>>

BackupFails(e) == at[e] = "backing up" /\ Fail(e) /\ UNCHANGED <<dest, old, inside>>

Swap(e) ==
  /\ at[e] = "swapping"
  /\ Renamed(e)
  /\ Go(e, "cleaning")
  /\ UNCHANGED <<old, inside, owner, remote, job, result, crashes>>

SwapFailsUnnoticed(e) ==  \* mutant: the backup is removed whether the swap works or not
  /\ at[e] = "swapping"
  /\ Go(e, "cleaning")
  /\ UNCHANGED <<disk, owner, remote, job, result, crashes>>

SwapFails(e) ==
  /\ at[e] = "swapping"
  /\ Go(e, "rolling back")
  /\ UNCHANGED <<disk, owner, remote, job, result, crashes>>

\* os.replace(backup, destination), which fails if the destination has been
\* filled meanwhile, and may fail anyway: then the backup stays
RolledBack(e) ==
  /\ Overwritable(job[e].dst)
  /\ dest' = [i \in Dests |-> IF i = job[e].dst THEN old[e]
                              ELSE IF i \in DOMAIN inside[e].dest THEN inside[e].dest[i] ELSE dest[i]]
  /\ \E left \in Leftovers(part[e]) :
       part' = [x \in Exports |-> IF x = e THEN left
                                  ELSE IF x \in DOMAIN inside[e].part THEN inside[e].part[x] ELSE part[x]]
  /\ old' = [x \in Exports |-> IF x = e THEN Absent
                               ELSE IF x \in DOMAIN inside[e].old THEN inside[e].old[x] ELSE old[x]]
  /\ inside' = Put(inside, e, Absent)
  /\ End(e, "INTERNAL_ERROR")

RollbackForgotten(e) ==  \* mutant: the backup is removed instead
  /\ at[e] = "rolling back"
  /\ old' = Put(old, e, Absent)
  /\ inside' = Put(inside, e, Absent)
  /\ Fail(e)
  /\ UNCHANGED dest

Rollback(e) ==
  /\ at[e] = "rolling back"
  /\ \/ RolledBack(e)
     \/ Fail(e) /\ UNCHANGED <<dest, old, inside>>

Clean(e) ==
  /\ at[e] = "cleaning"
  /\ old' = Put(old, e, Absent)
  /\ inside' = Put(inside, e, Absent)
  /\ Go(e, "listing")
  /\ UNCHANGED <<dest, part, owner, remote, job, result, crashes>>

\* The old files cannot all be removed: the export fails, but has happened
CleanFails(e) ==
  /\ at[e] = "cleaning"
  /\ \E left \in Leftovers(old[e]) \ {Absent} : old' = Put(old, e, left)
  /\ Fail(e)
  /\ UNCHANGED <<dest, inside>>

\* _build_file_items opens the files only if a preview was asked for
Succeed(e) == at[e] = "listing" /\ End(e, "ok") /\ UNCHANGED disk

PreviewFails(e) == at[e] = "listing" /\ Fail(e) /\ UNCHANGED <<dest, old, inside>>

----------------------------------------------------------------------------
RemoteChanges(p) ==
  /\ remote[p] < MaxChanges
  /\ remote' = [remote EXCEPT ![p] = @ + 1]
  /\ UNCHANGED <<disk, owner, at, job, result, crashes>>

\* The process dies and is restarted: locks and locals are gone, files stay
Crash ==
  /\ crashes < MaxCrashes
  /\ crashes' = crashes + 1
  /\ owner' = [d \in Dests |-> NoExport]
  /\ at' = [e \in Exports |-> IF at[e] \in {"new", "done"} THEN at[e] ELSE "dead"]
  /\ UNCHANGED <<disk, remote, job, result>>

Step(e) ==
  \/ Start(e) \/ Lock(e) \/ Refuse(e) \/ Stage(e) \/ StageFails(e) \/ Plan(e) \/ PlanFails(e)
  \/ Copy(e) \/ CopyAgain(e) \/ CopyFails(e) \/ Verify(e) \/ VerifyFails(e)
  \/ Commit(e) \/ CommitFails(e) \/ Rename(e) \/ RenameFails(e) \/ Backup(e) \/ BackupFails(e)
  \/ Swap(e) \/ SwapFails(e) \/ Rollback(e) \/ Clean(e) \/ CleanFails(e)
  \/ Succeed(e) \/ PreviewFails(e)

\* All requests are answered or died with the process
Resting ==
  /\ \A e \in Exports : at[e] \in {"done", "dead"}
  /\ UNCHANGED vars

Next ==
  \/ \E e \in Exports : Step(e)
  \/ \E p \in Pods : RemoteChanges(p)
  \/ Crash \/ Resting

Spec == Init /\ [][Next]_vars

----------------------------------------------------------------------------
(* Properties.                                                              *)

Places == {"new", "waiting", "locked", "planning", "copying", "verifying", "committing",
           "renaming", "backing up", "swapping", "rolling back", "cleaning", "listing",
           "done", "dead"}

TypeOK ==
  /\ dest \in [Dests -> Content \cup {Absent}]
  /\ part \in [Exports -> Content \cup {Absent}]
  /\ old \in [Exports -> Content \cup {Absent}]
  /\ owner \in [Dests -> Exports \cup {NoExport}]
  /\ remote \in [Pods -> 0 .. MaxChanges]
  /\ at \in [Exports -> Places]
  /\ result \in [Exports -> {"none", "ok", "INTERNAL_ERROR"}]
  /\ \A e \in Exports : job[e].tries \in 0 .. CopyRetry /\ job[e].pod \in Pods

Whole(content) == content \in [Pods -> 0 .. MaxChanges]

\* Nobody ever finds half an export at a destination: it holds the files of
\* every pod, none truncated, or does not exist at all, also after a failure
\* at any file operation and after a crash.
DestinationWhole == \A d \in Dests : dest[d] = Absent \/ Whole(dest[d])

\* A destination that has been filled is never lost: at every moment, be it in
\* the middle of a replacement or after a crash, it or a backup of it is there.
HasCopy(d) ==
  \/ Whole(dest[d])
  \/ \E e \in Exports : job[e].dst = d /\ Whole(old[e])
KeepsACopy == [][\A d \in Dests \ Inner : HasCopy(d) => HasCopy(d)']_vars

\* An export that is answered with an error, at whatever file operation it failed
\* and with whatever could not be cleaned up after it, has left its destination as
\* it found it, or filled it with what it listed, or, if its rollback failed,
\* has all that it found in its backup.
FailureKeepsOrFills ==
  [][\A e \in Exports :
       result'[e] = "INTERNAL_ERROR" /\ result[e] # "INTERNAL_ERROR" =>
         \/ dest'[job[e].dst] \in {job[e].found, job[e].plan}
         \/ dest'[job[e].dst] = Absent /\ old'[e] = job[e].found]_vars

\* Only an export that asked for it replaces what is there, and only while it
\* holds the lock.
RejectKeepsExisting ==
  [][\A d \in Dests :
       Whole(dest[d]) /\ dest'[d] # dest[d] =>
         \E e \in Exports : owner[d] = e /\ job[e].policy = "replace"]_vars

\* FILE_EXPORT.md, "Atomic behavior": an export that reports success has
\* delivered, for every pod, the files as they were listed.
SuccessDelivers ==
  [][\A e \in Exports :
       result'[e] = "ok" /\ result[e] # "ok" => dest'[job[e].dst] = job[e].plan]_vars

\* The same of the step that fills the destination, whatever happens to it
\* between that step and the answer.
CommitsWhole ==
  [][\A e \in Exports :
       at[e] \in {"renaming", "swapping"} /\ at'[e] \in {"listing", "cleaning"} =>
         dest'[job[e].dst] = job[e].plan]_vars
=============================================================================
