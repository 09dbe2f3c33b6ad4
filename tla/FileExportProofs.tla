--------------------------- MODULE FileExportProofs ---------------------------
(* What a file export keeps of its destination, for every number of exports,  *)
(* destinations and pods and whatever file operation fails or crash comes.    *)
(* A destination that does not lie inside another one (FILE_EXPORT.md's       *)
(* normal case) keeps a copy of its files whatever is nested in it; the rest  *)
(* of what an export promises holds when no destination lies inside another.  *)
EXTENDS FileExport, TLAPS

----------------------------------------------------------------------------
(* The invariant.                                                           *)

Anything == Content \cup {Absent}
Versioned == [Pods -> 0 .. MaxChanges]
JobType == [dst : Dests, policy : {"none", "reject", "replace"}, plan : Content,
            pod : Pods, tries : 0 .. CopyRetry, found : Anything]

TypeInv ==
  /\ dest \in [Dests -> Anything]
  /\ part \in [Exports -> Anything]
  /\ old \in [Exports -> Anything]
  /\ DOMAIN inside = Exports
  /\ owner \in [Dests -> Exports \cup {NoExport}]
  /\ remote \in [Pods -> 0 .. MaxChanges]
  /\ at \in [Exports -> Places]
  /\ result \in [Exports -> {"none", "ok", "INTERNAL_ERROR"}]
  /\ job \in [Exports -> JobType]

Holding == {"locked", "planning", "copying", "verifying", "committing", "renaming",
            "backing up", "swapping", "rolling back", "cleaning", "listing"}

\* Whoever is past Lock holds the lock of its destination
LocksHeld == \A e \in Exports : at[e] \in Holding => owner[job[e].dst] = e

\* Nothing has been asked of an export that has not started
NothingAsked == \A e \in Exports : at[e] = "new" => job[e].dst = Outer

\* What a backup holds of the directories inside it are destinations and
\* exports that lie inside another destination
Carried(e) ==
  /\ \A i \in DOMAIN inside[e].dest : i \in Inner /\ inside[e].dest[i] \in Anything
  /\ \A x \in DOMAIN inside[e].part : job[x].dst \in Inner /\ inside[e].part[x] \in Anything
  /\ \A x \in DOMAIN inside[e].old : job[x].dst \in Inner /\ inside[e].old[x] \in Anything
  /\ DOMAIN inside[e].part \subseteq Exports /\ DOMAIN inside[e].old \subseteq Exports
BackupsCarry == \A e \in Exports : at[e] \in {"swapping", "rolling back"} => Carried(e)

\* An export whose destination is not inside another one: its files are those it
\* listed, pod by pod, then all of them, then at the destination; its backup is
\* made once
Staged(e) ==
  /\ at[e] \in {"new", "waiting", "locked", "cleaning", "listing"} => part[e] = Absent
  /\ at[e] \in {"copying", "verifying", "committing", "renaming", "backing up", "swapping",
                "rolling back", "cleaning", "listing"} => job[e].plan \in Versioned
  /\ at[e] \in {"planning", "copying", "verifying"} => part[e] # Absent
  /\ at[e] \in {"new", "waiting", "locked", "planning"} => job[e].pod = 1
  /\ at[e] \in {"copying", "verifying"} =>
       \A p \in Pods : p < job[e].pod => part[e][p] = job[e].plan[p]
  /\ at[e] \in {"committing", "renaming", "backing up", "swapping"} => part[e] = job[e].plan
  /\ at[e] # "new" => job[e].policy # "none"
  /\ at[e] = "backing up" => job[e].policy = "replace"
  /\ at[e] \in {"new", "waiting", "locked", "planning", "copying", "verifying", "committing",
                "renaming", "backing up"} => old[e] = Absent
  /\ at[e] \in {"swapping", "rolling back"} /\ Inner = {} => Whole(old[e])
  /\ at[e] \in {"cleaning", "listing"} => dest[job[e].dst] = job[e].plan
AllStaged == \A e \in Exports : job[e].dst \notin Inner => Staged(e)

\* Nobody but its holder touches a locked destination: until it is backed up it is
\* what was found there, and then the backup is
FoundKept(e) ==
  /\ at[e] \in {"locked", "planning", "copying", "verifying", "committing", "renaming",
                "backing up"} => dest[job[e].dst] = job[e].found
  /\ at[e] \in {"swapping", "rolling back"} =>
       dest[job[e].dst] = Absent /\ old[e] = job[e].found
AllFound == Inner = {} => \A e \in Exports : FoundKept(e)

Inv ==
  /\ TypeInv /\ LocksHeld /\ NothingAsked /\ BackupsCarry /\ AllStaged /\ AllFound
  /\ Inner = {} => DestinationWhole

LEMMA Contents ==
  /\ Empty \in Content /\ Empty \notin Versioned
  /\ Versioned \subseteq Content /\ Absent \notin Versioned /\ Absent \notin Content
<1>1. Empty \in Content
  BY ExportConfig DEF Empty, Content, Missing
<1>2. Empty \notin Versioned
  <2>1. 1 \in Pods
    BY ExportConfig DEF Pods
  <2>2. SUFFICES ASSUME Empty \in Versioned PROVE FALSE
    OBVIOUS
  <2>3. Empty[1] \in 0 .. MaxChanges /\ Empty[1] = -1
    BY <2>1, <2>2 DEF Empty, Versioned, Missing
  <2> QED BY <2>3, ExportConfig
<1>3. Versioned \subseteq Content
  BY ExportConfig DEF Versioned, Content, Missing, Short
<1> QED BY <1>1, <1>2, <1>3, AbsentIsNoContent

\* What a removal leaves of a directory may be all of it
LEMMA LeftoversOnly ==
  ASSUME NEW content \in Anything
  PROVE  Leftovers(content) \subseteq Anything /\ content \in Leftovers(content)
BY DEF Leftovers, Remains, Anything, Content

LEMMA InitInv == Init => Inv
<1> SUFFICES ASSUME Init PROVE Inv
  OBVIOUS
<1>1. NoJob \in JobType
  BY Contents, ExportConfig DEF NoJob, JobType, Pods, Anything
<1>2. TypeInv
  BY <1>1, ExportConfig DEF Init, TypeInv, Anything, Places
<1>3. LocksHeld /\ NothingAsked /\ BackupsCarry
  BY DEF Init, LocksHeld, NothingAsked, BackupsCarry, Holding, NoJob
<1>4. AllStaged /\ AllFound
  BY DEF Init, AllStaged, Staged, AllFound, FoundKept, NoJob, Holding
<1>5. DestinationWhole
  BY DEF Init, DestinationWhole
<1> QED BY <1>2, <1>3, <1>4, <1>5 DEF Inv

----------------------------------------------------------------------------
(* The file operations.                                                     *)

\* mkdir(parents=True) makes at most the outer destination, and only if it is
\* not there
LEMMA ParentsOnly ==
  ASSUME TypeInv, NEW d \in Dests
  PROVE  /\ WithParent(d) \in [Dests -> Anything]
         /\ \A i \in Dests : (dest[i] # Absent \/ i # Outer) => WithParent(d)[i] = dest[i]
         /\ Inner = {} => WithParent(d) = dest
BY Contents, ExportConfig DEF WithParent, Put, TypeInv, Anything

\* A copy concerns the pod at hand only
LEMMA CopiedOnly ==
  ASSUME TypeInv, NEW e \in Exports, NEW v \in Missing .. MaxChanges \cup {Short}, Copied(e, v)
  PROVE  /\ dest' = WithParent(job[e].dst)
         /\ part' \in [Exports -> Anything]
         /\ \A u \in Exports : u # e => part'[u] = part[u]
         /\ part'[e] # Absent
         /\ part[e] # Absent => \A p \in Pods : p # job[e].pod => part'[e][p] = part[e][p]
<1> DEFINE before == IF part[e] = Absent THEN Empty ELSE part[e]
           after == [before EXCEPT ![job[e].pod] = v]
<1>1. before \in Content /\ job[e].pod \in Pods
  BY Contents DEF TypeInv, Anything, JobType
<1>2. after \in Content /\ \A p \in Pods : p # job[e].pod => after[p] = before[p]
  BY <1>1 DEF Content
<1>3. part' = [part EXCEPT ![e] = after] /\ dest' = WithParent(job[e].dst)
  BY DEF Copied, Put
<1> HIDE DEF after
<1> QED BY <1>2, <1>3, Contents DEF TypeInv, Anything

\* os.replace over the destination
LEMMA RenamedOnly ==
  ASSUME TypeInv, NEW e \in Exports, Renamed(e)
  PROVE  /\ dest' \in [Dests -> Anything] /\ part' \in [Exports -> Anything]
         /\ dest'[job[e].dst] = part[e] /\ part'[e] = Absent
         /\ dest[job[e].dst] \notin Versioned
         /\ \A d \in Dests : d # job[e].dst => dest'[d] = dest[d]
         /\ \A u \in Exports : u # e => part'[u] = part[u]
BY Contents DEF Renamed, Overwritable, Put, TypeInv, Anything, JobType

\* What goes along with a destination that is backed up lies inside it
LEMMA BackupOnly ==
  ASSUME TypeInv, NEW e \in Exports, Backup(e)
  PROVE  /\ dest' \in [Dests -> Anything] /\ part' \in [Exports -> Anything]
         /\ old' \in [Exports -> Anything] /\ DOMAIN inside' = Exports
         /\ dest[job[e].dst] # Absent /\ dest'[job[e].dst] = Absent
         /\ \A d \in Dests \ Inner : d # job[e].dst => dest'[d] = dest[d]
         /\ old'[e] = dest[job[e].dst]
         /\ \A u \in Exports : job[u].dst \notin Inner =>
              part'[u] = part[u] /\ (u # e => old'[u] = old[u])
         /\ \A u \in Exports : u # e => inside'[u] = inside[u]
         /\ \A i \in DOMAIN inside'[e].dest : i \in Inner /\ inside'[e].dest[i] \in Anything
         /\ \A x \in DOMAIN inside'[e].part : job[x].dst \in Inner /\ inside'[e].part[x] \in Anything
         /\ \A x \in DOMAIN inside'[e].old : job[x].dst \in Inner /\ inside'[e].old[x] \in Anything
         /\ DOMAIN inside'[e].part \subseteq Exports /\ DOMAIN inside'[e].old \subseteq Exports
         /\ Inner = {} => \A d \in Dests : d # job[e].dst => dest'[d] = dest[d]
<1> DEFINE d == job[e].dst
           ds == DestsInside(d)
           es == ExportsInside(d)
<1>1. d \in Dests /\ ds \subseteq Inner /\ es \subseteq Exports
      /\ (\A x \in es : job[x].dst \in Inner) /\ Inner \subseteq Dests
  BY ExportConfig DEF TypeInv, JobType, DestsInside, ExportsInside
<1>2. /\ dest[d] # Absent
      /\ dest' = [i \in Dests |-> IF i \in ds \cup {d} THEN Absent ELSE dest[i]]
      /\ part' = [x \in Exports |-> IF x \in es THEN Absent ELSE part[x]]
      /\ old' = [x \in Exports |-> IF x = e THEN dest[d] ELSE IF x \in es THEN Absent ELSE old[x]]
  BY DEF Backup
<1>3. inside' = [inside EXCEPT ![e] = [dest |-> [i \in ds |-> dest[i]],
                                       part |-> [x \in es |-> part[x]],
                                       old |-> [x \in es |-> old[x]]]]
  BY DEF Backup, Put
<1> HIDE DEF d, ds, es
<1>4. dest' \in [Dests -> Anything] /\ part' \in [Exports -> Anything]
      /\ old' \in [Exports -> Anything]
  BY <1>1, <1>2 DEF TypeInv, Anything
<1>5. /\ DOMAIN inside' = Exports
      /\ \A u \in Exports : u # e => inside'[u] = inside[u]
      /\ inside'[e] = [dest |-> [i \in ds |-> dest[i]], part |-> [x \in es |-> part[x]],
                       old |-> [x \in es |-> old[x]]]
  BY <1>3 DEF TypeInv
<1>6. /\ \A i \in DOMAIN inside'[e].dest : i \in Inner /\ inside'[e].dest[i] \in Anything
      /\ \A x \in DOMAIN inside'[e].part : job[x].dst \in Inner /\ inside'[e].part[x] \in Anything
      /\ \A x \in DOMAIN inside'[e].old : job[x].dst \in Inner /\ inside'[e].old[x] \in Anything
      /\ DOMAIN inside'[e].part \subseteq Exports /\ DOMAIN inside'[e].old \subseteq Exports
  BY <1>1, <1>5 DEF TypeInv
<1>7. /\ dest'[d] = Absent /\ old'[e] = dest[d]
      /\ \A i \in Dests \ Inner : i # d => dest'[i] = dest[i]
      /\ Inner = {} => \A i \in Dests : i # d => dest'[i] = dest[i]
      /\ \A u \in Exports : job[u].dst \notin Inner =>
           part'[u] = part[u] /\ (u # e => old'[u] = old[u])
  BY <1>1, <1>2
<1> QED BY <1>2, <1>4, <1>5, <1>6, <1>7 DEF d

\* What a rollback brings back beside its own backup lies inside a destination
LEMMA RolledBackOnly ==
  ASSUME TypeInv, NEW e \in Exports, Carried(e), RolledBack(e)
  PROVE  /\ dest' \in [Dests -> Anything] /\ part' \in [Exports -> Anything]
         /\ old' \in [Exports -> Anything] /\ DOMAIN inside' = Exports
         /\ dest[job[e].dst] \notin Versioned
         /\ dest'[job[e].dst] = old[e]
         /\ \A d \in Dests \ Inner : d # job[e].dst => dest'[d] = dest[d]
         /\ \A u \in Exports : job[u].dst \notin Inner /\ u # e =>
              part'[u] = part[u] /\ old'[u] = old[u]
         /\ \A u \in Exports : u # e => inside'[u] = inside[u]
<1>1. job[e].dst \in Dests
  BY DEF TypeInv, JobType
<1>2. dest[job[e].dst] \notin Versioned
  BY Contents DEF RolledBack, Overwritable
<1>3. dest' \in [Dests -> Anything]
  BY DEF RolledBack, TypeInv, Carried
<1>4. part' \in [Exports -> Anything] /\ old' \in [Exports -> Anything]
  <2>1. Leftovers(part[e]) \subseteq Anything
    BY LeftoversOnly DEF TypeInv
  <2> QED BY <2>1 DEF RolledBack, TypeInv, Carried, Anything
<1>5. dest'[job[e].dst] = old[e]
  BY <1>1 DEF RolledBack
<1>6. \A d \in Dests \ Inner : d # job[e].dst => dest'[d] = dest[d]
  BY DEF RolledBack, Carried
<1>7. \A u \in Exports : job[u].dst \notin Inner /\ u # e => part'[u] = part[u] /\ old'[u] = old[u]
  BY DEF RolledBack, Carried
<1>8. DOMAIN inside' = Exports /\ \A u \in Exports : u # e => inside'[u] = inside[u]
  BY DEF RolledBack, Put, TypeInv
<1> QED BY <1>2, <1>3, <1>4, <1>5, <1>6, <1>7, <1>8

----------------------------------------------------------------------------
(* The steps.                                                               *)

\* What a failed step does
LEMMA FailOnly ==
  ASSUME TypeInv, NEW e \in Exports, Fail(e)
  PROVE  /\ part' \in [Exports -> Anything]
         /\ \A u \in Exports : u # e => part'[u] = part[u]
         /\ owner' = [owner EXCEPT ![job[e].dst] = NoExport]
         /\ at' = [at EXCEPT ![e] = "done"] /\ job' = job /\ remote' = remote
         /\ result' = [result EXCEPT ![e] = "INTERNAL_ERROR"]
<1>1. Leftovers(part[e]) \subseteq Anything
  BY LeftoversOnly DEF TypeInv
<1> QED BY <1>1 DEF Fail, End, Go, Put, TypeInv

\* Every way in which an export fails without bringing its backup back; only if
\* it fails to remove the backup does that lose anything
Failing(e) ==
  /\ at[e] \in Holding /\ Fail(e) /\ UNCHANGED inside
  /\ dest' \in {dest, WithParent(job[e].dst)}
  /\ \/ old' = old
     \/ at[e] = "cleaning" /\ \E left \in Leftovers(old[e]) : old' = Put(old, e, left)

LEMMA StepKinds ==
  ASSUME TypeInv, NEW e \in Exports, Step(e)
  PROVE  \/ Start(e) \/ Lock(e) \/ Refuse(e) \/ Stage(e) \/ Plan(e) \/ Copy(e) \/ Verify(e)
         \/ CopyAgain(e) \/ Commit(e) \/ Rename(e) \/ Backup(e)
         \/ Swap(e) \/ SwapFails(e) \/ (Rollback(e) /\ RolledBack(e)) \/ Clean(e) \/ Succeed(e)
         \/ Failing(e)
<1>1. ASSUME \/ PlanFails(e) \/ VerifyFails(e) \/ RenameFails(e) \/ BackupFails(e)
             \/ PreviewFails(e) \/ CopyFails(e) \/ CommitFails(e)
             \/ (Rollback(e) /\ ~RolledBack(e))
      PROVE  Failing(e)
  BY <1>1 DEF PlanFails, VerifyFails, RenameFails, BackupFails, PreviewFails,
              CopyFails, CommitFails, Rollback, Failing, Holding
<1>2. ASSUME CleanFails(e) PROVE Failing(e)
  BY <1>2 DEF CleanFails, Failing, Holding
<1>3. ASSUME StageFails(e) PROVE Failing(e)
  <2>1. part' = Put(part, e, part[e])
    BY <1>3 DEF StageFails, Put, TypeInv
  <2>2. part[e] \in Leftovers(part[e])
    BY LeftoversOnly DEF TypeInv
  <2> QED BY <1>3, <2>1, <2>2 DEF StageFails, Fail, Failing, Holding
<1> QED BY <1>1, <1>2, <1>3 DEF Step

\* A step of e moves nobody else, and takes e's lock only when it is free
Moved(e) ==
  /\ \A u \in Exports : u # e => at'[u] = at[u] /\ job'[u] = job[u]
  /\ at[e] # "new" => job'[e].dst = job[e].dst /\ job'[e].policy = job[e].policy
  /\ at'[e] # "new"
  /\ \/ owner' = owner /\ (at'[e] \in Holding => at[e] \in Holding)
     \/ at[e] \in Holding /\ at'[e] = "done" /\ owner' = [owner EXCEPT ![job[e].dst] = NoExport]
     \/ at[e] = "waiting" /\ owner[job[e].dst] = NoExport
        /\ owner' = [owner EXCEPT ![job[e].dst] = e]

LEMMA MovedWithin ==
  ASSUME TypeInv, NEW e \in Exports, NEW place \in Places \ {"new"}, at[e] \in Holding,
         owner' = owner, at' = [at EXCEPT ![e] = place], DOMAIN job' = Exports,
         \A u \in Exports : u # e => job'[u] = job[u],
         job'[e].dst = job[e].dst, job'[e].policy = job[e].policy
  PROVE  Moved(e)
BY DEF Moved, TypeInv

LEMMA MovedOut ==
  ASSUME TypeInv, NEW e \in Exports, at[e] \in Holding, job' = job,
         owner' = [owner EXCEPT ![job[e].dst] = NoExport], at' = [at EXCEPT ![e] = "done"]
  PROVE  Moved(e)
BY DEF Moved, TypeInv

LEMMA StepOfOne == ASSUME TypeInv, NEW e \in Exports, Step(e) PROVE Moved(e)
<1>1. CASE Start(e)
  BY <1>1 DEF Start, Go, TypeInv, Holding, Moved
<1>2. CASE Lock(e)
  <2>1. /\ at[e] = "waiting" /\ owner[job[e].dst] = NoExport
        /\ owner' = [owner EXCEPT ![job[e].dst] = e] /\ at' = [at EXCEPT ![e] = "locked"]
        /\ job' = [job EXCEPT ![e].found = dest[job[e].dst]]
    BY <1>2 DEF Lock, Go
  <2>2. /\ \A u \in Exports : u # e => job'[u] = job[u]
        /\ job'[e].dst = job[e].dst /\ job'[e].policy = job[e].policy
    BY <2>1 DEF TypeInv, JobType
  <2> QED BY <2>1, <2>2 DEF TypeInv, Moved
<1>3. CASE Refuse(e) \/ Succeed(e)
  BY <1>3, MovedOut DEF Refuse, Succeed, End, Go, Holding
<1>4. CASE Stage(e) \/ Rename(e) \/ Backup(e) \/ Swap(e) \/ SwapFails(e) \/ Clean(e) \/ Copy(e)
  <2>1. PICK place \in Places \ {"new"} :
          at' = [at EXCEPT ![e] = place] /\ owner' = owner /\ job' = job /\ at[e] \in Holding
    BY <1>4 DEF Stage, Rename, Backup, Swap, SwapFails, Clean, Copy, Go, Places, Holding
  <2> QED BY <2>1, MovedWithin DEF TypeInv
<1>5. CASE Plan(e)
  BY <1>5, MovedWithin DEF Plan, Go, Places, Holding, TypeInv, JobType
<1>6. CASE Verify(e)
  <2>1. PICK place \in Places \ {"new"} :
          /\ at' = [at EXCEPT ![e] = place] /\ owner' = owner /\ at[e] \in Holding
          /\ job' = job \/ job' = [job EXCEPT ![e].pod = @ + 1, ![e].tries = 0]
    BY <1>6 DEF Verify, Go, Places, Holding
  <2>2. /\ DOMAIN job' = Exports /\ \A u \in Exports : u # e => job'[u] = job[u]
        /\ job'[e].dst = job[e].dst /\ job'[e].policy = job[e].policy
    BY <2>1 DEF TypeInv, JobType
  <2> QED BY <2>1, <2>2, MovedWithin
<1>7. CASE Failing(e)
  BY <1>7, FailOnly, MovedOut DEF Failing
<1>8. CASE CopyAgain(e)
  <2>1. at[e] = "copying" /\ UNCHANGED <<owner, at>> /\ job' = [job EXCEPT ![e].tries = @ + 1]
    BY <1>8 DEF CopyAgain
  <2> QED BY <2>1 DEF Moved, TypeInv, JobType
<1>9. CASE Commit(e)
  <2>1. PICK place \in {"renaming", "backing up"} :
          /\ at[e] = "committing" /\ at' = [at EXCEPT ![e] = place]
          /\ UNCHANGED <<owner, job>>
    BY <1>9 DEF Commit, Go
  <2> QED BY <2>1, MovedWithin DEF Places, Holding, TypeInv
<1>10. CASE Rollback(e) /\ RolledBack(e)
  <2>1. /\ at[e] = "rolling back" /\ job' = job /\ at' = [at EXCEPT ![e] = "done"]
        /\ owner' = [owner EXCEPT ![job[e].dst] = NoExport]
    BY <1>10 DEF Rollback, RolledBack, End, Go
  <2> QED BY <2>1, MovedOut DEF Holding
<1> QED
  BY <1>1, <1>2, <1>3, <1>4, <1>5, <1>6, <1>7, <1>8, <1>9, <1>10, StepKinds

LEMMA StepTyped == ASSUME Inv, NEW e \in Exports, Step(e) PROVE TypeInv'
<1> USE DEF Places
<1>0. TypeInv /\ job[e] \in JobType
  BY DEF Inv, TypeInv
<1>a. job[e].dst \in Dests /\ job[e].pod \in Pods
  BY <1>0 DEF JobType
<1>1. CASE Start(e)
  <2>1. job' \in [Exports -> JobType]
    <3>1. PICK d \in Dests, policy \in {"reject", "replace"} :
            job' = [job EXCEPT ![e].dst = d, ![e].policy = policy]
      BY <1>1 DEF Start
    <3> QED BY <1>0, <3>1 DEF TypeInv, JobType
  <2> QED BY <1>0, <1>1, <2>1 DEF Start, Go, TypeInv, disk
<1>2. CASE Lock(e)
  <2>1. job' \in [Exports -> JobType]
    <3>1. dest[job[e].dst] \in Anything
      BY <1>0, <1>a DEF TypeInv
    <3>2. job' = [job EXCEPT ![e].found = dest[job[e].dst]]
      BY <1>2 DEF Lock
    <3> QED BY <1>0, <3>1, <3>2 DEF TypeInv, JobType
  <2> QED BY <1>0, <1>2, <1>a, <2>1 DEF Lock, Go, TypeInv, disk
<1>3. CASE Refuse(e) \/ Succeed(e)
  BY <1>0, <1>3 DEF Refuse, Succeed, End, Go, TypeInv, disk
<1>4. CASE Stage(e)
  BY <1>0, <1>4, <1>a, ParentsOnly, Contents DEF Stage, Go, Put, TypeInv, Anything
<1>5. CASE Plan(e)
  <2>1. job' \in [Exports -> JobType]
    <3>1. remote \in Content
      BY <1>0, Contents DEF TypeInv, Versioned
    <3>2. job' = [job EXCEPT ![e].plan = remote]
      BY <1>5 DEF Plan
    <3> QED BY <1>0, <3>1, <3>2 DEF TypeInv, JobType
  <2> QED BY <1>0, <1>5, <2>1 DEF Plan, Go, TypeInv, disk
<1>6. CASE Failing(e)
  <2>1. dest' \in [Dests -> Anything]
    BY <1>0, <1>6, <1>a, ParentsOnly DEF Failing, TypeInv
  <2>2. old' \in [Exports -> Anything]
    <3>1. Leftovers(old[e]) \subseteq Anything
      BY <1>0, LeftoversOnly DEF TypeInv
    <3> QED BY <1>0, <1>6, <3>1 DEF Failing, Put, TypeInv
  <2> QED BY <1>0, <1>6, <2>1, <2>2, FailOnly DEF Failing, TypeInv
<1>7. CASE Copy(e)
  <2>1. PICK v \in {remote[job[e].pod], Short} : Copied(e, v)
    BY <1>7 DEF Copy
  <2>2. v \in Missing .. MaxChanges \cup {Short}
    <3>1. remote[job[e].pod] \in 0 .. MaxChanges
      BY <1>0, <1>a DEF TypeInv
    <3>2. 0 .. MaxChanges \subseteq Missing .. MaxChanges
      BY ExportConfig DEF Missing
    <3> QED BY <2>1, <3>1, <3>2
  <2>3. /\ at' = [at EXCEPT ![e] = "verifying"]
        /\ UNCHANGED <<old, inside, owner, remote, job, result>>
    BY <1>7 DEF Copy, Go
  <2>4. dest' \in [Dests -> Anything] /\ part' \in [Exports -> Anything]
    BY <1>0, <1>a, <2>1, <2>2, CopiedOnly, ParentsOnly
  <2> QED BY <1>0, <2>3, <2>4 DEF TypeInv
<1>8. CASE CopyAgain(e)
  <2>1. Copied(e, Missing) /\ job' = [job EXCEPT ![e].tries = @ + 1]
        /\ UNCHANGED <<owner, at, remote, result, crashes, old, inside>>
    BY <1>8 DEF CopyAgain
  <2>2. Missing \in Missing .. MaxChanges \cup {Short}
    BY ExportConfig DEF Missing
  <2>3. job[e].tries + 1 \in 0 .. CopyRetry
    BY <1>0, <1>8, ExportConfig DEF CopyAgain, MayRetry, JobType
  <2>4. job' \in [Exports -> JobType]
    BY <1>0, <2>1, <2>3 DEF TypeInv, JobType
  <2>5. dest' \in [Dests -> Anything] /\ part' \in [Exports -> Anything]
    BY <1>0, <1>a, <2>1, <2>2, CopiedOnly, ParentsOnly
  <2> QED BY <1>0, <2>1, <2>4, <2>5 DEF TypeInv
<1>9. CASE Verify(e)
  <2>1. job' \in [Exports -> JobType]
    <3>1. 0 \in 0 .. CopyRetry
      BY ExportConfig
    <3>2. CASE job' = job
      BY <1>0, <3>2 DEF TypeInv
    <3>3. CASE job[e].pod < PodCount /\ job' = [job EXCEPT ![e].pod = @ + 1, ![e].tries = 0]
      <4>1. job[e].pod + 1 \in Pods
        BY <1>a, <3>3, ExportConfig DEF Pods
      <4> QED BY <1>0, <3>1, <3>3, <4>1 DEF TypeInv, JobType
    <3> QED BY <1>9, <3>2, <3>3 DEF Verify
  <2> QED BY <1>0, <1>9, <2>1 DEF Verify, Go, TypeInv, disk
<1>10. CASE Commit(e)
  BY <1>0, <1>10, <1>a, ParentsOnly DEF Commit, Go, TypeInv
<1>11. CASE Rename(e) \/ Swap(e)
  <2>1. PICK place \in Places :
          at' = [at EXCEPT ![e] = place] /\ UNCHANGED <<old, inside, owner, remote, job, result>>
    BY <1>11 DEF Rename, Swap, Go
  <2>2. dest' \in [Dests -> Anything] /\ part' \in [Exports -> Anything]
    BY <1>0, <1>11, RenamedOnly DEF Rename, Swap
  <2> QED BY <1>0, <2>1, <2>2 DEF TypeInv
<1>12. CASE Backup(e)
  <2>1. UNCHANGED <<owner, remote, job, result>> /\ at' = [at EXCEPT ![e] = "swapping"]
    BY <1>12 DEF Backup, Go
  <2> QED BY <1>0, <1>12, <2>1, BackupOnly DEF TypeInv
<1>13. CASE SwapFails(e)
  BY <1>0, <1>13 DEF SwapFails, Go, TypeInv, disk
<1>14. CASE Rollback(e) /\ RolledBack(e)
  <2>1. Carried(e)
    BY <1>14 DEF Rollback, Inv, BackupsCarry
  <2>2. owner' = [owner EXCEPT ![job[e].dst] = NoExport] /\ at' = [at EXCEPT ![e] = "done"]
        /\ result' = [result EXCEPT ![e] = "INTERNAL_ERROR"] /\ UNCHANGED <<remote, job>>
    BY <1>14 DEF RolledBack, End, Go
  <2> QED BY <1>0, <1>14, <2>1, <2>2, RolledBackOnly DEF TypeInv
<1>15. CASE Clean(e)
  BY <1>0, <1>15 DEF Clean, Go, Put, TypeInv, Anything
<1> QED
  BY <1>0, <1>1, <1>2, <1>3, <1>4, <1>5, <1>6, <1>7, <1>8, <1>9, <1>10, <1>11, <1>12, <1>13,
     <1>14, <1>15, StepKinds

LEMMA StepLocks == ASSUME Inv, NEW e \in Exports, Step(e) PROVE LocksHeld'
<1>1. TypeInv /\ LocksHeld
  BY DEF Inv
<1> SUFFICES ASSUME NEW u \in Exports, at'[u] \in Holding PROVE owner'[job'[u].dst] = u
  BY DEF LocksHeld
<1>2. job[e].dst \in Dests /\ job[u].dst \in Dests
  BY <1>1 DEF TypeInv, JobType
<1>3. CASE u # e
  BY <1>1, <1>2, <1>3, StepOfOne, ExportConfig DEF TypeInv, LocksHeld, Moved
<1>4. CASE u = e
  <2>1. Moved(e)
    BY <1>1, StepOfOne
  <2>2. at[e] # "new" /\ job'[e].dst = job[e].dst
    BY <1>4, <2>1 DEF Moved, Holding
  <2>3. at'[e] # "done"
    BY <1>4 DEF Holding
  <2> QED BY <1>1, <1>2, <1>4, <2>1, <2>2, <2>3 DEF Moved, TypeInv, LocksHeld
<1> QED BY <1>3, <1>4

LEMMA StepAsks == ASSUME Inv, NEW e \in Exports, Step(e) PROVE NothingAsked'
BY StepOfOne DEF Inv, TypeInv, NothingAsked, Moved

\* What a step of e does to the directories of the others
LEMMA OthersSee ==
  ASSUME Inv, NEW e \in Exports, Step(e), NEW u \in Exports, u # e
  PROVE  /\ inside'[u] = inside[u]
         /\ job[u].dst \notin Inner => part'[u] = part[u] /\ old'[u] = old[u]
<1>0. TypeInv
  BY DEF Inv
<1>1. CASE Start(e) \/ Lock(e) \/ Refuse(e) \/ Plan(e) \/ Verify(e) \/ SwapFails(e) \/ Succeed(e)
           \/ Commit(e)
  BY <1>1 DEF Start, Lock, Refuse, Plan, Verify, SwapFails, Succeed, Commit, disk
<1>2. CASE Stage(e) \/ Clean(e)
  BY <1>0, <1>2 DEF Stage, Clean, Put, TypeInv
<1>3. CASE Copy(e) \/ CopyAgain(e)
  <2>1. UNCHANGED <<old, inside>> /\ \E v \in {remote[job[e].pod], Short, Missing} : Copied(e, v)
    BY <1>3 DEF Copy, CopyAgain
  <2> QED BY <1>0, <2>1 DEF Copied, Put, TypeInv
<1>4. CASE Rename(e) \/ Swap(e)
  BY <1>0, <1>4, RenamedOnly DEF Rename, Swap
<1>5. CASE Backup(e)
  BY <1>0, <1>5, BackupOnly
<1>6. CASE Rollback(e) /\ RolledBack(e)
  <2>1. Carried(e)
    BY <1>6 DEF Rollback, Inv, BackupsCarry
  <2> QED BY <1>0, <1>6, <2>1, RolledBackOnly
<1>7. CASE Failing(e)
  BY <1>0, <1>7, FailOnly DEF Failing, Put, TypeInv
<1> QED BY <1>0, <1>1, <1>2, <1>3, <1>4, <1>5, <1>6, <1>7, StepKinds

\* Where a step of e takes e, but for the steps of a commit that find a
\* destination to keep
LEMMA NextPlace ==
  ASSUME TypeInv, NEW e \in Exports, Step(e), ~Backup(e), ~SwapFails(e)
  PROVE  at'[e] \notin {"swapping", "rolling back"}
<1>1. CASE Start(e) \/ Lock(e) \/ Stage(e) \/ Plan(e)
  BY <1>1 DEF Start, Lock, Stage, Plan, Go, TypeInv
<1>6. CASE Copy(e) \/ Rename(e) \/ Swap(e) \/ Clean(e)
  <2>1. PICK place \in {"verifying", "listing", "cleaning"} : at' = [at EXCEPT ![e] = place]
    BY <1>6 DEF Copy, Rename, Swap, Clean, Go
  <2> QED BY <2>1 DEF TypeInv
<1>2. CASE Refuse(e) \/ Succeed(e) \/ (Rollback(e) /\ RolledBack(e))
  BY <1>2 DEF Refuse, Succeed, RolledBack, Go, End, TypeInv
<1>3. CASE Verify(e) \/ Commit(e)
  BY <1>3 DEF Verify, Commit, Go, TypeInv
<1>4. CASE CopyAgain(e)
  BY <1>4 DEF CopyAgain, TypeInv
<1>5. CASE Failing(e)
  <2>1. at' = [at EXCEPT ![e] = "done"]
    BY <1>5, FailOnly DEF Failing
  <2> QED BY <2>1 DEF TypeInv
<1> QED BY <1>1, <1>2, <1>3, <1>4, <1>5, <1>6, StepKinds

LEMMA StepCarries == ASSUME Inv, NEW e \in Exports, Step(e) PROVE BackupsCarry'
<1>0. TypeInv /\ BackupsCarry /\ NothingAsked /\ Moved(e)
  BY StepOfOne DEF Inv
\* a destination that lies inside another one keeps doing so
<1>1. \A x \in Exports : job[x].dst \in Inner => job'[x].dst \in Inner
  BY <1>0, ExportConfig DEF Moved, NothingAsked
<1>2. ASSUME NEW u \in Exports, Carried(u), inside'[u] = inside[u] PROVE Carried(u)'
  BY <1>1, <1>2 DEF Carried, Anything
<1>3. ASSUME NEW u \in Exports, u # e, at'[u] \in {"swapping", "rolling back"}
      PROVE  Carried(u)'
  BY <1>0, <1>2, <1>3, OthersSee DEF Moved, BackupsCarry
<1>4. ASSUME at'[e] \in {"swapping", "rolling back"} PROVE Carried(e)'
  <2>1. CASE Backup(e)
    BY <1>0, <1>1, <2>1, BackupOnly DEF Carried
  <2>2. CASE SwapFails(e)
    BY <1>0, <1>2, <2>2 DEF SwapFails, BackupsCarry, disk
  <2>3. CASE ~Backup(e) /\ ~SwapFails(e)
    BY <1>0, <1>4, <2>3, NextPlace DEF TypeInv
  <2> QED BY <2>1, <2>2, <2>3
<1> QED BY <1>3, <1>4 DEF BackupsCarry

\* A step of e leaves a destination alone that another export has filled and
\* not answered for yet
LEMMA OthersKept ==
  ASSUME Inv, NEW e \in Exports, Step(e), NEW d \in Dests \ Inner, dest[d] \in Versioned,
         job[e].dst # d \/ at[e] \notin Holding
  PROVE  dest'[d] = dest[d]
<1>0. TypeInv /\ job[e].dst \in Dests /\ dest[d] # Absent
  BY Contents DEF Inv, TypeInv, JobType
<1>1. CASE Start(e) \/ Lock(e) \/ Refuse(e) \/ Plan(e) \/ Verify(e) \/ SwapFails(e) \/ Succeed(e)
           \/ Clean(e)
  BY <1>1 DEF Start, Lock, Refuse, Plan, Verify, SwapFails, Succeed, Clean, disk
<1>2. CASE \/ Stage(e) \/ Copy(e) \/ CopyAgain(e) \/ Commit(e)
           \/ Failing(e)
  <2>1. dest' \in {dest, WithParent(job[e].dst)}
    BY <1>2 DEF Stage, Copy, CopyAgain, Copied, Commit, Failing
  <2> QED BY <1>0, <2>1, ParentsOnly
<1>3. CASE Rename(e) \/ Swap(e)
  BY <1>0, <1>3, RenamedOnly DEF Rename, Swap, Holding
<1>4. CASE Backup(e)
  <2>1. at[e] \in Holding
    BY <1>4 DEF Backup, Holding
  <2> QED BY <1>0, <1>4, <2>1, BackupOnly
<1>5. CASE Rollback(e) /\ RolledBack(e)
  <2>1. Carried(e) /\ at[e] \in Holding
    BY <1>5 DEF Rollback, Inv, BackupsCarry, Holding
  <2> QED BY <1>0, <1>5, <2>1, RolledBackOnly
<1> QED BY <1>0, <1>1, <1>2, <1>3, <1>4, <1>5, StepKinds

LEMMA OwnStaged ==
  ASSUME Inv, NEW e \in Exports, Step(e), job'[e].dst \notin Inner
  PROVE  Staged(e)'
<1>0. TypeInv /\ TypeInv' /\ Moved(e) /\ e \in DOMAIN at
  BY StepOfOne, StepTyped DEF Inv, TypeInv
<1>1. Staged(e) /\ (at[e] # "new" => job[e].dst \notin Inner)
  BY <1>0, ExportConfig DEF Moved, Inv, NothingAsked, AllStaged
<1>a. job[e].dst \in Dests /\ job[e].pod \in Pods /\ job[e].plan \in Content
  BY <1>0 DEF TypeInv, JobType
<1>2. CASE Start(e)
  <2>1. PICK d \in Dests, policy \in {"reject", "replace"} :
          job' = [job EXCEPT ![e].dst = d, ![e].policy = policy]
    BY <1>2 DEF Start
  <2>2. job'[e].policy # "none" /\ job'[e].pod = job[e].pod
    BY <1>0, <2>1 DEF TypeInv, JobType
  <2>3. at[e] = "new" /\ at'[e] = "waiting" /\ part' = part /\ old' = old
    BY <1>0, <1>2 DEF Start, Go, TypeInv, disk
  <2> QED BY <1>1, <2>2, <2>3 DEF Staged
<1>b. CASE Lock(e)
  <2>1. /\ UNCHANGED disk /\ at[e] = "waiting" /\ at'[e] = "locked"
        /\ job' = [job EXCEPT ![e].found = dest[job[e].dst]]
    BY <1>0, <1>b DEF Lock, Go, TypeInv
  <2>2. job'[e].pod = job[e].pod /\ job'[e].policy = job[e].policy
    BY <1>0, <2>1 DEF TypeInv, JobType
  <2> QED BY <1>1, <2>1, <2>2 DEF Staged, disk
<1>3. CASE Refuse(e) \/ Succeed(e)
  <2>1. job' = job /\ UNCHANGED disk /\ at[e] \in {"locked", "listing"} /\ at'[e] = "done"
    BY <1>0, <1>3 DEF Refuse, Succeed, End, Go, TypeInv
  <2> QED BY <1>1, <2>1 DEF Staged, disk
<1>4. CASE Stage(e)
  <2>1. /\ at[e] = "locked" /\ at'[e] = "planning" /\ part'[e] = Empty
        /\ old' = old /\ job' = job
    BY <1>0, <1>4 DEF Stage, Go, Put, TypeInv
  <2> QED BY <1>1, <2>1, Contents DEF Staged
<1>5. CASE Plan(e)
  <2>1. /\ at[e] = "planning" /\ at'[e] = "copying" /\ part' = part /\ old' = old
        /\ job'[e].plan = remote /\ job'[e].pod = job[e].pod /\ job'[e].policy = job[e].policy
    BY <1>0, <1>5 DEF Plan, Go, TypeInv, JobType, disk
  <2>2. remote \in Versioned
    BY <1>0 DEF TypeInv, Versioned
  <2>3. \A p \in Pods : ~(p < 1)
    BY DEF Pods
  <2> QED BY <1>1, <2>1, <2>2, <2>3 DEF Staged
<1>6. CASE Copy(e) \/ CopyAgain(e)
  <2>1. PICK v \in {remote[job[e].pod], Short, Missing} : Copied(e, v)
    BY <1>6 DEF Copy, CopyAgain
  <2>2. v \in Missing .. MaxChanges \cup {Short}
    <3>1. remote[job[e].pod] \in 0 .. MaxChanges
      BY <1>0, <1>a DEF TypeInv
    <3>2. 0 .. MaxChanges \subseteq Missing .. MaxChanges /\ Missing \in Missing .. MaxChanges
      BY ExportConfig DEF Missing
    <3> QED BY <2>1, <3>1, <3>2
  <2>3. /\ at[e] = "copying" /\ at'[e] \in {"copying", "verifying"} /\ old' = old
        /\ job'[e].plan = job[e].plan /\ job'[e].pod = job[e].pod
        /\ job'[e].policy = job[e].policy
    BY <1>0, <1>6 DEF Copy, CopyAgain, Go, TypeInv, JobType
  <2>4. \A p \in Pods : p < job[e].pod => part'[e][p] = job[e].plan[p]
    <3>1. \A p \in Pods : p < job[e].pod => p # job[e].pod
      BY <1>a DEF Pods
    <3>2. part[e] # Absent /\ \A p \in Pods : p < job[e].pod => part[e][p] = job[e].plan[p]
      BY <1>1, <2>3 DEF Staged
    <3> QED BY <1>0, <2>1, <2>2, <3>1, <3>2, CopiedOnly
  <2>5. part'[e] # Absent
    BY <1>0, <2>1, <2>2, CopiedOnly
  <2> QED BY <1>1, <2>3, <2>4, <2>5 DEF Staged
<1>7. CASE Verify(e)
  <2>1. /\ at[e] = "verifying" /\ part' = part /\ old' = old /\ part[e] # Absent
        /\ part[e][job[e].pod] = job[e].plan[job[e].pod]
    BY <1>7 DEF Verify, SameAsListed, disk
  <2>2. part[e] \in Content /\ job[e].plan \in Versioned
    BY <1>0, <1>1, <2>1 DEF TypeInv, Anything, Staged
  <2>3. \A p \in Pods : p < job[e].pod => part[e][p] = job[e].plan[p]
    BY <1>1, <2>1 DEF Staged
  <2>4. CASE job[e].pod < PodCount
    <3>1. /\ at'[e] = "copying" /\ job'[e].pod = job[e].pod + 1
          /\ job'[e].plan = job[e].plan /\ job'[e].policy = job[e].policy
      BY <1>0, <1>7, <2>4 DEF Verify, Go, TypeInv, JobType, Pods
    <3>2. \A p \in Pods : p < job[e].pod + 1 => part[e][p] = job[e].plan[p]
      <4>1. \A p \in Pods : p < job[e].pod + 1 => p < job[e].pod \/ p = job[e].pod
        BY <1>a DEF Pods
      <4> QED BY <2>1, <2>3, <4>1
    <3> QED BY <1>1, <2>1, <2>2, <3>1, <3>2 DEF Staged
  <2>5. CASE ~(job[e].pod < PodCount)
    <3>1. at'[e] = "committing" /\ job' = job /\ job[e].pod = PodCount
      BY <1>0, <1>7, <2>5 DEF Verify, Go, TypeInv
    <3>2. \A p \in Pods : part[e][p] = job[e].plan[p]
      <4>1. \A p \in Pods : p < job[e].pod \/ p = job[e].pod
        BY <3>1, ExportConfig DEF Pods
      <4> QED BY <2>1, <2>3, <4>1
    <3>3. part[e] = job[e].plan
      BY <1>a, <2>2, <3>2 DEF Content
    <3> QED BY <1>1, <2>1, <2>2, <3>1, <3>3 DEF Staged
  <2> QED BY <2>4, <2>5
<1>8. CASE Commit(e)
  <2>1. /\ at[e] = "committing" /\ at'[e] \in {"renaming", "backing up"}
        /\ UNCHANGED <<part, old, job>>
        /\ at'[e] = "backing up" => job[e].policy # "reject"
    BY <1>0, <1>8 DEF Commit, RefusesExisting, Go, TypeInv
  <2>2. job[e].policy \in {"none", "reject", "replace"}
    BY <1>0 DEF TypeInv, JobType
  <2> QED BY <1>1, <2>1, <2>2 DEF Staged
<1>9. CASE Rename(e) \/ Swap(e)
  <2>1. /\ Renamed(e) /\ UNCHANGED <<old, job>>
        /\ at[e] \in {"renaming", "swapping"} /\ at'[e] \in {"listing", "cleaning"}
    BY <1>0, <1>9 DEF Rename, Swap, Go, TypeInv
  <2> QED BY <1>0, <1>1, <2>1, RenamedOnly DEF Staged
<1>10. CASE Backup(e)
  <2>1. at[e] = "backing up" /\ at'[e] = "swapping" /\ job' = job
    BY <1>0, <1>10 DEF Backup, Go, TypeInv
  <2>2. part'[e] = part[e] /\ old'[e] = dest[job[e].dst] /\ dest[job[e].dst] # Absent
    BY <1>0, <1>1, <1>10, <2>1, BackupOnly
  <2>3. Inner = {} => Whole(old'[e])
    BY <1>a, <2>2 DEF Inv, DestinationWhole
  <2> QED BY <1>1, <2>1, <2>2, <2>3 DEF Staged, Whole
<1>11. CASE SwapFails(e)
  BY <1>0, <1>1, <1>11 DEF SwapFails, Go, TypeInv, Staged, disk, Whole
<1>12. CASE Clean(e)
  <2>1. /\ at[e] = "cleaning" /\ at'[e] = "listing" /\ UNCHANGED <<dest, part, job>>
    BY <1>0, <1>12 DEF Clean, Go, TypeInv
  <2> QED BY <1>1, <2>1 DEF Staged
<1>13. CASE Failing(e) \/ (Rollback(e) /\ RolledBack(e))
  <2>1. at'[e] = "done" /\ job' = job /\ at[e] \in Holding
    BY <1>0, <1>13, FailOnly DEF Failing, Rollback, RolledBack, End, Go, TypeInv, Holding
  <2>2. job[e].policy # "none"
    BY <1>1, <2>1 DEF Staged, Holding
  <2> QED BY <2>1, <2>2 DEF Staged
<1> QED
  BY <1>0, <1>b, <1>2, <1>3, <1>4, <1>5, <1>6, <1>7, <1>8, <1>9, <1>10, <1>11, <1>12, <1>13,
     StepKinds

LEMMA StepStaged == ASSUME Inv, NEW e \in Exports, Step(e) PROVE AllStaged'
<1>0. TypeInv /\ Moved(e) /\ LocksHeld
  BY StepOfOne DEF Inv
<1> SUFFICES ASSUME NEW u \in Exports, u # e, job'[u].dst \notin Inner PROVE Staged(u)'
  BY OwnStaged DEF AllStaged
<1>1. at'[u] = at[u] /\ job'[u] = job[u] /\ Staged(u) /\ job[u].dst \in Dests
  BY <1>0 DEF Moved, Inv, AllStaged, TypeInv, JobType
<1>2. part'[u] = part[u] /\ old'[u] = old[u]
  BY <1>1, OthersSee
<1>3. at[u] \in {"cleaning", "listing"} => dest'[job[u].dst] = job[u].plan
  <2> SUFFICES ASSUME at[u] \in {"cleaning", "listing"} PROVE dest'[job[u].dst] = job[u].plan
    OBVIOUS
  <2>1. dest[job[u].dst] = job[u].plan /\ job[u].plan \in Versioned
    BY <1>1 DEF Staged
  <2>2. job[e].dst # job[u].dst \/ at[e] \notin Holding
    BY <1>0 DEF LocksHeld, Holding
  <2> QED BY <1>1, <2>1, <2>2, OthersKept
<1> QED BY <1>1, <1>2, <1>3 DEF Staged, Whole

\* The steps that change a destination, when none lies inside another: each
\* leaves there a whole export, the one it replaced, or nothing
LEMMA DestinationSteps ==
  ASSUME Inv, Inner = {}, NEW e \in Exports, Step(e)
  PROVE  \/ dest' = dest
         \/ /\ Rename(e) \/ Swap(e)
            /\ dest'[job[e].dst] = job[e].plan /\ job[e].plan \in Versioned
            /\ \A d \in Dests : d # job[e].dst => dest'[d] = dest[d]
         \/ /\ Backup(e) /\ job[e].policy = "replace"
            /\ dest'[job[e].dst] = Absent
            /\ \A d \in Dests : d # job[e].dst => dest'[d] = dest[d]
         \/ /\ Rollback(e) /\ dest[job[e].dst] \notin Versioned /\ Whole(dest'[job[e].dst])
            /\ \A d \in Dests : d # job[e].dst => dest'[d] = dest[d]
<1>0. TypeInv /\ Staged(e) /\ job[e].dst \in Dests
  BY DEF Inv, AllStaged, TypeInv, JobType
<1>1. CASE \/ Start(e) \/ Lock(e) \/ Refuse(e) \/ Plan(e) \/ Verify(e) \/ SwapFails(e)
           \/ Succeed(e) \/ Clean(e)
  BY <1>1 DEF Start, Lock, Refuse, Plan, Verify, SwapFails, Succeed, Clean, disk
<1>2. CASE \/ Stage(e) \/ Copy(e) \/ CopyAgain(e) \/ Commit(e)
           \/ Failing(e)
  <2>1. dest' \in {dest, WithParent(job[e].dst)}
    BY <1>2 DEF Stage, Copy, CopyAgain, Copied, Commit, Failing
  <2> QED BY <1>0, <2>1, ParentsOnly
<1>3. CASE Rename(e) \/ Swap(e)
  <2>1. Renamed(e) /\ part[e] = job[e].plan /\ job[e].plan \in Versioned
    BY <1>0, <1>3 DEF Rename, Swap, Staged
  <2> QED BY <1>0, <1>3, <2>1, RenamedOnly
<1>4. CASE Backup(e)
  <2>1. job[e].policy = "replace"
    BY <1>0, <1>4 DEF Backup, Staged
  <2> QED BY <1>0, <1>4, <2>1, BackupOnly
<1>5. CASE Rollback(e) /\ RolledBack(e)
  <2>1. Carried(e) /\ Whole(old[e])
    BY <1>0, <1>5 DEF Rollback, Inv, BackupsCarry, Staged
  <2> QED BY <1>0, <1>5, <2>1, RolledBackOnly
<1> QED BY <1>0, <1>1, <1>2, <1>3, <1>4, <1>5, StepKinds

\* A step of e leaves every destination alone of which it does not hold the lock
LEMMA OthersFind ==
  ASSUME Inv, Inner = {}, NEW e \in Exports, Step(e), NEW u \in Exports, u # e, FoundKept(u)
  PROVE  FoundKept(u)'
<1>0. TypeInv /\ TypeInv' /\ Moved(e) /\ LocksHeld /\ job[u].dst \in Dests
  BY StepOfOne, StepTyped DEF Inv, TypeInv, JobType
<1>1. at'[u] = at[u] /\ job'[u] = job[u] /\ old'[u] = old[u]
  BY <1>0, OthersSee DEF Moved
<1>2. ASSUME at[u] \in Holding PROVE dest'[job[u].dst] = dest[job[u].dst]
  <2>1. \/ dest' = dest
        \/ at[e] \in Holding /\ \A d \in Dests : d # job[e].dst => dest'[d] = dest[d]
    BY DestinationSteps DEF Rename, Swap, Backup, Rollback, Holding
  <2>2. at[e] \in Holding => job[e].dst # job[u].dst
    BY <1>0, <1>2 DEF LocksHeld
  <2> QED BY <1>0, <2>1, <2>2
<1> QED BY <1>1, <1>2 DEF FoundKept, Holding

LEMMA OwnFound ==
  ASSUME Inv, Inner = {}, NEW e \in Exports, Step(e) PROVE FoundKept(e)'
<1>0. /\ TypeInv /\ FoundKept(e) /\ Staged(e)
      /\ job[e].dst \in Dests /\ e \in DOMAIN at
  BY DEF Inv, AllFound, AllStaged, TypeInv, JobType
<1>1. CASE Start(e) \/ Refuse(e) \/ Succeed(e) \/ Failing(e) \/ (Rollback(e) /\ RolledBack(e))
  <2>1. at'[e] \in {"waiting", "done"}
    BY <1>0, <1>1, FailOnly DEF Start, Refuse, Succeed, Failing, RolledBack, End, Go
  <2> QED BY <2>1 DEF FoundKept
<1>2. CASE Lock(e)
  <2>1. /\ at'[e] = "locked" /\ dest' = dest
        /\ job' = [job EXCEPT ![e].found = dest[job[e].dst]]
    BY <1>0, <1>2 DEF Lock, Go, disk
  <2>2. job'[e].dst = job[e].dst /\ job'[e].found = dest[job[e].dst]
    BY <1>0, <2>1 DEF TypeInv, JobType
  <2> QED BY <2>1, <2>2 DEF FoundKept
<1>3. CASE Stage(e) \/ Plan(e) \/ Copy(e) \/ CopyAgain(e) \/ Verify(e) \/ Commit(e)
  <2>1. dest' \in {dest, WithParent(job[e].dst)}
    BY <1>3 DEF Stage, Plan, Copy, CopyAgain, Verify, Copied, Commit, disk
  <2>2. dest' = dest
    BY <1>0, <2>1, ParentsOnly
  <2>3. job'[e].dst = job[e].dst /\ job'[e].found = job[e].found
    <3>1. \/ job' = job \/ job' = [job EXCEPT ![e].plan = remote]
          \/ job' = [job EXCEPT ![e].tries = @ + 1]
          \/ job' = [job EXCEPT ![e].pod = @ + 1, ![e].tries = 0]
      BY <1>3 DEF Stage, Plan, Copy, CopyAgain, Verify, Commit
    <3> QED BY <1>0, <3>1 DEF TypeInv, JobType
  <2>4. /\ at[e] \in {"locked", "planning", "copying", "verifying", "committing"}
        /\ at'[e] \notin {"swapping", "rolling back"}
    BY <1>0, <1>3 DEF Stage, Plan, Copy, CopyAgain, Verify, Commit, Go
  <2> QED BY <1>0, <2>2, <2>3, <2>4 DEF FoundKept
<1>4. CASE Rename(e) \/ Swap(e) \/ Clean(e)
  <2>1. at'[e] \in {"listing", "cleaning"}
    BY <1>0, <1>4 DEF Rename, Swap, Clean, Go
  <2> QED BY <2>1 DEF FoundKept
<1>5. CASE Backup(e)
  <2>1. at[e] = "backing up" /\ at'[e] = "swapping" /\ job' = job
    BY <1>0, <1>5 DEF Backup, Go
  <2>2. dest'[job[e].dst] = Absent /\ old'[e] = dest[job[e].dst]
    BY <1>0, <1>5, BackupOnly
  <2> QED BY <1>0, <2>1, <2>2 DEF FoundKept
<1>6. CASE SwapFails(e)
  <2>1. /\ at[e] = "swapping" /\ at'[e] = "rolling back"
        /\ job' = job /\ dest' = dest /\ old' = old
    BY <1>0, <1>6 DEF SwapFails, Go, disk
  <2> QED BY <1>0, <2>1 DEF FoundKept
<1> QED BY <1>0, <1>1, <1>2, <1>3, <1>4, <1>5, <1>6, StepKinds

LEMMA StepFound == ASSUME Inv, NEW e \in Exports, Step(e) PROVE AllFound'
BY OthersFind, OwnFound DEF Inv, AllFound

LEMMA StepWhole == ASSUME Inv, Inner = {}, NEW e \in Exports, Step(e) PROVE DestinationWhole'
<1>1. DestinationWhole /\ job[e].dst \in Dests
  BY DEF Inv, TypeInv, JobType
<1> SUFFICES ASSUME NEW d \in Dests PROVE dest'[d] = Absent \/ Whole(dest'[d])
  BY DEF DestinationWhole, Whole
<1> QED BY <1>1, DestinationSteps DEF DestinationWhole, Whole, Versioned

\* The invariant does not ask what has become of the files on the pods
LEMMA SameExports ==
  ASSUME Inv, TypeInv', UNCHANGED <<dest, part, old, inside, owner, at, job>>
  PROVE  Inv'
<1>1. LocksHeld' /\ NothingAsked' /\ AllFound' /\ (Inner = {} => DestinationWhole)'
  BY DEF Inv, LocksHeld, NothingAsked, AllFound, FoundKept, DestinationWhole, Whole
<1>2. BackupsCarry'
  <2>1. \A e \in Exports : Carried(e) => Carried(e)'
    BY DEF Carried, Anything
  <2> QED BY <2>1 DEF Inv, BackupsCarry
<1>3. AllStaged'
  <2>1. ASSUME NEW e \in Exports, Staged(e) PROVE Staged(e)'
    <3>1. at'[e] = at[e] /\ part'[e] = part[e] /\ old'[e] = old[e] /\ job'[e] = job[e]
          /\ dest'[job'[e].dst] = dest[job[e].dst]
      OBVIOUS
    <3> QED BY <2>1, <3>1 DEF Staged, Whole
  <2> QED BY <2>1 DEF Inv, AllStaged
<1> QED BY <1>1, <1>2, <1>3 DEF Inv

LEMMA NextInv == Inv /\ [Next]_vars => Inv'
<1> SUFFICES ASSUME Inv, [Next]_vars PROVE Inv'
  OBVIOUS
<1>1. ASSUME NEW e \in Exports, Step(e) PROVE Inv'
  BY <1>1, StepTyped, StepLocks, StepAsks, StepCarries, StepStaged, StepFound, StepWhole DEF Inv
<1>2. ASSUME NEW p \in Pods, RemoteChanges(p) PROVE Inv'
  <2>1. UNCHANGED <<dest, part, old, inside, owner, at, job, result>>
    BY <1>2 DEF RemoteChanges, disk
  <2>2. remote' \in [Pods -> 0 .. MaxChanges]
    BY <1>2, ExportConfig DEF RemoteChanges, Inv, TypeInv
  <2>3. TypeInv'
    BY <2>1, <2>2 DEF Inv, TypeInv
  <2> QED BY <2>1, <2>3, SameExports
<1>3. CASE Crash
  <2>1. /\ UNCHANGED <<dest, part, old, inside, remote, job, result>>
        /\ owner' = [d \in Dests |-> NoExport]
        /\ at' = [e \in Exports |-> IF at[e] \in {"new", "done"} THEN at[e] ELSE "dead"]
    BY <1>3 DEF Crash, disk
  <2>2. \A e \in Exports : at'[e] \in {"new", "done", "dead"} /\ (at'[e] # "dead" => at'[e] = at[e])
    BY <2>1
  <2>3. TypeInv'
    BY <2>1 DEF Inv, TypeInv, Places
  <2>4. LocksHeld' /\ BackupsCarry' /\ NothingAsked' /\ AllFound'
    BY <2>1, <2>2 DEF LocksHeld, BackupsCarry, NothingAsked, AllFound, FoundKept, Holding, Inv
  <2>5. ASSUME NEW e \in Exports, job[e].dst \notin Inner PROVE Staged(e)'
    <3>1. Staged(e) /\ at'[e] \in {"new", "done", "dead"} /\ (at'[e] # "dead" => at'[e] = at[e])
          /\ UNCHANGED <<part, job, old>>
      BY <2>1, <2>2, <2>5 DEF Inv, AllStaged
    <3>2. at[e] = "new" => at'[e] = "new"
      BY <2>1
    <3> QED BY <3>1, <3>2 DEF Staged
  <2>6. (Inner = {} => DestinationWhole)'
    BY <2>1 DEF Inv, DestinationWhole, Whole
  <2> QED BY <2>1, <2>3, <2>4, <2>5, <2>6 DEF Inv, AllStaged
<1>4. CASE UNCHANGED vars
  BY <1>4, SameExports DEF vars, disk, Inv, TypeInv
<1> QED BY <1>1, <1>2, <1>3, <1>4 DEF Next, Resting

LEMMA Invariance == Spec => []Inv
BY InitInv, NextInv, PTL DEF Spec

----------------------------------------------------------------------------
(* What an export keeps.                                                    *)

\* The state of the exports stays what it is, with destinations nested in one
\* another or not; the attempts of a copy never exceed its retries.
THEOREM ExportTypes == Spec => []TypeOK
<1>1. Inv => TypeOK
  BY DEF Inv, TypeInv, TypeOK, Anything, JobType
<1> QED BY <1>1, Invariance, PTL

\* A destination that has been filled is never lost, whatever lies inside it,
\* unless it lies inside another one itself.
THEOREM FilledIsKept == Spec => KeepsACopy
<1> SUFFICES ASSUME Inv, Inv', [Next]_vars, NEW d \in Dests \ Inner, HasCopy(d)
             PROVE  HasCopy(d)'
  <2>1. Inv /\ Inv' /\ [Next]_vars => [\A d \in Dests \ Inner : HasCopy(d) => HasCopy(d)']_vars
    OBVIOUS
  <2> QED BY <2>1, Invariance, PTL DEF Spec, KeepsACopy
<1>0. TypeInv /\ NothingAsked
  BY DEF Inv
<1>1. ASSUME NEW e \in Exports, Step(e) PROVE HasCopy(d)'
  <2>0. Moved(e) /\ job[e].dst \in Dests
    BY <1>0, <1>1, StepOfOne DEF TypeInv, JobType
  \* the backup of another export stays
  <2>1. ASSUME NEW u \in Exports, u # e, job[u].dst = d, Whole(old[u]) PROVE HasCopy(d)'
    <3>1. job'[u].dst = d /\ Whole(old'[u])
      BY <1>1, <2>0, <2>1, OthersSee DEF Moved
    <3> QED BY <3>1 DEF HasCopy, Whole
  \* so does the destination, unless e fills it, backs it up or rolls it back
  <2>2. ASSUME Whole(dest[d]), job[e].dst # d \/ at[e] \notin Holding PROVE HasCopy(d)'
    BY <1>1, <2>2, OthersKept DEF HasCopy, Whole, Versioned
  <2>3. ASSUME job[e].dst = d, at[e] \in Holding,
               Whole(dest[d]) \/ Whole(old[e])
        PROVE  HasCopy(d)'
    <3>1. Staged(e) /\ at[e] # "new" /\ job'[e].dst = d
      BY <2>0, <2>3 DEF Inv, AllStaged, Moved, Holding
    <3>2. CASE \/ Lock(e) \/ Refuse(e) \/ Plan(e) \/ Verify(e) \/ SwapFails(e) \/ Succeed(e)
               \/ Stage(e) \/ Copy(e) \/ CopyAgain(e) \/ Commit(e)
               \/ (Failing(e) /\ at[e] # "cleaning")
      <4>1. old' = old /\ dest' \in {dest, WithParent(d)}
        BY <2>3, <3>2 DEF Lock, Refuse, Plan, Verify, SwapFails, Succeed, Stage, Copy, CopyAgain,
                          Copied, Commit, Failing, disk
      <4>2. Whole(dest[d]) => dest'[d] = dest[d]
        BY <1>0, <4>1, ParentsOnly, Contents DEF Whole, Versioned
      <4> QED BY <2>3, <3>1, <4>1, <4>2 DEF HasCopy, Whole
    <3>3. CASE Rename(e) \/ Swap(e)
      <4>1. Renamed(e) /\ part[e] = job[e].plan /\ job[e].plan \in Versioned
        BY <3>1, <3>3 DEF Rename, Swap, Staged
      <4>2. dest'[d] \in Versioned
        BY <1>0, <2>3, <4>1, RenamedOnly
      <4> QED BY <4>2 DEF HasCopy, Whole, Versioned
    <3>4. CASE Backup(e)
      <4>1. old[e] = Absent
        BY <3>1, <3>4 DEF Backup, Staged
      <4>2. Whole(dest[d]) /\ old'[e] = dest[d]
        BY <1>0, <2>3, <3>4, <4>1, BackupOnly, Contents DEF Whole, Versioned
      <4> QED BY <3>1, <4>2 DEF HasCopy, Whole
    <3>5. CASE Rollback(e) /\ RolledBack(e)
      <4>1. Carried(e)
        BY <3>5 DEF Rollback, Inv, BackupsCarry
      <4>2. dest[d] \notin Versioned /\ dest'[d] = old[e]
        BY <1>0, <2>3, <3>5, <4>1, RolledBackOnly
      <4> QED BY <2>3, <4>2 DEF HasCopy, Whole, Versioned
    <3>6. CASE Clean(e) \/ (Failing(e) /\ at[e] = "cleaning")
      <4>1. dest[d] = job[e].plan /\ job[e].plan \in Versioned /\ dest' \in {dest, WithParent(d)}
        BY <2>3, <3>1, <3>6 DEF Clean, Failing, Staged
      <4>2. dest'[d] = dest[d]
        BY <1>0, <4>1, ParentsOnly, Contents
      <4> QED BY <4>1, <4>2 DEF HasCopy, Whole, Versioned
    <3>7. CASE Start(e)
      BY <3>1, <3>7 DEF Start
    <3> QED BY <1>0, <1>1, <3>2, <3>3, <3>4, <3>5, <3>6, <3>7, StepKinds
  \* who has not the lock has a backup only if it died or failed, and keeps it
  <2>4. ASSUME job[e].dst = d, at[e] \notin Holding, Whole(old[e]) PROVE HasCopy(d)'
    <3>1. Staged(e)
      BY <2>4 DEF Inv, AllStaged
    <3>2. at[e] \notin {"new", "waiting"}
      BY <2>4, <3>1, Contents DEF Staged, Whole, Versioned
    <3>3. at[e] \in {"new", "waiting"}
      BY <1>1, <2>4 DEF Step, Start, Lock, Refuse, Stage, StageFails, Plan, PlanFails, Copy, CopyAgain,
         CopyFails, Verify, VerifyFails, Commit, CommitFails, Rename, RenameFails, Backup, BackupFails, Swap, SwapFails, Rollback,
         Clean, CleanFails, Succeed, PreviewFails, Holding
    <3> QED BY <3>2, <3>3
  <2> QED BY <2>1, <2>2, <2>3, <2>4 DEF HasCopy
<1>2. ASSUME UNCHANGED <<dest, old, job>> PROVE HasCopy(d)'
  BY <1>2 DEF HasCopy, Whole
<1>3. ASSUME Crash \/ UNCHANGED vars \/ \E p \in Pods : RemoteChanges(p) PROVE HasCopy(d)'
  BY <1>2, <1>3 DEF Crash, RemoteChanges, vars, disk
<1> QED BY <1>1, <1>3 DEF Next, Resting

\* When no destination lies inside another one, nobody ever finds half an export:
\* _commit_staging renames a staging directory into place only when each pod's copy
\* of it has been verified, and a rollback brings back what was whole.
THEOREM NeverHalfAnExport == ASSUME Inner = {} PROVE Spec => []DestinationWhole
<1>1. Inv => DestinationWhole
  BY DEF Inv
<1> QED BY <1>1, Invariance, PTL

\* Only the step that answers an export sets its result
LEMMA Answers ==
  ASSUME Inv, NEW u \in Exports, Step(u), NEW e \in Exports, result'[e] # result[e]
  PROVE  /\ u = e
         /\ \/ (Refuse(e) \/ Failing(e) \/ (Rollback(e) /\ RolledBack(e)))
               /\ result'[e] = "INTERNAL_ERROR"
            \/ Succeed(e) /\ result'[e] = "ok"
<1>0. TypeInv
  BY DEF Inv
<1>1. CASE Failing(u) \/ (Rollback(u) /\ RolledBack(u)) \/ Refuse(u)
  <2>1. result' = [result EXCEPT ![u] = "INTERNAL_ERROR"]
    BY <1>1 DEF Failing, Fail, RolledBack, Refuse, End
  <2> QED BY <1>0, <1>1, <2>1 DEF TypeInv
<1>2. CASE Succeed(u)
  BY <1>0, <1>2 DEF Succeed, End, TypeInv
<1>3. CASE ~(Failing(u) \/ (Rollback(u) /\ RolledBack(u)) \/ Refuse(u) \/ Succeed(u))
  <2>1. result' = result
    BY <1>0, <1>3, StepKinds
       DEF Start, Lock, Stage, Plan, Copy, Verify, CopyAgain, Commit, Rename, Backup, Swap,
           SwapFails, Clean
  <2> QED BY <2>1
<1> QED BY <1>1, <1>2, <1>3

\* An answer that is an error comes when the export is refused or fails; the
\* destination is then as it was, or has been rolled back
LEMMA FailureStep ==
  ASSUME Inner = {}, Inv, [Next]_vars, NEW e \in Exports, result'[e] = "INTERNAL_ERROR",
         result[e] # "INTERNAL_ERROR"
  PROVE  \/ dest'[job[e].dst] \in {job[e].found, job[e].plan}
         \/ dest'[job[e].dst] = Absent /\ old'[e] = job[e].found
<1>1. PICK u \in Exports : Step(u)
  BY DEF Next, Resting, Crash, RemoteChanges, vars, disk
<1>2. Refuse(e) \/ Failing(e) \/ (Rollback(e) /\ RolledBack(e))
  BY <1>1, Answers
<1>3. TypeInv /\ FoundKept(e) /\ Staged(e) /\ job[e].dst \in Dests
  BY DEF Inv, AllFound, AllStaged, TypeInv, JobType
<1>4. CASE Refuse(e)
  BY <1>3, <1>4 DEF Refuse, FoundKept, disk
<1>5. CASE Failing(e)
  <2>1. dest' = dest
    BY <1>3, <1>5, ParentsOnly DEF Failing
  <2>2. old' = old \/ at[e] = "cleaning"
    BY <1>5 DEF Failing
  <2>3. at[e] \in Holding
    BY <1>5 DEF Failing
  <2> QED BY <1>3, <2>1, <2>2, <2>3 DEF FoundKept, Staged, Holding
<1>6. CASE Rollback(e) /\ RolledBack(e)
  <2>1. Carried(e) /\ at[e] = "rolling back"
    BY <1>6 DEF Rollback, Inv, BackupsCarry
  <2>2. dest'[job[e].dst] = old[e]
    BY <1>3, <1>6, <2>1, RolledBackOnly
  <2> QED BY <1>3, <2>1, <2>2 DEF FoundKept
<1> QED BY <1>2, <1>4, <1>5, <1>6

\* When no destination lies inside another one, an export that is answered with an
\* error has left what it found, filled the destination with what it listed, or has
\* what it found in its backup, though neither its rollback nor any removal may work.
THEOREM FailureLosesNothing == ASSUME Inner = {} PROVE Spec => FailureKeepsOrFills
<1>1. Inv /\ [Next]_vars =>
        [\A e \in Exports :
           result'[e] = "INTERNAL_ERROR" /\ result[e] # "INTERNAL_ERROR" =>
             \/ dest'[job[e].dst] \in {job[e].found, job[e].plan}
             \/ dest'[job[e].dst] = Absent /\ old'[e] = job[e].found]_vars
  BY FailureStep
<1> QED BY <1>1, Invariance, PTL DEF Spec, FailureKeepsOrFills

\* When no destination lies inside another one, only an export whose policy is
\* "replace" takes away what is there, and only while it has the lock.
THEOREM RejectedIsKept == ASSUME Inner = {} PROVE Spec => RejectKeepsExisting
<1> SUFFICES ASSUME Inv, [Next]_vars, NEW d \in Dests, Whole(dest[d]), dest'[d] # dest[d]
             PROVE  \E e \in Exports : owner[d] = e /\ job[e].policy = "replace"
  <2>1. Inv /\ [Next]_vars =>
          [\A d \in Dests :
             Whole(dest[d]) /\ dest'[d] # dest[d] =>
               \E e \in Exports : owner[d] = e /\ job[e].policy = "replace"]_vars
    OBVIOUS
  <2> QED BY <2>1, Invariance, PTL DEF Spec, RejectKeepsExisting
<1>1. PICK e \in Exports : Step(e)
  BY DEF Next, Resting, Crash, RemoteChanges, vars, disk
<1>2. TypeInv /\ dest[d] \in Versioned
  BY DEF Inv, Whole, Versioned
<1>3. Backup(e) /\ job[e].policy = "replace" /\ job[e].dst = d
  <2>1. CASE Rename(e) \/ Swap(e)
    <3>1. dest[job[e].dst] \notin Versioned
      BY <1>2, <2>1, RenamedOnly DEF Rename, Swap
    <3>2. d = job[e].dst
      BY <1>2, <2>1, RenamedOnly DEF Rename, Swap
    <3> QED BY <1>2, <3>1, <3>2
  <2> QED BY <1>1, <1>2, <2>1, DestinationSteps
<1>4. owner[d] = e
  BY <1>3 DEF Backup, Inv, LocksHeld, Holding
<1> QED BY <1>3, <1>4

\* When no destination lies inside another one, what is at the destination of an
\* export that reports success are the files of its plan.
THEOREM DeliversWhatWasListed == ASSUME Inner = {} PROVE Spec => SuccessDelivers
<1> SUFFICES ASSUME Inv, [Next]_vars, NEW e \in Exports, result'[e] = "ok", result[e] # "ok"
             PROVE  dest'[job[e].dst] = job[e].plan
  <2>1. Inv /\ [Next]_vars =>
          [\A e \in Exports :
             result'[e] = "ok" /\ result[e] # "ok" => dest'[job[e].dst] = job[e].plan]_vars
    OBVIOUS
  <2> QED BY <2>1, Invariance, PTL DEF Spec, SuccessDelivers
<1>1. PICK u \in Exports : Step(u)
  BY DEF Next, Resting, Crash, RemoteChanges, vars, disk
<1>2. Succeed(u) /\ u = e
  BY <1>1, Answers
<1>3. at[e] = "listing" /\ dest' = dest
  BY <1>2 DEF Succeed, disk
<1> QED BY <1>3 DEF Inv, AllStaged, Staged

\* The step that fills a destination fills it with what was listed: what goes
\* wrong when destinations are nested, goes wrong for no other reason.
THEOREM FillsWithWhatWasListed == ASSUME Inner = {} PROVE Spec => CommitsWhole
<1> SUFFICES ASSUME Inv, [Next]_vars, NEW e \in Exports, at[e] \in {"renaming", "swapping"},
                    at'[e] \in {"listing", "cleaning"}
             PROVE  dest'[job[e].dst] = job[e].plan
  <2>1. Inv /\ [Next]_vars =>
          [\A e \in Exports :
             at[e] \in {"renaming", "swapping"} /\ at'[e] \in {"listing", "cleaning"} =>
               dest'[job[e].dst] = job[e].plan]_vars
    OBVIOUS
  <2> QED BY <2>1, Invariance, PTL DEF Spec, CommitsWhole
<1>1. at'[e] # at[e]
  OBVIOUS
<1>2. ~Crash
  BY DEF Crash, Inv, TypeInv
<1>3. PICK u \in Exports : Step(u)
  BY <1>1, <1>2 DEF Next, Resting, RemoteChanges, vars
<1>4. u = e
  BY <1>1, <1>3, StepOfOne DEF Moved, Inv
<1>5. TypeInv /\ TypeInv' /\ Staged(e)'
  <2>1. e \in Exports /\ Step(e) /\ job'[e].dst \notin Inner
    BY <1>3, <1>4
  <2> QED BY <2>1, OwnStaged, StepTyped DEF Inv
<1>6. job'[e] = job[e]
  <2>1. Rename(e) \/ Swap(e) \/ SwapFails(e) \/ Failing(e)
    <3>1. e \in Exports /\ Step(e) /\ TypeInv
      BY <1>3, <1>4 DEF Inv
    <3> QED BY <3>1, StepKinds DEF Start, Lock, Refuse, Stage, Plan, Copy, Verify, CopyAgain,
         Commit, Backup, Rollback, Clean, Succeed
  <2> QED BY <2>1, FailOnly, <1>5 DEF Rename, Swap, SwapFails, Failing
<1> QED BY <1>5, <1>6 DEF Staged
=============================================================================
