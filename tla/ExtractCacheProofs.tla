-------------------------- MODULE ExtractCacheProofs --------------------------
(* What the cache of decompressed archives keeps and hands out, for every     *)
(* number of requests, archives, versions, refreshes and crashes.             *)
EXTENDS ExtractCache, TLAPS

----------------------------------------------------------------------------
(* The invariant.                                                           *)

Places == {"new", "expiring", "evicting", "locking", "listing gzip", "touching", "touched",
           "listing", "staging", "extracting", "written", "clearing", "installing", "scanning",
           "done"}

\* What may be called something in a directory
Names == Members \cup {Meta} \cup Requests

\* How much is to be collected is of no importance to anything below
Fields == {"arc", "ver", "left", "over", "victim", "items", "reads", "todo", "seen"}
JobTyped(j) ==
  /\ DOMAIN j = Fields
  /\ j.arc \in Archives /\ j.ver \in Versions
  /\ j.left \subseteq Prints /\ j.victim \subseteq Prints
  /\ j.items \subseteq Names /\ j.reads \in Versions
  /\ j.todo \subseteq Members \cup Requests /\ j.seen \in [Members -> Versions]

TypeInv ==
  /\ version \in [Archives -> Versions] /\ newest \in [Archives -> Versions]
  /\ root \in BOOLEAN /\ clearing \in BOOLEAN
  /\ dir \in [Prints -> Dirs] /\ staging \in [Requests -> Dirs]
  /\ lock \in [Prints -> Requests \cup {NoRequest}]
  /\ torn \subseteq Prints \cup Requests /\ disturbed \subseteq Requests
  /\ at \in [Requests -> Places]
  /\ DOMAIN job = Requests /\ \A r \in Requests : JobTyped(job[r])

\* Who holds a lock is at the directory of that fingerprint
LocksHeld == \A r \in Requests, f \in Prints : lock[f] = r <=> at[r] \in Locked /\ f = Fp(r)

\* An archive that is there is the newest
NewestThere == \A a \in Archives : version[a] \in {0, newest[a]}

\* What a request knows of its archive
Knowing == Locked \cup {"locking", "scanning"}
Knows(r) ==
  /\ at[r] \in Knowing => job[r].ver # 0 /\ job[r].ver <= newest[job[r].arc]
  /\ at[r] # "scanning" => job[r].seen = NoFiles
  /\ job[r].items # {} => at[r] \in {"expiring", "evicting"}
  /\ r \in torn /\ at[r] # "done" => r \in disturbed

\* A staging directory is filled with one version of the archive, one not older
\* than what the request looked for, and is whole when it gets its meta file,
\* unless somebody took something from it
Filling == {"extracting", "written", "clearing", "installing"}
Fills(r) ==
  /\ at[r] \in {"new", "expiring", "evicting", "locking", "listing gzip", "staging"} =>
       staging[r] = Empty
  /\ at[r] \in Filling =>
       /\ job[r].reads # 0 /\ job[r].reads >= job[r].ver
       /\ \A m \in Members : staging[r].files[m] \in {0, job[r].reads}
       /\ \A m \in Members \ MembersOf(job[r].arc) : staging[r].files[m] = 0
  /\ at[r] = "extracting" => job[r].todo \subseteq MembersOf(job[r].arc)
  /\ at[r] \in Filling /\ r \notin torn =>
       \A m \in MembersOf(job[r].arc) :
         staging[r].files[m] = IF at[r] = "extracting" /\ m \in job[r].todo THEN 0 ELSE job[r].reads

\* A request makes a temporary file once, in its staging directory or in one
\* whose lock it holds, and never touches it after that
Past(r) == at[r] \in {"listing", "scanning", "done"}
Leaves(r) ==
  /\ staging[r].temps \subseteq {r}
  /\ \A f \in Prints : r \in dir[f].temps => Past(r) \/ (at[r] = "touched" /\ f = Fp(r))

\* Everything in a directory is as new as its name says
DirSound(f) ==
  \A m \in Members : dir[f].files[m] # 0 => dir[f].files[m] >= f[2] /\ m \in MembersOf(f[1])

\* What a request has found in a directory stays there until somebody removes
\* it, temporary files too when it has taken those of others for the log
FoundTemps(r) ==
  Held(dir[Fp(r)]) = {} /\ \E u \in dir[Fp(r)].temps : u # r /\ Past(u)
Finding == {"listing gzip", "touching", "touched"}
Finds(r) ==
  /\ at[r] \in Finding /\ Fp(r) \notin torn => dir[Fp(r)].meta
  /\ at[r] = "listing" => ~IsGzip(r)
  /\ IsGzip(r) /\ r \notin disturbed /\ at[r] \in {"touching", "touched", "scanning"} =>
       IF "log" \in job[r].todo THEN dir[Fp(r)].files["log"] # 0
       ELSE job[r].seen["log"] # 0 \/ FoundTemps(r)

Inv ==
  /\ TypeInv /\ LocksHeld /\ NewestThere
  /\ \A r \in Requests : Knows(r) /\ Fills(r) /\ Leaves(r) /\ Finds(r)
  /\ \A f \in Prints : DirSound(f)
  /\ WholeUnlessRemoved /\ NeverOlder

LEMMA Zeroes ==
  0 \in Versions /\ Versions \subseteq Nat /\ NoFiles \in [Members -> Versions] /\ Empty \in Dirs
BY ExtractConfig DEF Versions, NoFiles, Empty, Dirs

LEMMA MemberFacts ==
  \A a : MembersOf(a) \subseteq Members /\ "log" \in MembersOf(a)
         /\ (a \in Gzips => MembersOf(a) = {"log"})
BY DEF MembersOf, Members

LEMMA NoJobTyped == JobTyped(NoJob) /\ NoJob.items = {} /\ NoJob.seen = NoFiles
<1>1. (CHOOSE a \in Archives : TRUE) \in Archives
  BY ExtractConfig
<1> QED BY <1>1, Zeroes DEF NoJob, JobTyped, Fields

\* A directory of which something may be gone
Less(d, e) ==
  /\ e \in Dirs /\ (e.meta => d.meta) /\ e.temps \subseteq d.temps
  /\ \A m \in Members : e.files[m] \in {0, d.files[m]}

LEMMA KeepLess ==
  ASSUME NEW d \in Dirs, NEW items
  PROVE  Less(d, Keep(d, items)) /\ Keep(d, {}) = Empty
<1>1. /\ d.meta \in BOOLEAN /\ d.files \in [Members -> Versions] /\ d.temps \subseteq Requests
  BY DEF Dirs
<1>2. Keep(d, items) \in Dirs
  BY <1>1, Zeroes DEF Keep, Dirs
<1>3. /\ Keep(d, items).meta => d.meta
      /\ Keep(d, items).temps \subseteq d.temps
      /\ \A m \in Members : Keep(d, items).files[m] \in {0, d.files[m]}
  BY <1>1 DEF Keep
<1>4. Keep(d, {}) = Empty
  BY <1>1 DEF Keep, Empty, NoFiles
<1> QED BY <1>2, <1>3, <1>4 DEF Less

LEMMA WithoutLess == ASSUME NEW d \in Dirs, NEW item PROVE Less(d, Without(d, item))
BY KeepLess DEF Without

LEMMA OpenedFacts ==
  ASSUME NEW d \in Dirs, NEW r \in Requests, NEW e \in Opened(d, r)
  PROVE  /\ e \in Dirs /\ e.files = d.files /\ e.meta = d.meta
         /\ e.temps \in {d.temps, d.temps \cup {r}}
BY DEF Opened, Dirs

LEMMA ClosedFacts ==
  ASSUME NEW d \in Dirs, NEW r \in Requests, NEW e \in Closed(d, r)
  PROVE  /\ e \in Dirs /\ e.files = d.files /\ (d.meta => e.meta)
         /\ e.temps \in {d.temps, d.temps \ {r}}
<1> DEFINE gone == [d EXCEPT !.temps = @ \ {r}]
<1>1. gone \in Dirs /\ gone.files = d.files /\ gone.meta = d.meta /\ gone.temps = d.temps \ {r}
  BY DEF Dirs
<1>2. e \in {d, gone, [gone EXCEPT !.meta = TRUE]}
  BY DEF Closed
<1> HIDE DEF gone
<1>3. CASE e = [gone EXCEPT !.meta = TRUE]
  BY <1>1, <1>3 DEF Dirs
<1> QED BY <1>1, <1>2, <1>3

LEMMA FpIsPrint ==
  ASSUME TypeInv, NEW r \in Requests, job[r].ver # 0
  PROVE  Fp(r) \in Prints /\ Fp(r)[1] = job[r].arc /\ Fp(r)[2] = job[r].ver
BY ExtractConfig DEF TypeInv, JobTyped, Fp, Prints, Versions

LEMMA ItemsAreItems ==
  ASSUME NEW d \in Dirs
  PROVE  /\ Items(d) \subseteq Names /\ Files(d) \subseteq Members \cup Requests
         /\ Held(d) \subseteq Members
BY DEF Items, Files, Held, Names, Dirs

LEMMA InitInv == Init => Inv
<1> SUFFICES ASSUME Init PROVE Inv
  OBVIOUS
<1>1. /\ dir = [f \in Prints |-> IF f[1] \in Cached /\ f[2] = 1 THEN Whole(f[1], 1) ELSE Empty]
      /\ root = (\E f \in Prints : dir[f] # Empty)
  BY DEF Init
<1>2. 1 \in Versions /\ 1 \in 1 .. MaxVersion
  BY ExtractConfig DEF Versions
<1>3. \A a : Whole(a, 1) \in Dirs
  BY <1>2, Zeroes DEF Whole, FilesOf, Dirs
<1>4. TypeInv
  <2>1. dir \in [Prints -> Dirs]
    BY <1>1, <1>3, Zeroes
  <2>2. root \in BOOLEAN
    BY <1>1, Zenon
  <2>3. version \in [Archives -> Versions] /\ newest \in [Archives -> Versions]
    BY <1>2 DEF Init
  <2> QED BY <2>1, <2>2, <2>3, Zeroes, NoJobTyped DEF Init, TypeInv, Places
<1>5. LocksHeld
  BY ExtractConfig DEF Init, LocksHeld, Locked
<1>6. NewestThere
  BY DEF Init, NewestThere
<1>7. \A r \in Requests : Knows(r) /\ Fills(r) /\ Finds(r)
  BY NoJobTyped DEF Init, Knows, Fills, Finds, Finding, Knowing, Locked, Filling
<1>a. \A r \in Requests : Leaves(r)
  <2>1. Empty.temps = {} /\ \A a : Whole(a, 1).temps = {}
    BY DEF Empty, Whole
  <2> QED BY <1>1, <2>1 DEF Init, Leaves
<1>8. ASSUME NEW f \in Prints PROVE DirSound(f)
  <2>1. CASE dir[f] = Empty
    BY <2>1 DEF DirSound, Empty, NoFiles
  <2>2. CASE f[2] = 1 /\ dir[f] = Whole(f[1], 1)
    BY <2>2 DEF DirSound, Whole, FilesOf
  <2> QED BY <1>1, <2>1, <2>2
<1>9. WholeUnlessRemoved
  <2>1. ~Empty.meta
    BY DEF Empty
  <2> QED BY <1>1, <1>2, <2>1 DEF WholeUnlessRemoved, Whole
<1>10. NeverOlder
  BY NoJobTyped DEF Init, NeverOlder, NoFiles
<1> QED BY <1>4, <1>5, <1>6, <1>7, <1>a, <1>8, <1>9, <1>10 DEF Inv

----------------------------------------------------------------------------
(* What a step of one request leaves alone.                                 *)

LEMMA StepMoves ==
  ASSUME TypeInv, NEW r \in Requests, Step(r)
  PROVE  /\ \A u \in Requests : u # r =>
              at'[u] = at[u] /\ job'[u] = job[u] /\ staging'[u] = staging[u]
         /\ UNCHANGED <<version, newest, clearing>>
<1> USE DEF TypeInv
<1>1. CASE Start(r) \/ Fingerprint(r)
  BY <1>1 DEF Start, Fingerprint, Quiet, Private, Go, Finish, bounds, disk
<1>2. CASE Collect(r)
  BY <1>2 DEF Collect, Expire, WeighUp, Evict, RemoveItem, Remove, Private, Go, bounds, disk
<1>3. CASE Look(r) \/ Open(r) \/ Extract(r) \/ WriteMeta(r) \/ WriteMetaEnds(r) \/ ClearOld(r)
  BY <1>3 DEF Look, Open, Extract, WriteMeta, WriteMetaEnds, ClearOld, Quiet, Go, bounds, disk
<1>4. CASE ListGzip(r) \/ ExtractFails(r) \/ InstallFails(r)
  BY <1>4 DEF ListGzip, ExtractFails, InstallFails, GiveUp, Finish, Private, Go, bounds, disk
<1>5. CASE Touch(r) \/ TouchEnds(r) \/ List(r) \/ Install(r)
  BY <1>5 DEF Touch, TouchEnds, List, Install, HandOut, Quiet, Go, bounds, disk
<1>6. CASE Scan(r) \/ ScanEnds(r)
  BY <1>6 DEF Scan, ScanEnds, Finish, Private, Go, bounds, disk
<1> QED BY <1>1, <1>2, <1>3, <1>4, <1>5, <1>6 DEF Step

\* The locals keep their types when their fields get values of them
LEMMA HandOutTyped ==
  ASSUME TypeInv, NEW r \in Requests, NEW files \in SUBSET (Members \cup Requests),
         HandOut(r, files)
  PROVE  /\ lock' \in [Prints -> Requests \cup {NoRequest}]
         /\ \A f \in Prints : lock'[f] = IF lock[f] = r THEN NoRequest ELSE lock[f]
         /\ DOMAIN job' = Requests /\ JobTyped(job'[r])
         /\ job'[r].arc = job[r].arc /\ job'[r].ver = job[r].ver /\ job'[r].seen = job[r].seen
         /\ job'[r].items = job[r].items /\ job'[r].todo = files
         /\ at' = [at EXCEPT ![r] = "scanning"]
BY Zeroes DEF HandOut, Unlocked, Go, TypeInv, JobTyped, Fields

LEMMA GiveUpTyped ==
  ASSUME TypeInv, NEW r \in Requests, GiveUp(r)
  PROVE  /\ lock' \in [Prints -> Requests \cup {NoRequest}]
         /\ \A f \in Prints : lock'[f] = IF lock[f] = r THEN NoRequest ELSE lock[f]
         /\ DOMAIN job' = Requests /\ job'[r] = NoJob
         /\ at' = [at EXCEPT ![r] = "done"]
BY DEF GiveUp, Finish, Unlocked, Go, TypeInv

\* Types of what a step of r does to r
LEMMA JobStepTyped ==
  ASSUME Inv, NEW r \in Requests, Step(r)
  PROVE  DOMAIN job' = Requests /\ JobTyped(job'[r])
<1>0. TypeInv /\ JobTyped(job[r]) /\ InUse \subseteq Prints /\ DOMAIN job = Requests
  BY DEF Inv, TypeInv, InUse
<1>1. CASE Start(r)
  <2>1. PICK a \in Archives :
          job' = [job EXCEPT ![r].arc = a, ![r].left = InUse] \/ job' = [job EXCEPT ![r] = NoJob]
    BY <1>1 DEF Start, Finish
  <2> QED BY <1>0, <2>1, NoJobTyped DEF JobTyped, Fields
<1>2. CASE Expire(r) \/ Evict(r)
  <2>1. PICK f \in job[r].left : Remove(r, f)
    BY <1>2 DEF Expire, Evict
  <2>2. PICK items \in SUBSET Items(dir[f]) :
          /\ DOMAIN job' = Requests
          /\ job'[r] = [job[r] EXCEPT !.left = @ \ {f}, !.victim = {f}, !.items = items,
                          !.over = Above(@, Cardinality(Held(dir[f])))]
    BY <1>0, <2>1 DEF Remove
  <2>3. f \in Prints /\ dir[f] \in Dirs
    BY <1>0 DEF TypeInv, JobTyped
  <2>4. items \subseteq Names
    BY <2>2, <2>3, ItemsAreItems
  <2> QED BY <1>0, <2>2, <2>3, <2>4 DEF JobTyped, Fields
<1>3. CASE WeighUp(r)
  <2>1. DOMAIN job' = Requests
        /\ \E excess, left : left \in {InUse, {}}
             /\ job'[r] = [job[r] EXCEPT !.over = excess, !.victim = {}, !.left = left]
    BY <1>0, <1>3 DEF WeighUp
  <2> QED BY <1>0, <2>1 DEF JobTyped, Fields
<1>4. CASE RemoveItem(r)
  <2>1. PICK item \in job[r].items : job' = [job EXCEPT ![r].items = @ \ {item}]
    BY <1>4 DEF RemoveItem
  <2> QED BY <1>0, <2>1 DEF JobTyped, Fields
<1>5. CASE Fingerprint(r)
  <2>1. version[job[r].arc] \in Versions
    BY <1>0 DEF TypeInv, JobTyped
  <2>2. \/ job' = [job EXCEPT ![r].over = 0, ![r].left = {}, ![r].victim = {},
                              ![r].ver = version[job[r].arc]]
        \/ job' = [job EXCEPT ![r] = NoJob]
    BY <1>5 DEF Fingerprint, Finish
  <2> QED BY <1>0, <2>1, <2>2, NoJobTyped DEF JobTyped, Fields
<1>6. CASE Look(r) \/ Touch(r) \/ WriteMeta(r) \/ WriteMetaEnds(r) \/ ClearOld(r)
  BY <1>0, <1>6 DEF Look, Touch, WriteMeta, WriteMetaEnds, ClearOld
<1>p. at[r] \in Locked \cup {"scanning"} =>
        dir[Fp(r)] \in Dirs /\ Files(dir[Fp(r)]) \subseteq Members \cup Requests
  BY <1>0, FpIsPrint, ItemsAreItems DEF Inv, Knows, Knowing, TypeInv
<1>7. CASE ListGzip(r)
  <2>1. CASE GiveUp(r)
    BY <1>0, <2>1, GiveUpTyped, NoJobTyped
  <2>2. CASE ~GiveUp(r)
    <3>1. job' = job \/ job' = [job EXCEPT ![r].todo = Files(dir[Fp(r)])]
      BY <1>7, <2>2 DEF ListGzip
    <3>2. Files(dir[Fp(r)]) \subseteq Members \cup Requests
      BY <1>7, <1>p DEF ListGzip, Locked
    <3> QED BY <1>0, <3>1, <3>2 DEF JobTyped, Fields
  <2> QED BY <2>1, <2>2
<1>8. CASE TouchEnds(r)
  <2>1. CASE IsGzip(r)
    <3>1. HandOut(r, job[r].todo) /\ job[r].todo \subseteq Members \cup Requests
      BY <1>0, <1>8, <2>1 DEF TouchEnds, JobTyped
    <3> QED BY <1>0, <3>1, HandOutTyped
  <2> QED BY <1>0, <1>8, <2>1 DEF TouchEnds
<1>9. CASE List(r)
  BY <1>0, <1>9, <1>p, HandOutTyped DEF List, Locked
<1>10. CASE Open(r)
  <2>1. version[job[r].arc] \in Versions
    BY <1>0 DEF TypeInv, JobTyped
  <2> QED BY <1>0, <1>10, <2>1, MemberFacts DEF Open, JobTyped, Fields
<1>11. CASE Extract(r)
  <2>1. PICK m \in job[r].todo : job' = [job EXCEPT ![r].todo = @ \ {m}]
    BY <1>11 DEF Extract
  <2> QED BY <1>0, <2>1 DEF JobTyped, Fields
<1>12. CASE ExtractFails(r) \/ InstallFails(r)
  BY <1>0, <1>12, GiveUpTyped, NoJobTyped DEF ExtractFails, InstallFails
<1>13. CASE Install(r)
  <2>1. CASE IsGzip(r)
    <3>1. HandOut(r, {"log"}) /\ {"log"} \subseteq Members \cup Requests
      BY <1>13, <2>1 DEF Install, Members
    <3> QED BY <1>0, <3>1, HandOutTyped
  <2> QED BY <1>0, <1>13, <2>1 DEF Install
<1>14. CASE Scan(r)
  <2>1. CASE Finish(r)
    BY <1>0, <2>1, NoJobTyped DEF Finish
  <2>2. CASE ~Finish(r)
    <3>1. PICK item \in job[r].todo :
            job' = [job EXCEPT ![r].todo = @ \ {item},
                               ![r].seen = [m \in Members |-> IF m = item THEN dir[Fp(r)].files[m]
                                                              ELSE @[m]]]
      BY <1>14, <2>2 DEF Scan
    <3>2. [m \in Members |-> IF m = item THEN dir[Fp(r)].files[m] ELSE job[r].seen[m]]
            \in [Members -> Versions]
      BY <1>0, <1>14, <1>p DEF Scan, Dirs, JobTyped
    <3> QED BY <1>0, <3>1, <3>2 DEF JobTyped, Fields
  <2> QED BY <2>1, <2>2
<1>15. CASE ScanEnds(r)
  BY <1>0, <1>15, NoJobTyped DEF ScanEnds, Finish
<1> QED
  BY <1>1, <1>2, <1>3, <1>4, <1>5, <1>6, <1>7, <1>8, <1>9, <1>10, <1>11, <1>12, <1>13, <1>14,
     <1>15 DEF Step, Collect

\* Where a step of r takes it
LEMMA PlaceStep ==
  ASSUME TypeInv, NEW r \in Requests, Step(r)
  PROVE  at' \in [Requests -> Places]
<1>1. \/ at' = at
      \/ \E place \in Places : at' = [at EXCEPT ![r] = place]
  <2>1. CASE Start(r) \/ Fingerprint(r) \/ Collect(r) \/ Scan(r) \/ ScanEnds(r)
    BY <2>1 DEF Start, Fingerprint, Collect, Expire, WeighUp, Evict, RemoveItem, Remove, Scan,
                ScanEnds, Finish, Go, Places
  <2>2. CASE Look(r)
    <3>1. PICK place \in {"staging", "listing gzip", "touching"} : Go(r, place)
      BY <2>2 DEF Look
    <3> QED BY <3>1 DEF Go, Places
  <2>3. CASE Open(r) \/ Extract(r) \/ WriteMeta(r) \/ WriteMetaEnds(r) \/ ClearOld(r)
    BY <2>3 DEF Open, Extract, WriteMeta, WriteMetaEnds, ClearOld, Go, Places
  <2>4. CASE ListGzip(r) \/ ExtractFails(r) \/ InstallFails(r)
    BY <2>4 DEF ListGzip, ExtractFails, InstallFails, GiveUp, Finish, Go, Places
  <2>5. CASE Touch(r) \/ TouchEnds(r) \/ List(r) \/ Install(r)
    BY <2>5 DEF Touch, TouchEnds, List, Install, HandOut, Go, Places
  <2> QED BY <2>1, <2>2, <2>3, <2>4, <2>5 DEF Step
<1> QED BY <1>1 DEF TypeInv

\* What a step of r does to a directory: gc removes something from one it does
\* not use, and only who holds its lock changes it otherwise
Removed(f) == f \in torn' /\ Users(f) \subseteq disturbed' /\ Less(dir[f], dir'[f])
Changed(r, f) ==
  \/ at[r] = "touching" /\ at'[r] = "touched" /\ torn' = torn /\ dir'[f] \in Opened(dir[f], r)
  \/ at[r] = "touched" /\ at'[r] # "touched" /\ torn' = torn /\ dir'[f] \in Closed(dir[f], r)
  \/ at[r] = "clearing" /\ Less(dir[f], dir'[f]) /\ (dir'[f] = Empty \/ f \in torn')
     /\ (dir[f] = Empty \/ Users(f) \ {r} \subseteq disturbed')
  \/ at[r] = "installing" /\ Past(r)' /\ dir[f] = Empty /\ dir'[f] = staging[r]
     /\ staging[r] # Empty /\ (r \in torn => f \in torn')

LEMMA DirSteps ==
  ASSUME Inv, NEW r \in Requests, Step(r), NEW f \in Prints
  PROVE  \/ dir'[f] = dir[f] /\ (f \in torn => f \in torn')
         \/ Removed(f)
         \/ f = Fp(r) /\ Changed(r, f)
<1>0. TypeInv /\ dir[f] \in Dirs
  BY DEF Inv, TypeInv
<1>1. CASE \/ Start(r) \/ Expire(r) \/ WeighUp(r) \/ Evict(r) \/ Fingerprint(r) \/ Look(r)
           \/ ListGzip(r) \/ List(r) \/ Open(r) \/ Extract(r)
  BY <1>1 DEF Start, Expire, WeighUp, Evict, Remove, Fingerprint, Look, ListGzip, List, Open, Extract,
              Private, Quiet, disk, history
<1>2. CASE \/ ExtractFails(r) \/ WriteMeta(r) \/ WriteMetaEnds(r) \/ InstallFails(r) \/ Scan(r)
           \/ ScanEnds(r)
  BY <1>2 DEF ExtractFails, WriteMeta, WriteMetaEnds, InstallFails, Scan, ScanEnds, Private, Quiet,
              disk, history
<1>3. CASE RemoveItem(r)
  <2>1. PICK g \in job[r].victim, item \in job[r].items :
          dir' = [dir EXCEPT ![g] = Without(@, item)] /\ Removing(r, g)
    BY <1>3 DEF RemoveItem
  <2>3. r \notin Users(f)
    <3>1. at[r] \in {"expiring", "evicting"}
      BY <2>1 DEF Inv, Knows
    <3>2. lock[f] # r
      BY <3>1 DEF Inv, LocksHeld, Locked
    <3> QED BY <3>1, <3>2 DEF Users
  <2>4. CASE g = f
    <3>1. dir'[f] = Without(dir[f], item)
      BY <1>0, <2>1, <2>4 DEF TypeInv
    <3>2. f \in torn' /\ Users(f) \subseteq disturbed'
      BY <2>1, <2>3, <2>4 DEF Removing
    <3> QED BY <1>0, <3>1, <3>2, WithoutLess DEF Removed
  <2>5. CASE g # f
    BY <1>0, <2>1, <2>5 DEF TypeInv, Removing
  <2> QED BY <2>4, <2>5
<1>4. CASE Touch(r)
  <2>1. /\ at[r] = "touching" /\ at'[r] = "touched" /\ torn' = torn
        /\ \E d \in Opened(dir[Fp(r)], r) : dir' = [dir EXCEPT ![Fp(r)] = d]
    BY <1>0, <1>4 DEF Touch, Go, Quiet, TypeInv, history
  <2> QED BY <1>0, <2>1 DEF Changed, TypeInv
<1>7. CASE TouchEnds(r)
  <2>1. /\ at[r] = "touched" /\ torn' = torn
        /\ \E d \in Closed(dir[Fp(r)], r) : dir' = [dir EXCEPT ![Fp(r)] = d]
    BY <1>7 DEF TouchEnds, history
  <2>2. at'[r] # "touched"
    BY <1>0, <1>7 DEF TouchEnds, HandOut, Go, TypeInv
  <2> QED BY <1>0, <2>1, <2>2 DEF Changed, TypeInv
<1>5. CASE ClearOld(r)
  <2>1. PICK kept \in SUBSET Items(dir[Fp(r)]) :
          /\ dir' = [dir EXCEPT ![Fp(r)] = Keep(@, kept)]
          /\ torn' = torn \cup (IF kept = {} THEN {} ELSE {Fp(r)})
    BY <1>5 DEF ClearOld
  <2>2. CASE f = Fp(r)
    <3>1. dir'[f] = Keep(dir[f], kept)
      BY <1>0, <2>1, <2>2 DEF TypeInv
    <3>2. Less(dir[f], dir'[f]) /\ (dir'[f] = Empty \/ f \in torn')
      BY <1>0, <2>1, <2>2, <3>1, KeepLess
    <3>3. at[r] = "clearing" /\ (dir[f] = Empty \/ Users(f) \ {r} \subseteq disturbed')
      BY <1>5, <2>2 DEF ClearOld
    <3> QED BY <2>2, <3>2, <3>3 DEF Changed
  <2>3. CASE f # Fp(r)
    BY <1>0, <2>1, <2>3 DEF TypeInv
  <2> QED BY <2>2, <2>3
<1>6. CASE Install(r)
  <2>1. CASE f = Fp(r)
    <3>1. Past(r)'
      BY <1>0, <1>6 DEF Install, HandOut, Go, TypeInv, Past
    <3> QED BY <1>0, <1>6, <2>1, <3>1 DEF Install, Changed, TypeInv
  <2>2. CASE f # Fp(r)
    BY <1>0, <1>6, <2>2 DEF Install, TypeInv
  <2> QED BY <2>1, <2>2
<1> QED BY <1>1, <1>2, <1>3, <1>4, <1>5, <1>6, <1>7 DEF Step, Collect

\* What is known to have been disturbed or torn stays known, but for a directory
\* that gets new contents
LEMMA HistorySteps ==
  ASSUME Inv, NEW r \in Requests, Step(r)
  PROVE  /\ disturbed \subseteq disturbed' /\ disturbed' \subseteq Requests
         /\ torn' \subseteq torn \cup Prints
         /\ \A u \in Requests : u \in torn' <=> u \in torn
<1>0. TypeInv
  BY DEF Inv
<1>1. CASE RemoveItem(r)
  <2>1. PICK g \in job[r].victim : Removing(r, g) /\ g \in Prints
    BY <1>0, <1>1 DEF RemoveItem, TypeInv, JobTyped
  <2> QED BY <1>0, <2>1, TornApart DEF Removing, Users, TypeInv
<1>f. at[r] \in Locked => Fp(r) \in Prints
  BY <1>0, FpIsPrint DEF Inv, Knows, Knowing
<1>2. CASE ClearOld(r)
  <2>1. Fp(r) \in Prints /\ (torn' = torn \/ torn' = torn \cup {Fp(r)})
    BY <1>2, <1>f DEF ClearOld, Locked
  <2>2. disturbed \subseteq disturbed' /\ disturbed' \subseteq Requests
    BY <1>0, <1>2 DEF ClearOld, Users, TypeInv
  <2> QED BY <1>0, <2>1, <2>2, TornApart DEF TypeInv
<1>3. CASE Install(r)
  <2>1. Fp(r) \in Prints
    BY <1>3, <1>f DEF Install, Locked
  <2>2. disturbed' = disturbed /\ (torn' = torn \cup {Fp(r)} \/ torn' = torn \ {Fp(r)})
    BY <1>3 DEF Install
  <2> QED BY <1>0, <2>1, <2>2, TornApart DEF TypeInv
<1>4. CASE ~RemoveItem(r) /\ ~ClearOld(r) /\ ~Install(r)
  <2>1. UNCHANGED history
    BY <1>4 DEF Step, Collect, Start, Expire, WeighUp, Evict, Remove, Fingerprint, Look, ListGzip,
                Touch, TouchEnds, List, Open, Extract, ExtractFails, WriteMeta, WriteMetaEnds,
                InstallFails, Scan, ScanEnds, Private, Quiet
  <2> QED BY <1>0, <2>1 DEF history, TypeInv
<1> QED BY <1>1, <1>2, <1>3, <1>4

\* What a step of r does to its staging directory
LEMMA StagingSteps ==
  ASSUME Inv, NEW r \in Requests, Step(r)
  PROVE  /\ staging' \in [Requests -> Dirs]
         /\ staging'[r].temps \subseteq staging[r].temps \cup {r}
         /\ \/ staging'[r] = staging[r] /\ ~Extract(r)
            \/ Extract(r)
               /\ \E m \in job[r].todo :
                    /\ job'[r].todo = job[r].todo \ {m} /\ job'[r].reads = job[r].reads
                    /\ job'[r].arc = job[r].arc /\ job'[r].ver = job[r].ver
                    /\ staging'[r].files = [staging[r].files EXCEPT ![m] = job[r].reads]
            \/ (WriteMeta(r) \/ WriteMetaEnds(r)) /\ staging'[r].files = staging[r].files
            \/ at'[r] = "done"
            \/ Install(r)
<1>0. TypeInv /\ staging[r] \in Dirs /\ JobTyped(job[r])
  BY DEF Inv, TypeInv
<1>1. CASE \/ Start(r) \/ Expire(r) \/ WeighUp(r) \/ Evict(r) \/ RemoveItem(r) \/ Fingerprint(r)
           \/ Look(r) \/ ListGzip(r) \/ Touch(r) \/ TouchEnds(r) \/ List(r) \/ Open(r)
           \/ ClearOld(r) \/ InstallFails(r) \/ Scan(r) \/ ScanEnds(r)
  <2>1. staging' = staging
    BY <1>1 DEF Start, Expire, WeighUp, Evict, Remove, RemoveItem, Fingerprint, Look, ListGzip,
                Touch, TouchEnds, List, Open, ClearOld, InstallFails, Scan, ScanEnds, Private, Quiet, disk
  <2>2. ~Extract(r) \/ at'[r] = "done"
    <3>1. CASE RemoveItem(r)
      <4>1. at[r] # "extracting"
        BY <3>1 DEF RemoveItem, Inv, Knows
      <4> QED BY <4>1 DEF Extract
    <3>2. CASE ~RemoveItem(r)
      BY <1>1, <3>2 DEF Extract, Start, Expire, WeighUp, Evict, Fingerprint, Look, ListGzip, Touch,
                        TouchEnds, List, Open, ClearOld, InstallFails, Scan, ScanEnds
    <3> QED BY <3>1, <3>2
  <2> QED BY <1>0, <2>1, <2>2 DEF TypeInv
<1>2. CASE Extract(r)
  <2>1. PICK m \in job[r].todo :
          /\ staging' = [staging EXCEPT ![r].files[m] = job[r].reads]
          /\ job' = [job EXCEPT ![r].todo = @ \ {m}]
    BY <1>2 DEF Extract
  <2>2. /\ job'[r].todo = job[r].todo \ {m} /\ job'[r].reads = job[r].reads
        /\ job'[r].arc = job[r].arc /\ job'[r].ver = job[r].ver
    BY <1>0, <2>1 DEF TypeInv, JobTyped, Fields
  <2>3. /\ staging'[r] \in Dirs /\ staging'[r].temps = staging[r].temps
        /\ staging'[r].files = [staging[r].files EXCEPT ![m] = job[r].reads]
        /\ staging' = [staging EXCEPT ![r] = staging'[r]]
    BY <1>0, <2>1 DEF TypeInv, JobTyped, Dirs
  <2> QED BY <1>0, <1>2, <2>2, <2>3 DEF TypeInv
<1>3. CASE WriteMeta(r)
  <2>1. PICK d \in Opened(staging[r], r) : staging' = [staging EXCEPT ![r] = d]
    BY <1>3 DEF WriteMeta
  <2>2. d \in Dirs /\ d.files = staging[r].files /\ d.temps \subseteq staging[r].temps \cup {r}
    BY <1>0, OpenedFacts
  <2> QED BY <1>0, <1>3, <2>1, <2>2 DEF TypeInv
<1>6. CASE WriteMetaEnds(r)
  <2>1. PICK d \in Closed(staging[r], r) : staging' = [staging EXCEPT ![r] = d]
    BY <1>6 DEF WriteMetaEnds
  <2>2. d \in Dirs /\ d.files = staging[r].files /\ d.temps \subseteq staging[r].temps \cup {r}
    BY <1>0, ClosedFacts
  <2> QED BY <1>0, <1>6, <2>1, <2>2 DEF TypeInv
<1>4. CASE ExtractFails(r)
  <2>1. at'[r] = "done"
    BY <1>0, <1>4, GiveUpTyped DEF ExtractFails, TypeInv
  <2>2. PICK kept : staging' = [staging EXCEPT ![r] = Keep(@, kept)]
    BY <1>4 DEF ExtractFails
  <2>3. Less(staging[r], Keep(staging[r], kept))
    BY <1>0, KeepLess
  <2> QED BY <1>0, <2>1, <2>2, <2>3 DEF TypeInv, Less
<1>5. CASE Install(r)
  <2>1. Empty.temps = {}
    BY DEF Empty
  <2> QED BY <1>0, <1>5, <2>1, Zeroes DEF Install, TypeInv
<1> QED BY <1>1, <1>2, <1>3, <1>4, <1>5, <1>6 DEF Step, Collect

LEMMA StepTyped == ASSUME Inv, NEW r \in Requests, Step(r) PROVE TypeInv'
<1>0. TypeInv /\ JobTyped(job[r])
  BY DEF Inv, TypeInv
<1>1. DOMAIN job' = Requests /\ \A u \in Requests : JobTyped(job'[u])
  BY <1>0, JobStepTyped, StepMoves DEF TypeInv
<1>2. root' \in BOOLEAN
  BY <1>0 DEF TypeInv, Step, Collect, Start, Expire, WeighUp, Evict, Remove, RemoveItem,
         Fingerprint, Look, ListGzip, Touch, TouchEnds, List, Open, Extract, ExtractFails, WriteMeta,
         WriteMetaEnds, ClearOld, Install, InstallFails, Scan, ScanEnds, Private, Quiet, disk
<1>3. dir' \in [Prints -> Dirs]
  <2>1. DOMAIN dir' = Prints /\ dir' = [f \in Prints |-> dir'[f]]
    BY <1>0 DEF TypeInv, Step, Collect, Start, Expire, WeighUp, Evict, Remove, RemoveItem,
           Fingerprint, Look, ListGzip, Touch, TouchEnds, List, Open, Extract, ExtractFails,
           WriteMeta, WriteMetaEnds, ClearOld, Install, InstallFails, Scan, ScanEnds, Private, Quiet,
           disk
  <2>2. ASSUME NEW f \in Prints PROVE dir'[f] \in Dirs
    <3>1. dir[f] \in Dirs /\ staging[r] \in Dirs
      BY <1>0 DEF TypeInv
    <3>2. \A e \in Opened(dir[f], r) \cup Closed(dir[f], r) : e \in Dirs
      BY <3>1, OpenedFacts, ClosedFacts
    <3> QED BY <3>1, <3>2, DirSteps DEF Removed, Changed, Less
  <2> QED BY <2>1, <2>2
<1>4. lock' \in [Prints -> Requests \cup {NoRequest}]
  <2>1. CASE Unlocked(r)
    BY <1>0, <2>1 DEF Unlocked, TypeInv
  <2>2. CASE Look(r)
    BY <1>0, <2>2 DEF Look, TypeInv
  <2>3. CASE ~Unlocked(r) /\ ~Look(r)
    <3>1. lock' = lock
      BY <2>3 DEF Step, Collect, Start, Expire, WeighUp, Evict, Remove, RemoveItem,
           Fingerprint, ListGzip, Touch, TouchEnds, List, Open, Extract, ExtractFails, WriteMeta,
           WriteMetaEnds, ClearOld, Install, InstallFails, Scan, ScanEnds, Private, Quiet, disk,
           HandOut, GiveUp
    <3> QED BY <1>0, <3>1 DEF TypeInv
  <2> QED BY <2>1, <2>2, <2>3
<1>5. torn' \subseteq Prints \cup Requests /\ disturbed' \subseteq Requests
  BY <1>0, HistorySteps DEF TypeInv
<1> QED BY <1>0, <1>1, <1>2, <1>3, <1>4, <1>5, StepMoves, PlaceStep, StagingSteps DEF TypeInv

\* A request takes a lock only at "locking" and when it is free, keeps it and
\* what it is the lock of while it is in the block of the lock, and then leaves
LEMMA LockSteps ==
  ASSUME Inv, NEW r \in Requests, Step(r)
  PROVE  \/ /\ Look(r) /\ lock[Fp(r)] = NoRequest /\ lock' = [lock EXCEPT ![Fp(r)] = r]
            /\ at'[r] \in Locked /\ Fp(r)' = Fp(r)
         \/ lock' = lock /\ at[r] \in Locked /\ at'[r] \in Locked /\ Fp(r)' = Fp(r)
         \/ lock' = lock /\ at[r] \notin Locked /\ at'[r] \notin Locked
         \/ Unlocked(r) /\ at'[r] \notin Locked
<1>0. TypeInv /\ JobTyped(job[r])
  BY DEF Inv, TypeInv
<1>1. CASE Start(r) \/ WeighUp(r) \/ Fingerprint(r)
  <2>1. /\ at[r] \in {"new", "expiring", "evicting"} /\ lock' = lock
        /\ \E place \in {"expiring", "evicting", "locking", "done"} :
             at' = [at EXCEPT ![r] = place]
    BY <1>1 DEF Start, WeighUp, Fingerprint, Finish, Quiet, Private, Go
  <2> QED BY <1>0, <2>1 DEF TypeInv, Locked
<1>2. CASE Expire(r) \/ Evict(r) \/ RemoveItem(r)
  <2>1. at[r] \in {"expiring", "evicting"} /\ at' = at /\ lock' = lock
    BY <1>2 DEF Expire, Evict, Remove, RemoveItem, Private, Inv, Knows
  <2> QED BY <2>1 DEF Locked
<1>3. CASE Scan(r) \/ ScanEnds(r)
  <2>1. /\ at[r] = "scanning" /\ lock' = lock
        /\ at' = at \/ at' = [at EXCEPT ![r] = "done"]
    BY <1>3 DEF Scan, ScanEnds, Finish, Private, Go
  <2> QED BY <1>0, <2>1 DEF TypeInv, Locked
<1>4. CASE Look(r)
  <2>1. at'[r] \in Locked
    BY <1>0, <1>4 DEF Look, Go, TypeInv, Locked
  <2> QED BY <1>4, <2>1 DEF Look, Fp
<1>5. CASE Touch(r) \/ WriteMeta(r) \/ WriteMetaEnds(r) \/ ClearOld(r)
  <2>1. /\ at[r] \in {"touching", "extracting", "written", "clearing"} /\ UNCHANGED <<lock, job>>
        /\ \E place \in {"touched", "written", "clearing", "installing"} :
             at' = [at EXCEPT ![r] = place]
    BY <1>5 DEF Touch, WriteMeta, WriteMetaEnds, ClearOld, Quiet, Go
  <2> QED BY <1>0, <2>1 DEF TypeInv, Locked, Fp
<1>6. CASE Open(r)
  <2>1. /\ at[r] = "staging" /\ lock' = lock /\ at' = [at EXCEPT ![r] = "extracting"]
        /\ job' = [job EXCEPT ![r].reads = version[job[r].arc], ![r].todo = MembersOf(job[r].arc)]
    BY <1>6 DEF Open, Quiet, Go
  <2> QED BY <1>0, <2>1 DEF TypeInv, Locked, Fp, JobTyped, Fields
<1>7. CASE Extract(r)
  <2>1. lock' = lock /\ at' = at /\ at[r] = "extracting"
    BY <1>7 DEF Extract, Quiet
  <2>2. PICK m \in job[r].todo : job' = [job EXCEPT ![r].todo = @ \ {m}]
    BY <1>7 DEF Extract
  <2> QED BY <1>0, <2>1, <2>2 DEF TypeInv, Locked, Fp, JobTyped, Fields
<1>8. CASE GiveUp(r)
  <2>1. Unlocked(r) /\ at' = [at EXCEPT ![r] = "done"]
    BY <1>8 DEF GiveUp, Finish, Go
  <2> QED BY <1>0, <2>1 DEF TypeInv, Locked
<1>9. CASE \E files : HandOut(r, files)
  <2>1. Unlocked(r) /\ at' = [at EXCEPT ![r] = "scanning"]
    BY <1>9 DEF HandOut, Go
  <2> QED BY <1>0, <2>1 DEF TypeInv, Locked
<1>10. CASE ListGzip(r) /\ ~GiveUp(r)
  <2>1. /\ at[r] = "listing gzip" /\ lock' = lock
        /\ \E place \in {"touching", "staging"} : at' = [at EXCEPT ![r] = place]
        /\ job' = job \/ job' = [job EXCEPT ![r].todo = Files(dir[Fp(r)])]
    BY <1>10 DEF ListGzip, Private, Go
  <2>2. at[r] \in Locked /\ at'[r] \in Locked
    BY <1>0, <2>1 DEF TypeInv, Locked
  <2>3. CASE job' = job
    BY <2>1, <2>2, <2>3 DEF Fp
  <2>4. CASE job' = [job EXCEPT ![r].todo = Files(dir[Fp(r)])]
    <3>1. job'[r].arc = job[r].arc /\ job'[r].ver = job[r].ver
      BY <1>0, <2>4 DEF TypeInv, JobTyped, Fields
    <3> QED BY <2>1, <2>2, <3>1 DEF Fp
  <2> QED BY <2>1, <2>3, <2>4
<1>11. CASE (TouchEnds(r) \/ Install(r)) /\ ~IsGzip(r)
  <2>1. /\ at[r] \in {"touched", "installing"} /\ UNCHANGED <<lock, job>>
        /\ at' = [at EXCEPT ![r] = "listing"]
    BY <1>11 DEF TouchEnds, Install, Go
  <2> QED BY <1>0, <2>1 DEF TypeInv, Locked, Fp
<1>12. TouchEnds(r) /\ IsGzip(r) => HandOut(r, job[r].todo)
  BY DEF TouchEnds
<1>13. Install(r) /\ IsGzip(r) => HandOut(r, {"log"})
  BY DEF Install
<1>14. List(r) => HandOut(r, Files(dir[Fp(r)]))
  BY DEF List
<1>15. ExtractFails(r) \/ InstallFails(r) => GiveUp(r)
  BY DEF ExtractFails, InstallFails
<1> QED BY <1>1, <1>2, <1>3, <1>4, <1>5, <1>6, <1>7, <1>8, <1>9, <1>10, <1>11, <1>12, <1>13,
           <1>14, <1>15 DEF Step, Collect

LEMMA StepLocks == ASSUME Inv, NEW r \in Requests, Step(r) PROVE LocksHeld'
<1>0. TypeInv /\ LocksHeld /\ NoRequest \notin Requests
  BY ExtractConfig DEF Inv
<1> SUFFICES ASSUME NEW u \in Requests, NEW f \in Prints
             PROVE  lock'[f] = u <=> at'[u] \in Locked /\ f = Fp(u)'
  BY DEF LocksHeld, Fp
<1>1. CASE u # r
  <2>1. at'[u] = at[u] /\ Fp(u)' = Fp(u)
    BY <1>0, <1>1, StepMoves DEF Fp
  <2>2. lock'[f] = u <=> lock[f] = u
    BY <1>0, <1>1, LockSteps DEF TypeInv, Unlocked
  <2> QED BY <1>0, <2>1, <2>2 DEF LocksHeld
<1>2. CASE u = r
  <2>1. CASE Look(r) /\ lock' = [lock EXCEPT ![Fp(r)] = r] /\ at'[r] \in Locked /\ Fp(r)' = Fp(r)
    <3>1. at[r] = "locking"
      BY <2>1 DEF Look
    <3>2. lock[f] # r
      BY <1>0, <3>1 DEF LocksHeld, Locked
    <3>3. Fp(r) \in Prints
      BY <1>0, <3>1, FpIsPrint DEF Inv, Knows, Knowing
    <3> QED BY <1>0, <1>2, <2>1, <3>2, <3>3 DEF TypeInv
  <2>2. CASE lock' = lock /\ at[r] \in Locked /\ at'[r] \in Locked /\ Fp(r)' = Fp(r)
    BY <1>0, <1>2, <2>2 DEF LocksHeld
  <2>3. CASE lock' = lock /\ at[r] \notin Locked /\ at'[r] \notin Locked
    BY <1>0, <1>2, <2>3 DEF LocksHeld
  <2>4. CASE Unlocked(r) /\ at'[r] \notin Locked
    BY <1>0, <1>2, <2>4 DEF Unlocked
  <2> QED BY <2>1, <2>2, <2>3, <2>4, LockSteps
<1> QED BY <1>1, <1>2

\* What a step of r does to its locals
Same(r) ==
  /\ job'[r].arc = job[r].arc /\ job'[r].ver = job[r].ver /\ job'[r].items = job[r].items
Kept(r) == Same(r) /\ job'[r].seen = job[r].seen
JobSteps(r) ==
  \/ at'[r] = "done" /\ job'[r] = NoJob
  \/ at[r] = "new" /\ at'[r] = "expiring" /\ job'[r].seen = job[r].seen
     /\ job'[r].items = job[r].items
  \/ at[r] \in {"expiring", "evicting"} /\ at'[r] \in {"expiring", "evicting"}
     /\ job'[r].seen = job[r].seen
  \/ at[r] = "evicting" /\ at'[r] = "locking" /\ job[r].items = {} /\ job'[r].items = {}
     /\ job'[r].arc = job[r].arc /\ job'[r].ver = version[job[r].arc] /\ job'[r].ver # 0
     /\ job'[r].seen = job[r].seen
  \/ at[r] \in Locked \cup {"locking"} /\ at'[r] \in Locked \cup {"scanning"} /\ Kept(r)
  \/ at[r] = "scanning" /\ at'[r] = "scanning" /\ Scan(r) /\ Same(r)
     /\ \E item \in job[r].todo :
          /\ job'[r].todo = job[r].todo \ {item}
          /\ job'[r].seen = [m \in Members |-> IF m = item THEN dir[Fp(r)].files[m]
                                              ELSE job[r].seen[m]]

LEMMA JobStep == ASSUME Inv, NEW r \in Requests, Step(r) PROVE JobSteps(r)
<1>0. TypeInv /\ JobTyped(job[r])
  BY DEF Inv, TypeInv
<1>1. CASE Finish(r)
  BY <1>0, <1>1 DEF Finish, Go, TypeInv, JobSteps
<1>2. CASE Start(r) /\ ~Finish(r)
  <2>1. PICK a \in Archives : job' = [job EXCEPT ![r].arc = a, ![r].left = InUse]
    BY <1>2 DEF Start
  <2>2. at[r] = "new" /\ at' = [at EXCEPT ![r] = "expiring"]
    BY <1>2 DEF Start, Go
  <2> QED BY <1>0, <2>1, <2>2 DEF TypeInv, JobTyped, Fields, JobSteps
<1>3. CASE Expire(r) \/ Evict(r)
  <2>1. PICK f \in job[r].left : Remove(r, f)
    BY <1>3 DEF Expire, Evict
  <2>2. job'[r].seen = job[r].seen /\ at' = at
    BY <1>0, <2>1 DEF Remove, TypeInv, JobTyped, Fields
  <2>3. at[r] \in {"expiring", "evicting"}
    BY <1>3 DEF Expire, Evict
  <2> QED BY <2>2, <2>3 DEF JobSteps
<1>4. CASE WeighUp(r)
  <2>1. \E excess, left : job' = [job EXCEPT ![r].over = excess, ![r].victim = {}, ![r].left = left]
    BY <1>4 DEF WeighUp
  <2>2. at[r] = "expiring" /\ at' = [at EXCEPT ![r] = "evicting"]
    BY <1>4 DEF WeighUp, Go
  <2> QED BY <1>0, <2>1, <2>2 DEF TypeInv, JobTyped, Fields, JobSteps
<1>5. CASE RemoveItem(r)
  <2>1. PICK item \in job[r].items : job' = [job EXCEPT ![r].items = @ \ {item}]
    BY <1>5 DEF RemoveItem
  <2>2. at' = at /\ at[r] \in {"expiring", "evicting"}
    BY <1>5, <2>1 DEF RemoveItem, Inv, Knows
  <2> QED BY <1>0, <2>1, <2>2 DEF TypeInv, JobTyped, Fields, JobSteps
<1>6. CASE Fingerprint(r) /\ ~Finish(r)
  <2>1. /\ at[r] = "evicting" /\ at' = [at EXCEPT ![r] = "locking"]
        /\ job[r].items = {} /\ version[job[r].arc] # 0
        /\ job' = [job EXCEPT ![r].over = 0, ![r].left = {}, ![r].victim = {},
                              ![r].ver = version[job[r].arc]]
    BY <1>6 DEF Fingerprint, Go
  <2> QED BY <1>0, <2>1 DEF TypeInv, JobTyped, Fields, JobSteps
<1>7. CASE Look(r) \/ Touch(r) \/ WriteMeta(r) \/ WriteMetaEnds(r) \/ ClearOld(r)
  <2>1. job' = job /\ at[r] \in Locked \cup {"locking"} /\ at'[r] \in Locked
    BY <1>0, <1>7 DEF Look, Touch, WriteMeta, WriteMetaEnds, ClearOld, Go, TypeInv, Locked
  <2> QED BY <2>1 DEF JobSteps, Kept, Same
<1>8. CASE ListGzip(r) /\ ~GiveUp(r)
  <2>1. /\ at[r] = "listing gzip"
        /\ \E place \in {"touching", "staging"} : at' = [at EXCEPT ![r] = place]
        /\ job' = job \/ job' = [job EXCEPT ![r].todo = Files(dir[Fp(r)])]
    BY <1>8 DEF ListGzip, Private, Go
  <2>2. at[r] \in Locked /\ at'[r] \in Locked
    BY <1>0, <2>1 DEF TypeInv, Locked
  <2>3. CASE job' = job
    BY <2>2, <2>3 DEF JobSteps, Kept, Same
  <2>4. CASE job' = [job EXCEPT ![r].todo = Files(dir[Fp(r)])]
    <3>1. Kept(r)
      BY <1>0, <2>4 DEF TypeInv, JobTyped, Fields, Kept, Same
    <3> QED BY <2>2, <3>1 DEF JobSteps
  <2> QED BY <2>1, <2>3, <2>4
<1>9. CASE at[r] \in Locked /\ \E files : HandOut(r, files)
  <2>1. PICK files : job' = [job EXCEPT ![r].todo = files, ![r].reads = 0]
                     /\ at' = [at EXCEPT ![r] = "scanning"]
    BY <1>9 DEF HandOut, Go
  <2>2. Kept(r) /\ at'[r] = "scanning"
    BY <1>0, <2>1 DEF TypeInv, JobTyped, Fields, Kept, Same
  <2> QED BY <1>9, <2>2 DEF JobSteps
<1>10. CASE (TouchEnds(r) \/ Install(r)) /\ ~IsGzip(r)
  <2>1. /\ at[r] \in {"touched", "installing"} /\ job' = job
        /\ at' = [at EXCEPT ![r] = "listing"]
    BY <1>10 DEF TouchEnds, Install, Go
  <2>2. at[r] \in Locked /\ at'[r] \in Locked
    BY <1>0, <2>1 DEF TypeInv, Locked
  <2> QED BY <2>1, <2>2 DEF JobSteps, Kept, Same
<1>11. CASE Open(r)
  <2>1. /\ at[r] = "staging" /\ at' = [at EXCEPT ![r] = "extracting"]
        /\ job' = [job EXCEPT ![r].reads = version[job[r].arc], ![r].todo = MembersOf(job[r].arc)]
    BY <1>11 DEF Open, Quiet, Go
  <2>2. at[r] \in Locked /\ at'[r] \in Locked
    BY <1>0, <2>1 DEF TypeInv, Locked
  <2>3. Kept(r)
    BY <1>0, <2>1 DEF TypeInv, JobTyped, Fields, Kept, Same
  <2> QED BY <2>2, <2>3 DEF JobSteps
<1>12. CASE Extract(r)
  <2>1. PICK m \in job[r].todo : job' = [job EXCEPT ![r].todo = @ \ {m}]
    BY <1>12 DEF Extract
  <2>2. at[r] \in Locked /\ at'[r] \in Locked
    BY <1>12 DEF Extract, Locked
  <2>3. Kept(r)
    BY <1>0, <2>1 DEF TypeInv, JobTyped, Fields, Kept, Same
  <2> QED BY <2>2, <2>3 DEF JobSteps
<1>13. CASE Scan(r) /\ ~Finish(r)
  <2>1. PICK item \in job[r].todo :
          job' = [job EXCEPT ![r].todo = @ \ {item},
                             ![r].seen = [m \in Members |-> IF m = item THEN dir[Fp(r)].files[m]
                                                            ELSE @[m]]]
    BY <1>13 DEF Scan
  <2>2. at[r] = "scanning" /\ at' = at
    BY <1>13 DEF Scan
  <2>3. Same(r) /\ job'[r].todo = job[r].todo \ {item}
        /\ job'[r].seen = [m \in Members |-> IF m = item THEN dir[Fp(r)].files[m]
                                            ELSE job[r].seen[m]]
    BY <1>0, <2>1 DEF TypeInv, JobTyped, Fields, Same
  <2> QED BY <1>13, <2>2, <2>3 DEF JobSteps
<1>14. TouchEnds(r) /\ IsGzip(r) => at[r] \in Locked /\ HandOut(r, job[r].todo)
  BY DEF TouchEnds, Locked
<1>15. Install(r) /\ IsGzip(r) => at[r] \in Locked /\ HandOut(r, {"log"})
  BY DEF Install, Locked
<1>16. List(r) => at[r] \in Locked /\ HandOut(r, Files(dir[Fp(r)]))
  BY DEF List, Locked
<1>17. (ExtractFails(r) \/ InstallFails(r) \/ GiveUp(r) \/ ScanEnds(r)) => Finish(r)
  BY DEF ExtractFails, InstallFails, GiveUp, ScanEnds
<1> QED BY <1>1, <1>2, <1>3, <1>4, <1>5, <1>6, <1>7, <1>8, <1>9, <1>10, <1>11, <1>12, <1>13,
           <1>14, <1>15, <1>16, <1>17 DEF Step, Collect

LEMMA StepBusy == ASSUME Inv, NEW r \in Requests, Step(r) PROVE at[r] # "done"
<1>1. RemoveItem(r) => at[r] # "done"
  BY DEF RemoveItem, Inv, Knows
<1> QED BY <1>1 DEF Step, Collect, Start, Expire, WeighUp, Evict, Fingerprint, Look, ListGzip, Touch,
                    TouchEnds, List, Open, Extract, ExtractFails, WriteMeta, WriteMetaEnds, ClearOld,
                    Install, InstallFails, Scan, ScanEnds

LEMMA StepKnows ==
  ASSUME Inv, NEW r \in Requests, Step(r), NEW u \in Requests PROVE Knows(u)'
<1>0. TypeInv /\ Knows(u) /\ newest' = newest
  BY StepMoves DEF Inv
<1>1. CASE u # r
  BY <1>0, <1>1, StepMoves, HistorySteps DEF Knows
<1>2. CASE u = r
  <2>1. r \in torn' /\ at'[r] # "done" => r \in disturbed'
    BY <1>0, <1>2, HistorySteps, StepBusy DEF Knows
  <2>2. CASE at[r] = "evicting" /\ at'[r] = "locking"
    <3>1. job'[r].ver = version[job[r].arc] /\ job'[r].ver # 0 /\ job'[r].arc = job[r].arc
          /\ job'[r].seen = job[r].seen /\ job'[r].items = {}
      BY <2>2, JobStep DEF JobSteps, Locked
    <3>2. version[job[r].arc] \in {0, newest[job[r].arc]} /\ newest[job[r].arc] \in Nat
      BY <1>0, ExtractConfig DEF Inv, NewestThere, TypeInv, JobTyped, Versions
    <3> QED BY <1>0, <1>2, <2>1, <2>2, <3>1, <3>2 DEF Knows
  <2>3. CASE ~(at[r] = "evicting" /\ at'[r] = "locking")
    BY <1>0, <1>2, <2>1, <2>3, JobStep, NoJobTyped DEF JobSteps, Knows, Knowing, Locked, Kept, Same
  <2> QED BY <2>2, <2>3
<1> QED BY <1>1, <1>2

\* What a request has read is at least as new as what it looked for
LEMMA StepReads == ASSUME Inv, NEW r \in Requests, Step(r) PROVE NeverOlder'
<1>0. TypeInv /\ NeverOlder
  BY DEF Inv
<1> SUFFICES ASSUME NEW u \in Requests, NEW m \in Members, job'[u].seen[m] # 0
             PROVE  job'[u].seen[m] >= job'[u].ver
  BY DEF NeverOlder
<1>1. CASE u # r
  BY <1>0, <1>1, StepMoves DEF NeverOlder
<1>2. CASE u = r /\ at'[r] # "scanning"
  <2>1. job'[r].seen = NoFiles
    BY <1>2, StepKnows DEF Knows
  <2> QED BY <1>2, <2>1 DEF NoFiles
<1>3. CASE u = r /\ at'[r] = "scanning" /\ at[r] # "scanning"
  <2>1. job'[r].seen = job[r].seen
    BY <1>3, JobStep DEF JobSteps, Kept
  <2>2. job[r].seen = NoFiles
    BY <1>3 DEF Inv, Knows
  <2> QED BY <1>3, <2>1, <2>2 DEF NoFiles
<1>4. CASE u = r /\ at'[r] = "scanning" /\ at[r] = "scanning"
  <2>1. PICK n \in job[r].todo :
          /\ job'[r].seen = [k \in Members |-> IF k = n THEN dir[Fp(r)].files[k] ELSE job[r].seen[k]]
          /\ job'[r].ver = job[r].ver
    BY <1>4, JobStep DEF JobSteps, Same, Locked
  <2>2. job[r].seen \in [Members -> Versions]
    BY <1>0 DEF TypeInv, JobTyped
  <2>3. CASE m # n
    BY <1>0, <1>4, <2>1, <2>2, <2>3 DEF NeverOlder
  <2>4. CASE m = n
    <3>1. Fp(r) \in Prints /\ Fp(r)[2] = job[r].ver
      BY <1>0, <1>4, FpIsPrint DEF Inv, Knows, Knowing
    <3>2. job'[r].seen[m] = dir[Fp(r)].files[m]
      BY <2>1, <2>2, <2>4
    <3> QED BY <1>4, <2>1, <3>1, <3>2 DEF Inv, DirSound
  <2> QED BY <2>3, <2>4
<1> QED BY <1>1, <1>2, <1>3, <1>4

\* Between steps that fill it, a staging directory is of no importance, or stays
\* empty
LEMMA NotFilling ==
  ASSUME Inv, NEW r \in Requests, Step(r), ~Open(r), ~Extract(r), ~WriteMeta(r),
         ~WriteMetaEnds(r), ~ClearOld(r)
  PROVE  /\ at'[r] \notin Filling
         /\ at'[r] \in {"new", "expiring", "evicting", "locking", "listing gzip", "staging"} =>
              staging'[r] = Empty
<1>0. TypeInv /\ Fills(r)
  BY DEF Inv
<1>1. CASE Start(r) \/ WeighUp(r) \/ Fingerprint(r)
  <2>1. staging' = staging /\ at[r] \in {"new", "expiring", "evicting"}
        /\ \E place \in {"expiring", "evicting", "locking", "done"} :
             at' = [at EXCEPT ![r] = place]
    BY <1>1 DEF Start, WeighUp, Fingerprint, Finish, Quiet, Private, Go, disk
  <2> QED BY <1>0, <2>1 DEF TypeInv, Fills, Filling
<1>2. CASE Expire(r) \/ Evict(r) \/ RemoveItem(r)
  <2>1. at[r] \in {"expiring", "evicting"} /\ at' = at /\ staging' = staging
    BY <1>2 DEF Expire, Evict, Remove, RemoveItem, Private, Inv, Knows, disk
  <2> QED BY <1>0, <2>1 DEF Fills, Filling
<1>3. CASE Look(r) \/ (ListGzip(r) /\ ~GiveUp(r)) \/ Touch(r)
  <2>1. /\ staging' = staging
        /\ \/ /\ at[r] \in {"locking", "listing gzip"}
              /\ \E place \in {"listing gzip", "touching", "staging"} : at' = [at EXCEPT ![r] = place]
           \/ at' = [at EXCEPT ![r] = "touched"]
    BY <1>3 DEF Look, ListGzip, Touch, Private, Go, disk
  <2> QED BY <1>0, <2>1 DEF TypeInv, Fills, Filling
<1>4. CASE \E files : HandOut(r, files)
  <2>1. at' = [at EXCEPT ![r] = "scanning"]
    BY <1>4 DEF HandOut, Go
  <2> QED BY <1>0, <2>1 DEF TypeInv, Filling
<1>5. CASE (TouchEnds(r) \/ Install(r)) /\ ~IsGzip(r)
  <2>1. at' = [at EXCEPT ![r] = "listing"]
    BY <1>5 DEF TouchEnds, Install, Go
  <2> QED BY <1>0, <2>1 DEF TypeInv, Filling
<1>6. CASE Finish(r)
  <2>1. at' = [at EXCEPT ![r] = "done"]
    BY <1>6 DEF Finish, Go
  <2> QED BY <1>0, <2>1 DEF TypeInv, Filling
<1>7. CASE Scan(r) /\ ~Finish(r)
  <2>1. at' = at /\ at[r] = "scanning"
    BY <1>7 DEF Scan
  <2> QED BY <2>1 DEF Filling
<1>8. TouchEnds(r) /\ IsGzip(r) => HandOut(r, job[r].todo)
  BY DEF TouchEnds
<1>9. Install(r) /\ IsGzip(r) => HandOut(r, {"log"})
  BY DEF Install
<1>10. List(r) => HandOut(r, Files(dir[Fp(r)]))
  BY DEF List
<1>11. (ExtractFails(r) \/ InstallFails(r) \/ GiveUp(r) \/ ScanEnds(r)) => Finish(r)
  BY DEF ExtractFails, InstallFails, GiveUp, ScanEnds
<1> QED BY <1>1, <1>2, <1>3, <1>4, <1>5, <1>6, <1>7, <1>8, <1>9, <1>10, <1>11 DEF Step, Collect

LEMMA StepFills ==
  ASSUME Inv, NEW r \in Requests, Step(r), NEW u \in Requests PROVE Fills(u)'
<1>0. TypeInv /\ JobTyped(job[r]) /\ Fills(r) /\ Fills(u) /\ Knows(r) /\ staging[r] \in Dirs
  BY DEF Inv, TypeInv
<1>1. CASE u # r
  <2>1. at'[u] = at[u] /\ job'[u] = job[u] /\ staging'[u] = staging[u]
    BY <1>0, <1>1, StepMoves
  <2>2. u \in torn' <=> u \in torn
    BY HistorySteps
  <2> QED BY <1>0, <2>1, <2>2 DEF Fills
<1>t. r \in torn' <=> r \in torn
  BY HistorySteps
<1>2. CASE u = r /\ Open(r)
  <2>1. /\ at[r] = "staging" /\ at' = [at EXCEPT ![r] = "extracting"]
        /\ staging' = staging /\ version[job[r].arc] # 0
        /\ job' = [job EXCEPT ![r].reads = version[job[r].arc], ![r].todo = MembersOf(job[r].arc)]
    BY <1>2 DEF Open, Quiet, Go
  <2>2. at'[r] = "extracting" /\ staging'[r] = Empty
    BY <1>0, <2>1 DEF TypeInv, Fills
  <2>3. /\ job'[r].reads = version[job[r].arc] /\ job'[r].todo = MembersOf(job[r].arc)
        /\ job'[r].arc = job[r].arc /\ job'[r].ver = job[r].ver
    BY <1>0, <2>1 DEF TypeInv, JobTyped, Fields
  <2>4. version[job[r].arc] = newest[job[r].arc] /\ job[r].ver <= newest[job[r].arc]
        /\ job[r].ver \in Nat /\ newest[job[r].arc] \in Nat
    <3>1. job[r].ver \in Nat /\ newest[job[r].arc] \in Nat /\ job[r].arc \in Archives
      BY <1>0, Zeroes DEF TypeInv, JobTyped
    <3>2. job[r].ver <= newest[job[r].arc]
      BY <1>0, <2>1 DEF Knows, Knowing, Locked
    <3> QED BY <2>1, <3>1, <3>2 DEF Inv, NewestThere
  <2>5. \A m \in Members : Empty.files[m] = 0
    BY DEF Empty, NoFiles
  <2>6. job'[r].reads # 0 /\ job'[r].reads >= job'[r].ver
    BY <2>1, <2>3, <2>4
  <2> QED BY <1>2, <2>2, <2>3, <2>5, <2>6, MemberFacts DEF Fills, Filling
<1>3. CASE u = r /\ Extract(r)
  <2>1. at[r] = "extracting" /\ at' = at
    BY <1>3 DEF Extract
  <2>2. PICK n \in job[r].todo :
          /\ job'[r].todo = job[r].todo \ {n} /\ job'[r].reads = job[r].reads
          /\ job'[r].arc = job[r].arc /\ job'[r].ver = job[r].ver
          /\ staging'[r].files = [staging[r].files EXCEPT ![n] = job[r].reads]
    <3>1. ~WriteMeta(r) /\ ~WriteMetaEnds(r) /\ ~Install(r) /\ at'[r] # "done"
      BY <1>0, <2>1, <1>3 DEF WriteMeta, WriteMetaEnds, Install, Extract, Go, TypeInv
    <3> QED BY <1>3, <3>1, StagingSteps
  <2>3. n \in MembersOf(job[r].arc) /\ n \in Members
    BY <1>0, <2>1, MemberFacts DEF Fills
  <2>4. \A m \in Members :
          staging'[r].files[m] = IF m = n THEN job[r].reads ELSE staging[r].files[m]
    BY <1>0, <2>2, <2>3 DEF Dirs
  <2>5. /\ job[r].reads # 0 /\ job[r].reads >= job[r].ver
        /\ \A m \in Members : staging[r].files[m] \in {0, job[r].reads}
        /\ \A m \in Members \ MembersOf(job[r].arc) : staging[r].files[m] = 0
        /\ job[r].todo \subseteq MembersOf(job[r].arc)
        /\ r \notin torn => \A m \in MembersOf(job[r].arc) :
             staging[r].files[m] = IF m \in job[r].todo THEN 0 ELSE job[r].reads
    BY <1>0, <2>1 DEF Fills, Filling
  <2>6. r \notin torn' => \A m \in MembersOf(job'[r].arc) :
          staging'[r].files[m] = IF m \in job'[r].todo THEN 0 ELSE job'[r].reads
    BY <1>t, <2>2, <2>3, <2>4, <2>5, MemberFacts
  <2> QED BY <1>3, <2>1, <2>2, <2>3, <2>4, <2>5, <2>6 DEF Fills, Filling
<1>4. CASE u = r /\ (WriteMeta(r) \/ WriteMetaEnds(r))
  <2>1. /\ \/ at[r] = "extracting" /\ at'[r] = "written" /\ job[r].todo = {}
           \/ at[r] = "written" /\ at'[r] = "clearing"
        /\ job' = job
    BY <1>0, <1>4 DEF WriteMeta, WriteMetaEnds, Go, TypeInv
  <2>2. staging'[r].files = staging[r].files
    BY <1>0, <1>4, <2>1, StagingSteps DEF WriteMeta, WriteMetaEnds, Extract, Install
  <2> QED BY <1>0, <1>4, <1>t, <2>1, <2>2 DEF Fills, Filling
<1>5. CASE u = r /\ ClearOld(r)
  <2>1. /\ at[r] = "clearing" /\ at'[r] = "installing" /\ job' = job /\ staging' = staging
    BY <1>0, <1>5 DEF ClearOld, Go, TypeInv
  <2> QED BY <1>0, <1>5, <1>t, <2>1 DEF Fills, Filling
<1>6. CASE u = r /\ ~Open(r) /\ ~Extract(r) /\ ~WriteMeta(r) /\ ~WriteMetaEnds(r) /\ ~ClearOld(r)
  BY <1>6, NotFilling DEF Fills, Filling
<1> QED BY <1>1, <1>2, <1>3, <1>4, <1>5, <1>6

\* Who has left a temporary file behind does not come back to it
LEMMA PastStays ==
  ASSUME Inv, NEW r \in Requests, Step(r), Past(r) \/ at[r] = "touched"
  PROVE  Past(r)'
<1>0. TypeInv /\ at[r] \in {"listing", "scanning", "touched"}
  BY StepBusy DEF Inv, Past
<1>1. TouchEnds(r) \/ List(r) \/ Scan(r) \/ ScanEnds(r)
  <2>1. ~RemoveItem(r)
    BY <1>0 DEF RemoveItem, Inv, Knows
  <2> QED BY <1>0, <2>1 DEF Step, Collect, Start, Expire, WeighUp, Evict, Fingerprint, Look, ListGzip,
               Touch, Open, Extract, ExtractFails, WriteMeta, WriteMetaEnds, ClearOld, Install,
               InstallFails
<1>2. \/ at' = [at EXCEPT ![r] = "listing"] \/ at' = [at EXCEPT ![r] = "scanning"]
      \/ at' = [at EXCEPT ![r] = "done"] \/ (at' = at /\ at[r] = "scanning")
  BY <1>1 DEF TouchEnds, List, Scan, ScanEnds, HandOut, Finish, Go
<1> QED BY <1>0, <1>2 DEF TypeInv, Past

LEMMA StepLeaves ==
  ASSUME Inv, NEW r \in Requests, Step(r), NEW u \in Requests PROVE Leaves(u)'
<1>0. TypeInv /\ Leaves(u) /\ Leaves(r)
  BY DEF Inv
<1>1. staging'[u].temps \subseteq {u}
  BY <1>0, StepMoves, StagingSteps DEF Leaves
<1>2. /\ Past(u) => Past(u)'
      /\ at[u] = "touched" => Past(u)' \/ (u # r /\ at'[u] = "touched")
  BY <1>0, StepMoves, PastStays DEF Past
<1>3. u # r => Fp(u)' = Fp(u)
  BY <1>0, StepMoves DEF Fp
<1>4. ASSUME NEW f \in Prints, u \in dir'[f].temps
      PROVE  Past(u)' \/ (at'[u] = "touched" /\ f = Fp(u)')
  <2>1. CASE u \in dir[f].temps
    <3>1. Past(u) \/ (at[u] = "touched" /\ f = Fp(u))
      BY <1>0, <2>1 DEF Leaves
    <3> QED BY <1>2, <1>3, <3>1
  <2>2. CASE u \notin dir[f].temps
    <3>1. f = Fp(r) /\ Changed(r, f) /\ dir[f] \in Dirs
      BY <1>0, <1>4, <2>2, DirSteps DEF Removed, Less, TypeInv
    <3>2. CASE at[r] = "touching" /\ at'[r] = "touched" /\ dir'[f] \in Opened(dir[f], r)
      <4>1. u = r
        BY <1>4, <2>2, <3>1, <3>2, OpenedFacts
      <4>2. Fp(r)' = Fp(r)
        BY <3>2, LockSteps DEF Locked, Look
      <4> QED BY <3>1, <3>2, <4>1, <4>2
    <3>3. CASE dir'[f] \in Closed(dir[f], r)
      BY <1>4, <2>2, <3>1, <3>3, ClosedFacts
    <3>4. CASE Past(r)' /\ dir'[f] = staging[r]
      BY <1>0, <1>4, <3>4 DEF Leaves
    <3> QED BY <1>4, <2>2, <3>1, <3>2, <3>3, <3>4 DEF Changed, Less
  <2> QED BY <2>1, <2>2
<1> QED BY <1>1, <1>4 DEF Leaves

\* The temporary files a request has found stay found as long as they stay
LEMMA TempsStay ==
  ASSUME Inv, NEW r \in Requests, Step(r), NEW u \in Requests, Fp(u) \in Prints, Fp(u)' = Fp(u),
         dir'[Fp(u)].files = dir[Fp(u)].files,
         \A w \in dir[Fp(u)].temps : w # u /\ Past(w) => w \in dir'[Fp(u)].temps,
         FoundTemps(u)
  PROVE  FoundTemps(u)'
<1>1. PICK w \in dir[Fp(u)].temps : w # u /\ Past(w)
  BY DEF FoundTemps
<1>2. w \in Requests
  BY DEF Inv, TypeInv, Dirs
<1>3. Past(w)'
  <2>1. w # r => at'[w] = at[w]
    BY <1>2, StepMoves DEF Inv
  <2> QED BY <1>1, <2>1, PastStays DEF Past
<1>4. w \in dir'[Fp(u)].temps
  BY <1>1
<1>5. Held(dir[Fp(u)])' = Held(dir[Fp(u)])
  BY DEF Held
<1> QED BY <1>1, <1>3, <1>4, <1>5 DEF FoundTemps

\* What another request has found is there as long as nobody removes it
LEMMA OthersFind ==
  ASSUME Inv, NEW r \in Requests, Step(r), NEW u \in Requests, u # r PROVE Finds(u)'
<1>0. TypeInv /\ Finds(u) /\ Knows(u) /\ at'[u] = at[u] /\ job'[u] = job[u]
      /\ disturbed \subseteq disturbed'
  BY StepMoves, HistorySteps DEF Inv
<1> DEFINE f == Fp(u)
<1>1. Fp(u)' = f /\ (IsGzip(u)' <=> IsGzip(u))
  BY <1>0 DEF Fp, IsGzip
<1>2. ASSUME at[u] \in Finding \cup {"scanning"}
      PROVE  f \in Prints /\ dir[f] \in Dirs /\ u \in Users(f)
  <2>1. f \in Prints
    BY <1>0, <1>2, FpIsPrint DEF Knows, Knowing, Locked, Finding
  <2> QED BY <1>0, <1>2, <2>1 DEF TypeInv, Users, Inv, LocksHeld, Locked, Finding
\* what the request holds the lock of
<1>3. ASSUME at[u] \in Finding
      PROVE  (dir'[f] = dir[f] /\ (f \in torn => f \in torn')) \/ (f \in torn' /\ u \in disturbed')
  <2>1. ~(f = Fp(r) /\ at[r] \in Locked)
    <3>1. lock[f] = u
      BY <1>2, <1>3 DEF Inv, LocksHeld, Locked, Finding
    <3> QED BY <1>2, <1>3, <3>1 DEF Inv, LocksHeld
  <2>2. ~(f = Fp(r) /\ Changed(r, f))
    BY <2>1 DEF Changed, Locked
  <2> QED BY <1>2, <1>3, <2>2, DirSteps DEF Removed
\* what it has found
<1>4. ASSUME at[u] \in {"touching", "touched", "scanning"}, u \notin disturbed', dir[f] # Empty
      PROVE  /\ dir'[f].files = dir[f].files
             /\ \A w \in dir[f].temps : Past(w) => w \in dir'[f].temps
  <2>1. f \in Prints /\ dir[f] \in Dirs /\ u \in Users(f)
    BY <1>2, <1>4 DEF Finding
  <2>2. ~Removed(f)
    BY <1>4, <2>1 DEF Removed
  <2>3. CASE dir'[f] = dir[f]
    BY <2>3
  <2>4. CASE Changed(r, f)
    <3>1. \/ dir'[f] \in Opened(dir[f], r)
          \/ at[r] = "touched" /\ dir'[f] \in Closed(dir[f], r)
      BY <1>4, <2>1, <2>4 DEF Changed
    <3>2. CASE dir'[f] \in Opened(dir[f], r)
      BY <2>1, <3>2, OpenedFacts
    <3>3. CASE at[r] = "touched" /\ dir'[f] \in Closed(dir[f], r)
      <4>1. dir'[f].files = dir[f].files /\ dir'[f].temps \in {dir[f].temps, dir[f].temps \ {r}}
        BY <2>1, <3>3, ClosedFacts
      <4>2. ~Past(r)
        BY <3>3 DEF Past
      <4> QED BY <4>1, <4>2
    <3> QED BY <3>1, <3>2, <3>3
  <2> QED BY <2>1, <2>2, <2>3, <2>4, DirSteps
<1>a. dir[f].files["log"] # 0 \/ FoundTemps(u) => dir[f] # Empty
  BY DEF Empty, NoFiles, Members, FoundTemps
<1>b. f \in Prints /\ dir'[f].files = dir[f].files
      /\ (\A w \in dir[f].temps : Past(w) => w \in dir'[f].temps) /\ FoundTemps(u)
      => FoundTemps(u)'
  BY <1>1, TempsStay
<1>c. at[u] \in {"touching", "touched", "scanning"} => f \in Prints
  BY <1>2 DEF Finding
<1>d. (FoundTemps(u) /\ at[u] \in {"touching", "touched", "scanning"} /\ u \notin disturbed')
      => FoundTemps(u)'
  BY <1>4, <1>a, <1>b, <1>c
<1> HIDE DEF f
<1>5. (at[u] \in Finding /\ f \notin torn') => dir'[f].meta
  BY <1>0, <1>3 DEF Finds, f
<1>7. (IsGzip(u) /\ u \notin disturbed' /\ at[u] \in {"touching", "touched", "scanning"}) =>
        IF "log" \in job[u].todo THEN dir'[f].files["log"] # 0
        ELSE job[u].seen["log"] # 0 \/ FoundTemps(u)'
  BY <1>0, <1>4, <1>a, <1>d DEF Finds, f
<1>8. at[u] = "listing" => ~IsGzip(u)
  BY <1>0 DEF Finds
<1> QED BY <1>0, <1>1, <1>5, <1>7, <1>8 DEF Finds

\* The steps after which a request has found something
LEMMA FindingSteps ==
  ASSUME Inv, NEW r \in Requests, Step(r),
         at'[r] \in Finding \cup {"listing", "scanning"}
  PROVE  \/ Look(r) \/ (ListGzip(r) /\ ~GiveUp(r)) \/ Touch(r) \/ TouchEnds(r) \/ List(r)
         \/ Install(r) \/ (Scan(r) /\ ~Finish(r))
<1>0. TypeInv
  BY DEF Inv
<1>1. ~Finish(r)
  BY <1>0 DEF Finish, Go, TypeInv, Finding
<1>2. ~(Start(r) \/ WeighUp(r) \/ Fingerprint(r))
  BY <1>0, <1>1 DEF Start, WeighUp, Fingerprint, Go, TypeInv, Finding
<1>3. ~(Expire(r) \/ Evict(r) \/ RemoveItem(r))
  BY DEF Expire, Evict, Remove, RemoveItem, Inv, Knows, Finding
<1>4. ~(Open(r) \/ Extract(r) \/ WriteMeta(r) \/ WriteMetaEnds(r) \/ ClearOld(r))
  BY <1>0 DEF Open, Extract, WriteMeta, WriteMetaEnds, ClearOld, Go, TypeInv, Finding
<1>5. ~(ExtractFails(r) \/ InstallFails(r) \/ ScanEnds(r) \/ GiveUp(r))
  BY <1>1 DEF ExtractFails, InstallFails, ScanEnds, GiveUp
<1> QED BY <1>1, <1>2, <1>3, <1>4, <1>5 DEF Step, Collect

LEMMA StepFinds ==
  ASSUME Inv, NEW r \in Requests, Step(r), NEW u \in Requests PROVE Finds(u)'
<1>0. TypeInv /\ JobTyped(job[r]) /\ Finds(r) /\ Fills(r) /\ Knows(r)
      /\ disturbed \subseteq disturbed'
  BY HistorySteps DEF Inv, TypeInv
<1>1. CASE u # r
  BY <1>1, OthersFind
<1>2. CASE u = r /\ at'[r] \notin Finding \cup {"listing", "scanning"}
  BY <1>2 DEF Finds, Finding
\* what was found stays found while the directory keeps what is in it
<1>k. ASSUME at[r] \in {"touching", "touched"}, job'[r].arc = job[r].arc, job'[r].ver = job[r].ver,
             job'[r].todo = job[r].todo, job'[r].seen = job[r].seen, disturbed' = disturbed,
             dir'[Fp(r)].files = dir[Fp(r)].files,
             dir[Fp(r)].temps \ {r} \subseteq dir'[Fp(r)].temps
      PROVE  /\ Fp(r)' = Fp(r) /\ (IsGzip(r)' <=> IsGzip(r))
             /\ IsGzip(r) /\ r \notin disturbed' =>
                  IF "log" \in job'[r].todo THEN dir'[Fp(r)].files["log"] # 0
                  ELSE job'[r].seen["log"] # 0 \/ FoundTemps(r)'
  <2>1. Fp(r)' = Fp(r) /\ (IsGzip(r)' <=> IsGzip(r))
    BY <1>k DEF Fp, IsGzip
  <2>2. Fp(r) \in Prints
    BY <1>0, <1>k, FpIsPrint DEF Knows, Knowing, Locked
  <2>3. FoundTemps(r) => FoundTemps(r)'
    <3>1. \A w \in dir[Fp(r)].temps : w # r /\ Past(w) => w \in dir'[Fp(r)].temps
      BY <1>k
    <3> QED BY <1>k, <2>1, <2>2, <3>1, TempsStay
  <2> QED BY <1>0, <1>k, <2>1, <2>3 DEF Finds
<1>3. CASE u = r /\ Look(r)
  <2>1. /\ at' = [at EXCEPT ![r] = IF ~dir[Fp(r)].meta THEN "staging"
                                   ELSE IF IsGzip(r) THEN "listing gzip" ELSE "touching"]
        /\ UNCHANGED <<dir, job, torn, disturbed>>
    BY <1>3 DEF Look, Go, disk, history
  <2>2. at'[r] = IF ~dir[Fp(r)].meta THEN "staging"
                 ELSE IF IsGzip(r) THEN "listing gzip" ELSE "touching"
    BY <1>0, <2>1 DEF TypeInv
  <2>3. Fp(r)' = Fp(r) /\ (IsGzip(r)' <=> IsGzip(r))
    BY <2>1 DEF Fp, IsGzip
  <2>4. at'[r] # "listing" /\ at'[r] # "scanning"
    BY <2>2
  <2>5. at'[r] \in Finding => dir'[Fp(r)].meta
    <3>1. CASE dir[Fp(r)].meta
      BY <2>1, <3>1
    <3>2. CASE ~dir[Fp(r)].meta
      BY <2>2, <3>2 DEF Finding
    <3> QED BY <3>1, <3>2
  <2>6. at'[r] \in {"touching", "touched", "scanning"} => ~IsGzip(r)'
    BY <2>2, <2>3
  <2> QED BY <1>3, <2>3, <2>4, <2>5, <2>6 DEF Finds
<1>4. CASE u = r /\ ListGzip(r) /\ ~GiveUp(r) /\ at'[r] = "touching"
  <2>1. /\ at[r] = "listing gzip" /\ Files(dir[Fp(r)]) # {}
        /\ job' = [job EXCEPT ![r].todo = Files(dir[Fp(r)])]
        /\ UNCHANGED <<dir, torn, disturbed>>
    <3>1. at' # [at EXCEPT ![r] = "staging"]
      BY <1>0, <1>4 DEF TypeInv
    <3> QED BY <1>4, <3>1 DEF ListGzip, Private, Go, disk, history
  <2>2. /\ job'[r].arc = job[r].arc /\ job'[r].ver = job[r].ver
        /\ job'[r].todo = Files(dir[Fp(r)])
    BY <1>0, <2>1 DEF TypeInv, JobTyped, Fields
  <2>3. Fp(r)' = Fp(r) /\ (IsGzip(r)' <=> IsGzip(r))
    BY <2>2 DEF Fp, IsGzip
  <2>4. Fp(r) \in Prints /\ Fp(r)[1] = job[r].arc /\ dir[Fp(r)] \in Dirs
    BY <1>0, <2>1, FpIsPrint DEF Knows, Knowing, Locked, TypeInv
  <2>5. IsGzip(r) => \A m \in Members : dir[Fp(r)].files[m] # 0 => m = "log"
    BY <2>4, MemberFacts DEF Inv, DirSound, IsGzip
  <2>6. CASE "log" \in Files(dir[Fp(r)])
    <3>1. dir[Fp(r)].files["log"] # 0
      BY <2>4, <2>6, NamesApart DEF Files, Held, Dirs, Members
    <3>2. "log" \in job'[r].todo /\ dir'[Fp(r)].files["log"] # 0
      BY <2>1, <2>2, <2>6, <3>1
    <3>3. Fp(r) \notin torn' => dir'[Fp(r)].meta
      BY <1>0, <2>1 DEF Finds, Finding
    <3> QED BY <1>4, <2>3, <3>2, <3>3 DEF Finds
  <2>7. CASE "log" \notin Files(dir[Fp(r)]) /\ IsGzip(r)
    <3>1. Held(dir[Fp(r)]) = {} /\ dir[Fp(r)].temps # {}
      BY <2>1, <2>5, <2>7 DEF Files, Held
    <3>2. PICK w \in dir[Fp(r)].temps : w \in Requests
      BY <2>4, <3>1 DEF Dirs
    <3>3. w # r /\ Past(w)
      <4>1. Past(w) \/ (at[w] = "touched" /\ Fp(r) = Fp(w))
        BY <2>4, <3>2 DEF Inv, Leaves
      <4>2. lock[Fp(r)] = r
        BY <2>1, <2>4 DEF Inv, LocksHeld, Locked
      <4>3. at[w] = "touched" /\ Fp(r) = Fp(w) => lock[Fp(r)] = w
        BY <2>4, <3>2 DEF Inv, LocksHeld, Locked
      <4> QED BY <2>1, <4>1, <4>2, <4>3 DEF Past
    <3>4. FoundTemps(r)
      BY <3>1, <3>2, <3>3 DEF FoundTemps
    <3>5. \A v \in dir[Fp(r)].temps : v # r /\ Past(v) => v \in dir'[Fp(r)].temps
      BY <2>1
    <3>6. dir'[Fp(r)].files = dir[Fp(r)].files
      BY <2>1
    <3>7. FoundTemps(r)'
      BY <2>3, <2>4, <3>4, <3>5, <3>6, TempsStay
    <3> QED BY <1>0, <1>4, <2>1, <2>2, <2>3, <2>7, <3>7 DEF Finds, Finding
  <2>8. CASE ~IsGzip(r)
    BY <1>0, <1>4, <2>1, <2>3, <2>8 DEF Finds, Finding
  <2> QED BY <2>6, <2>7, <2>8
<1>5. CASE u = r /\ TouchEnds(r) /\ ~IsGzip(r)
  <2>1. job' = job /\ at' = [at EXCEPT ![r] = "listing"]
    BY <1>5 DEF TouchEnds, Go
  <2> QED BY <1>0, <1>5, <2>1 DEF TypeInv, Finds, IsGzip, Finding
<1>p. at[r] \in {"touching", "touched"} => Fp(r) \in Prints /\ dir[Fp(r)] \in Dirs
  BY <1>0, FpIsPrint DEF Knows, Knowing, Locked, TypeInv
<1>t. CASE u = r /\ Touch(r)
  <2>1. /\ at[r] = "touching" /\ job' = job /\ at' = [at EXCEPT ![r] = "touched"]
        /\ UNCHANGED <<torn, disturbed>>
        /\ \E d \in Opened(dir[Fp(r)], r) : dir' = [dir EXCEPT ![Fp(r)] = d]
    BY <1>t DEF Touch, Go, Quiet, history
  <2>2. dir'[Fp(r)] \in Opened(dir[Fp(r)], r)
    BY <1>0, <1>p, <2>1 DEF TypeInv
  <2>3. /\ dir'[Fp(r)].files = dir[Fp(r)].files /\ dir'[Fp(r)].meta = dir[Fp(r)].meta
        /\ dir[Fp(r)].temps \ {r} \subseteq dir'[Fp(r)].temps
    BY <1>p, <2>1, <2>2, OpenedFacts
  <2>4. at'[r] = "touched"
    BY <1>0, <2>1 DEF TypeInv
  <2>5. /\ Fp(r)' = Fp(r) /\ (IsGzip(r)' <=> IsGzip(r))
        /\ IsGzip(r) /\ r \notin disturbed' =>
             IF "log" \in job'[r].todo THEN dir'[Fp(r)].files["log"] # 0
             ELSE job'[r].seen["log"] # 0 \/ FoundTemps(r)'
    BY <1>k, <2>1, <2>3
  <2>6. Fp(r) \notin torn' => dir'[Fp(r)].meta
    BY <1>0, <2>1, <2>3 DEF Finds, Finding
  <2> QED BY <1>t, <2>4, <2>5, <2>6 DEF Finds
<1>6. CASE u = r /\ TouchEnds(r) /\ IsGzip(r)
  <2>1. /\ HandOut(r, job[r].todo) /\ at[r] = "touched"
        /\ job[r].todo \subseteq Members \cup Requests
        /\ UNCHANGED <<torn, disturbed>>
        /\ \E d \in Closed(dir[Fp(r)], r) : dir' = [dir EXCEPT ![Fp(r)] = d]
    BY <1>0, <1>6 DEF TouchEnds, JobTyped, history
  <2>2. /\ job'[r].arc = job[r].arc /\ job'[r].ver = job[r].ver /\ job'[r].todo = job[r].todo
        /\ job'[r].seen = job[r].seen /\ at'[r] = "scanning"
    BY <1>0, <2>1, HandOutTyped DEF TypeInv
  <2>3. dir'[Fp(r)] \in Closed(dir[Fp(r)], r)
    BY <1>0, <1>p, <2>1 DEF TypeInv
  <2>4. /\ dir'[Fp(r)].files = dir[Fp(r)].files
        /\ dir[Fp(r)].temps \ {r} \subseteq dir'[Fp(r)].temps
    BY <1>p, <2>1, <2>3, ClosedFacts
  <2>5. /\ Fp(r)' = Fp(r) /\ (IsGzip(r)' <=> IsGzip(r))
        /\ IsGzip(r) /\ r \notin disturbed' =>
             IF "log" \in job'[r].todo THEN dir'[Fp(r)].files["log"] # 0
             ELSE job'[r].seen["log"] # 0 \/ FoundTemps(r)'
    BY <1>k, <2>1, <2>2, <2>4
  <2> QED BY <1>6, <2>2, <2>5 DEF Finds, Finding
<1>7. CASE u = r /\ List(r)
  <2>1. HandOut(r, Files(dir[Fp(r)])) /\ at[r] = "listing"
    BY <1>7 DEF List
  <2>a. dir[Fp(r)] \in Dirs
    BY <1>0, <2>1, FpIsPrint DEF Knows, Knowing, Locked, TypeInv
  <2>2. job'[r].arc = job[r].arc /\ at'[r] = "scanning"
    BY <1>0, <2>1, <2>a, HandOutTyped, ItemsAreItems DEF TypeInv
  <2>3. ~IsGzip(r)'
    BY <1>0, <2>1, <2>2 DEF Finds, IsGzip
  <2> QED BY <1>7, <2>2, <2>3 DEF Finds, Finding
<1>8. CASE u = r /\ Install(r) /\ ~IsGzip(r)
  <2>1. job' = job /\ at' = [at EXCEPT ![r] = "listing"]
    BY <1>8 DEF Install, Go
  <2> QED BY <1>0, <1>8, <2>1 DEF TypeInv, Finds, IsGzip, Finding
<1>9. CASE u = r /\ Install(r) /\ IsGzip(r)
  <2>1. /\ HandOut(r, {"log"}) /\ at[r] = "installing"
        /\ {"log"} \subseteq Members \cup Requests
        /\ disturbed' = disturbed /\ dir' = [dir EXCEPT ![Fp(r)] = staging[r]]
    BY <1>9 DEF Install, Members
  <2>2. /\ job'[r].arc = job[r].arc /\ job'[r].ver = job[r].ver /\ job'[r].todo = {"log"}
        /\ at'[r] = "scanning"
    BY <1>0, <2>1, HandOutTyped DEF TypeInv
  <2>3. Fp(r)' = Fp(r) /\ (IsGzip(r)' <=> IsGzip(r))
    BY <2>2 DEF Fp, IsGzip
  <2>4. Fp(r) \in Prints
    BY <1>0, <2>1, FpIsPrint DEF Knows, Knowing, Locked
  <2>5. dir'[Fp(r)] = staging[r]
    BY <1>0, <2>1, <2>4 DEF TypeInv
  <2>6. r \notin disturbed => staging[r].files["log"] # 0
    <3>1. r \notin disturbed => r \notin torn
      BY <1>0, <2>1 DEF Knows
    <3> QED BY <1>0, <2>1, <3>1, MemberFacts DEF Fills, Filling
  <2> QED BY <1>9, <2>1, <2>2, <2>3, <2>5, <2>6 DEF Finds, Finding
<1>10. CASE u = r /\ Scan(r) /\ ~Finish(r)
  <2>1. at[r] = "scanning" /\ at' = at /\ UNCHANGED <<dir, disturbed, torn>>
    BY <1>10 DEF Scan, Private, disk, history
  <2>2. PICK item \in job[r].todo :
          /\ job'[r].todo = job[r].todo \ {item}
          /\ job'[r].arc = job[r].arc /\ job'[r].ver = job[r].ver
          /\ job'[r].seen = [m \in Members |-> IF m = item THEN dir[Fp(r)].files[m]
                                               ELSE job[r].seen[m]]
    BY <2>1, JobStep DEF JobSteps, Same, Locked
  <2>3. Fp(r)' = Fp(r) /\ (IsGzip(r)' <=> IsGzip(r))
    BY <2>2 DEF Fp, IsGzip
  <2>4. "log" \in Members
    BY DEF Members
  <2>5. job'[r].seen["log"] = IF "log" = item THEN dir[Fp(r)].files["log"] ELSE job[r].seen["log"]
    BY <2>2, <2>4
  <2>6. "log" \in job'[r].todo <=> "log" \in job[r].todo /\ "log" # item
    BY <2>2
  <2>7. IsGzip(r) /\ r \notin disturbed =>
          IF "log" \in job[r].todo THEN dir[Fp(r)].files["log"] # 0
          ELSE job[r].seen["log"] # 0 \/ FoundTemps(r)
    BY <1>0, <2>1 DEF Finds
  <2>8. FoundTemps(r)' <=> FoundTemps(r)
    BY <2>1, <2>3 DEF FoundTemps, Held, Past
  <2> QED BY <1>10, <2>1, <2>2, <2>3, <2>5, <2>6, <2>7, <2>8 DEF Finds, Finding
<1>11. CASE u = r /\ ListGzip(r) /\ ~GiveUp(r) /\ at'[r] # "touching"
  <2>1. at' = [at EXCEPT ![r] = "touching"] \/ at' = [at EXCEPT ![r] = "staging"]
    BY <1>11 DEF ListGzip, Go
  <2> QED BY <1>0, <1>11, <2>1 DEF TypeInv, Finds, Finding
<1> QED BY <1>1, <1>2, <1>3, <1>4, <1>5, <1>6, <1>7, <1>8, <1>9, <1>10, <1>11, <1>t, FindingSteps

\* What a step of a request puts into a directory is as new as its name, and whole
LEMMA StepSound ==
  ASSUME Inv, NEW r \in Requests, Step(r), NEW f \in Prints PROVE DirSound(f)'
<1>0. TypeInv /\ DirSound(f) /\ Fills(r) /\ dir[f] \in Dirs
  BY DEF Inv, TypeInv
<1> SUFFICES ASSUME NEW m \in Members, dir'[f].files[m] # 0
             PROVE  dir'[f].files[m] >= f[2] /\ m \in MembersOf(f[1])
  BY DEF DirSound
<1>1. CASE dir'[f].files[m] = dir[f].files[m]
  BY <1>0, <1>1 DEF DirSound
<1>2. CASE Removed(f)
  BY <1>0, <1>1, <1>2 DEF Removed, Less
<1>3. CASE f = Fp(r) /\ Changed(r, f)
  <2>1. CASE dir'[f] \in Opened(dir[f], r) \cup Closed(dir[f], r)
    BY <1>0, <1>1, <2>1, OpenedFacts, ClosedFacts
  <2>2. CASE Less(dir[f], dir'[f])
    BY <1>0, <1>1, <2>2 DEF Less
  <2>3. CASE at[r] = "installing" /\ dir'[f] = staging[r]
    <3>1. f[1] = job[r].arc /\ f[2] = job[r].ver
      BY <1>3 DEF Fp
    <3> QED BY <1>0, <2>3, <3>1 DEF Fills, Filling
  <2> QED BY <1>3, <2>1, <2>2, <2>3 DEF Changed
<1> QED BY <1>0, <1>1, <1>2, <1>3, DirSteps

LEMMA StepWhole == ASSUME Inv, NEW r \in Requests, Step(r) PROVE WholeUnlessRemoved'
<1>0. TypeInv /\ WholeUnlessRemoved /\ Fills(r) /\ Finds(r) /\ staging[r] \in Dirs
      /\ job[r].reads \in Versions
  BY DEF Inv, TypeInv, JobTyped
<1> SUFFICES ASSUME NEW f \in Prints, f \notin torn', dir'[f].meta
             PROVE  \E v \in 1 .. MaxVersion : dir'[f].files = FilesOf(f[1], v)
  BY DEF WholeUnlessRemoved
<1>1. CASE dir'[f] = dir[f] /\ f \notin torn
  BY <1>0, <1>1 DEF WholeUnlessRemoved
<1>2. ~Removed(f)
  BY DEF Removed
<1>3. CASE f = Fp(r) /\ Changed(r, f)
  <2>1. dir'[f] # Empty
    BY DEF Empty
  <2>2. CASE /\ at[r] \in {"touching", "touched"} /\ torn' = torn
             /\ dir'[f] \in Opened(dir[f], r) \cup Closed(dir[f], r)
    <3>1. dir[f].meta /\ dir[f] \in Dirs
      BY <1>0, <1>3, <2>2 DEF Finds, Finding, TypeInv
    <3>2. dir'[f].files = dir[f].files
      BY <2>2, <3>1, OpenedFacts, ClosedFacts
    <3> QED BY <1>0, <2>2, <3>1, <3>2 DEF WholeUnlessRemoved
  <2>3. CASE at[r] = "installing" /\ dir'[f] = staging[r] /\ r \notin torn
    <3>1. f[1] = job[r].arc /\ job[r].reads # 0 /\ job[r].reads \in 1 .. MaxVersion
      BY <1>0, <1>3, <2>3, ExtractConfig DEF Fp, Fills, Filling, Versions
    <3>2. \A m \in Members :
            staging[r].files[m] = IF m \in MembersOf(f[1]) THEN job[r].reads ELSE 0
      BY <1>0, <2>3, <3>1 DEF Fills, Filling
    <3>3. staging[r].files = FilesOf(f[1], job[r].reads)
      BY <1>0, <3>2 DEF Dirs, FilesOf
    <3> QED BY <2>3, <3>1, <3>3
  <2> QED BY <1>3, <2>1, <2>2, <2>3 DEF Changed
<1> QED BY <1>1, <1>2, <1>3, DirSteps

LEMMA StepInv == ASSUME Inv, NEW r \in Requests, Step(r) PROVE Inv'
<1>1. TypeInv' /\ LocksHeld' /\ WholeUnlessRemoved' /\ NeverOlder'
  BY StepTyped, StepLocks, StepWhole, StepReads
<1>2. NewestThere'
  BY StepMoves DEF Inv, NewestThere
<1>3. \A u \in Requests : Knows(u)' /\ Fills(u)' /\ Leaves(u)' /\ Finds(u)'
  BY StepKnows, StepFills, StepLeaves, StepFinds
<1>4. \A f \in Prints : DirSound(f)'
  BY StepSound
<1> QED BY <1>1, <1>2, <1>3, <1>4 DEF Inv

----------------------------------------------------------------------------
(* The refresh of the entry, and a crash.                                   *)


\* What a step of the refresh takes away is known to have been removed, from who
\* uses it, too
Emptied ==
  /\ UNCHANGED <<newest, lock, at, job, bounds>>
  /\ version' \in [Archives -> Versions] /\ \A a \in Archives : version'[a] \in {version[a], 0}
  /\ root' \in BOOLEAN /\ dir' \in [Prints -> Dirs] /\ staging' \in [Requests -> Dirs]
  /\ torn \subseteq torn' /\ torn' \subseteq Prints \cup Requests
  /\ disturbed \subseteq disturbed' /\ disturbed' \subseteq Requests
  /\ \A f \in Prints : dir'[f] = dir[f] \/ Removed(f)
  /\ \A r \in Requests :
       /\ r \in torn' => r \in torn \/ at[r] = "done" \/ r \in disturbed'
       /\ \/ staging'[r] = staging[r]
          \/ /\ r \in torn' /\ staging[r] # Empty
             /\ Less(staging[r], staging'[r])

LEMMA RefreshEmpties == ASSUME Inv, RefreshRemoves PROVE Emptied
<1>0. TypeInv /\ UNCHANGED <<newest, lock, at, job, bounds>>
  BY DEF Inv, RefreshRemoves
<1>1. CASE /\ \E a \in Archives : version[a] # 0 /\ version' = [version EXCEPT ![a] = 0]
           /\ UNCHANGED <<root, dir, staging, history>>
  BY <1>0, <1>1, Zeroes DEF Emptied, TypeInv, history
<1>2. CASE /\ \E f \in Prints : \E item \in Items(dir[f]) :
                dir' = [dir EXCEPT ![f] = Without(@, item)] /\ Removing(NoRequest, f)
           /\ UNCHANGED <<version, root, staging>>
  <2>1. PICK f \in Prints : \E item \in Items(dir[f]) :
          dir' = [dir EXCEPT ![f] = Without(@, item)] /\ Removing(NoRequest, f)
    BY <1>2
  <2>i. PICK item \in Items(dir[f]) :
          dir' = [dir EXCEPT ![f] = Without(@, item)] /\ Removing(NoRequest, f)
    BY <2>1
  <2>2. Less(dir[f], Without(dir[f], item)) /\ Without(dir[f], item) \in Dirs
    BY <1>0, WithoutLess DEF TypeInv, Less
  <2>3. torn' = torn \cup {f} /\ disturbed' = disturbed \cup Users(f) /\ Users(f) \subseteq Requests
    BY <2>i, ExtractConfig DEF Removing, Users
  <2>4. dir' \in [Prints -> Dirs] /\ \A g \in Prints : dir'[g] = dir[g] \/ Removed(g)
    BY <1>0, <2>i, <2>2, <2>3 DEF TypeInv, Removed
  <2>5. \A r \in Requests : r \in torn' => r \in torn
    BY <2>3, TornApart
  <2> QED BY <1>0, <1>2, <2>3, <2>4, <2>5 DEF Emptied, TypeInv
<1>3. CASE /\ \E r \in Requests : \E item \in Items(staging[r]) :
                /\ staging' = [staging EXCEPT ![r] = Without(@, item)]
                /\ torn' = torn \cup {r}
                /\ disturbed' = disturbed \cup (IF at[r] = "done" THEN {} ELSE {r})
           /\ UNCHANGED <<version, root, dir>>
  <2>i. PICK r \in Requests : \E item \in Items(staging[r]) :
          /\ staging' = [staging EXCEPT ![r] = Without(@, item)]
          /\ torn' = torn \cup {r}
          /\ disturbed' = disturbed \cup (IF at[r] = "done" THEN {} ELSE {r})
    BY <1>3
  <2>1. PICK item \in Items(staging[r]) :
          /\ staging' = [staging EXCEPT ![r] = Without(@, item)]
          /\ torn' = torn \cup {r}
          /\ disturbed' = disturbed \cup (IF at[r] = "done" THEN {} ELSE {r})
    BY <2>i
  <2>2. Less(staging[r], Without(staging[r], item)) /\ Without(staging[r], item) \in Dirs
    BY <1>0, WithoutLess DEF TypeInv, Less
  <2>3. staging[r] # Empty
    BY <2>1 DEF Items, Files, Held, Empty, NoFiles
  <2>4. /\ staging' \in [Requests -> Dirs]
        /\ \A u \in Requests : IF u = r THEN staging'[u] = Without(staging[u], item)
                               ELSE staging'[u] = staging[u]
    BY <1>0, <2>1, <2>2 DEF TypeInv
  <2> QED BY <1>0, <1>3, <2>1, <2>2, <2>3, <2>4 DEF Emptied, TypeInv
<1>4. CASE root' = FALSE /\ UNCHANGED <<version, dir, staging, history>>
  BY <1>0, <1>4 DEF Emptied, TypeInv, history
<1> QED BY <1>1, <1>2, <1>3, <1>4 DEF RefreshRemoves

LEMMA EmptiedFinds ==
  ASSUME Inv, Emptied, NEW u \in Requests PROVE Finds(u)'
<1>0. TypeInv /\ Finds(u) /\ Knows(u) /\ UNCHANGED <<at, job, lock>> /\ torn \subseteq torn'
      /\ disturbed \subseteq disturbed' /\ Fp(u)' = Fp(u) /\ (IsGzip(u)' <=> IsGzip(u))
  BY DEF Inv, Emptied, Fp, IsGzip
<1>1. CASE at[u] \in Finding \cup {"scanning"}
  <2>1. Fp(u) \in Prints
    BY <1>0, <1>1, FpIsPrint DEF Knows, Knowing, Locked, Finding
  <2>2. u \in Users(Fp(u))
    BY <1>1, <2>1 DEF Users, Inv, LocksHeld, Locked, Finding
  <2>3. dir'[Fp(u)] = dir[Fp(u)] \/ (Fp(u) \in torn' /\ u \in disturbed')
    BY <2>1, <2>2 DEF Emptied, Removed
  <2>4. dir'[Fp(u)] = dir[Fp(u)] => (FoundTemps(u)' <=> FoundTemps(u))
    BY <1>0 DEF FoundTemps, Held, Past
  <2> QED BY <1>0, <1>1, <2>3, <2>4 DEF Finds, Finding
<1>2. CASE at[u] \notin Finding \cup {"scanning"}
  BY <1>0, <1>2 DEF Finds, Finding
<1> QED BY <1>1, <1>2

LEMMA EmptiedFills ==
  ASSUME Inv, Emptied, NEW u \in Requests PROVE Fills(u)' /\ Leaves(u)'
<1>0. Fills(u) /\ Leaves(u) /\ staging[u] \in Dirs /\ UNCHANGED <<at, job>> /\ torn \subseteq torn'
  BY DEF Inv, TypeInv, Emptied
<1>1. Fills(u)'
  <2>1. CASE staging'[u] = staging[u]
    BY <1>0, <2>1 DEF Fills
  <2>2. CASE u \in torn' /\ staging[u] # Empty /\ Less(staging[u], staging'[u])
    BY <1>0, <2>2 DEF Fills, Less
  <2> QED BY <2>1, <2>2 DEF Emptied
<1>2. staging'[u].temps \subseteq staging[u].temps
      /\ \A f \in Prints : dir'[f].temps \subseteq dir[f].temps
  BY DEF Emptied, Removed, Less
<1>3. Leaves(u)'
  BY <1>0, <1>2 DEF Leaves, Past, Fp
<1> QED BY <1>1, <1>3

LEMMA EmptiedInv == ASSUME Inv, Emptied PROVE Inv'
<1>1. TypeInv' /\ LocksHeld' /\ NeverOlder'
  BY DEF Inv, Emptied, TypeInv, LocksHeld, Fp, NeverOlder, bounds
<1>2. NewestThere'
  BY DEF Inv, Emptied, NewestThere
<1>3. \A u \in Requests : Knows(u)'
  BY DEF Inv, Emptied, Knows
<1>4. ASSUME NEW f \in Prints PROVE DirSound(f)'
  <2>1. DirSound(f) /\ dir[f] \in Dirs
    BY DEF Inv, TypeInv
  <2>2. \A m \in Members : dir'[f].files[m] \in {0, dir[f].files[m]}
    BY <2>1 DEF Emptied, Removed, Less
  <2> QED BY <2>1, <2>2 DEF DirSound
<1>5. WholeUnlessRemoved'
  BY DEF Inv, Emptied, Removed, WholeUnlessRemoved
<1> QED BY <1>1, <1>2, <1>3, <1>4, <1>5, EmptiedFinds, EmptiedFills DEF Inv

LEMMA InstallsInv == ASSUME Inv, RefreshInstalls PROVE Inv'
<1>0. TypeInv /\ UNCHANGED <<root, dir, staging, lock, at, job, torn, disturbed>>
      /\ clearing' = FALSE
  BY DEF Inv, RefreshInstalls, history
<1>1. PICK fresh \in [Archives -> 1 .. MaxVersion] :
        /\ \A a \in Archives : fresh[a] >= newest[a]
        /\ version' = fresh /\ newest' = fresh
  BY DEF RefreshInstalls
<1>2. TypeInv'
  <2>1. 1 .. MaxVersion \subseteq Versions
    BY ExtractConfig DEF Versions
  <2>2. version' \in [Archives -> Versions] /\ newest' \in [Archives -> Versions]
    BY <1>1, <2>1
  <2> QED BY <1>0, <2>2 DEF TypeInv
<1>3. LocksHeld' /\ NeverOlder' /\ WholeUnlessRemoved' /\ \A f \in Prints : DirSound(f)'
  BY <1>0 DEF Inv, LocksHeld, Fp, NeverOlder, WholeUnlessRemoved, DirSound
<1>4. NewestThere'
  BY <1>1 DEF NewestThere
<1>5. ASSUME NEW u \in Requests PROVE Fills(u)' /\ Leaves(u)' /\ Finds(u)'
  <2>1. Fills(u) /\ Leaves(u) /\ Finds(u)
    BY DEF Inv
  <2>4. Leaves(u)'
    BY <1>0, <2>1 DEF Leaves, Past, Fp
  <2>2. Fills(u)'
    BY <1>0, <2>1 DEF Fills
  <2>3. Finds(u)'
    BY <1>0, <2>1 DEF Finds, Fp, IsGzip, FoundTemps, Held, Past
  <2> QED BY <2>2, <2>3, <2>4
<1>6. ASSUME NEW u \in Requests PROVE Knows(u)'
  <2>1. job[u].arc \in Archives /\ job[u].ver \in Nat /\ newest[job[u].arc] \in Nat
        /\ fresh[job[u].arc] \in Nat
    <3>1. job[u].arc \in Archives /\ job[u].ver \in Versions
      BY <1>0 DEF TypeInv, JobTyped
    <3>2. newest[job[u].arc] \in Versions /\ fresh[job[u].arc] \in 1 .. MaxVersion
      BY <1>0, <3>1 DEF TypeInv
    <3> QED BY <3>1, <3>2 DEF Versions
  <2>2. job[u].ver <= newest[job[u].arc] => job[u].ver <= fresh[job[u].arc]
    BY <1>1, <2>1
  <2> QED BY <1>0, <1>1, <2>2 DEF Inv, Knows
<1> QED BY <1>2, <1>3, <1>4, <1>5, <1>6 DEF Inv

\* A crash forgets what requests know, and nothing of what a directory is
LEMMA CrashInv == ASSUME Inv, Crash PROVE Inv'
<1>0. /\ TypeInv /\ UNCHANGED <<version, newest, root, dir, staging, torn, disturbed>>
      /\ clearing' = FALSE /\ lock' = [f \in Prints |-> NoRequest]
      /\ at' = [r \in Requests |-> IF at[r] = "new" THEN "new" ELSE "done"]
      /\ job' = [r \in Requests |-> NoJob]
  BY DEF Inv, Crash, disk, history
<1>1. TypeInv'
  BY <1>0, NoJobTyped DEF TypeInv, Places
<1>2. LocksHeld'
  BY <1>0, ExtractConfig DEF LocksHeld, Locked
<1>3. NewestThere' /\ WholeUnlessRemoved' /\ \A f \in Prints : DirSound(f)'
  BY <1>0 DEF Inv, NewestThere, WholeUnlessRemoved, DirSound
<1>4. NeverOlder'
  BY <1>0, NoJobTyped DEF NeverOlder, NoFiles
<1>5. ASSUME NEW u \in Requests PROVE Knows(u)' /\ Fills(u)' /\ Leaves(u)' /\ Finds(u)'
  <2>1. Knows(u) /\ Fills(u) /\ Leaves(u)
    BY DEF Inv
  <2>2. /\ job'[u] = NoJob /\ staging' = staging /\ torn' = torn /\ disturbed' = disturbed
        /\ at'[u] \in {"new", "done"} /\ (at'[u] = "new" => at[u] = "new")
    BY <1>0
  <2>3. Knows(u)'
    BY <2>1, <2>2, NoJobTyped DEF Knows, Knowing, Locked
  <2>4. Fills(u)'
    BY <2>1, <2>2 DEF Fills, Filling
  <2>5. Finds(u)'
    BY <2>2 DEF Finds, Finding
  <2>6. Leaves(u)'
    <3>1. at[u] # "new" => at'[u] = "done"
      BY <1>0
    <3> QED BY <1>0, <2>1, <3>1 DEF Leaves, Past
  <2> QED BY <2>3, <2>4, <2>5, <2>6
<1> QED BY <1>1, <1>2, <1>3, <1>4, <1>5 DEF Inv

\* The beginning and the failure of a refresh, and stuttering
LEMMA OthersInv ==
  ASSUME Inv, UNCHANGED <<disk, lock, at, job, history>>, clearing' \in BOOLEAN PROVE Inv'
<1>1. TypeInv' /\ LocksHeld' /\ NewestThere' /\ NeverOlder' /\ WholeUnlessRemoved'
  BY DEF Inv, TypeInv, LocksHeld, Fp, NewestThere, NeverOlder, WholeUnlessRemoved, disk, history
<1>2. ASSUME NEW u \in Requests PROVE Knows(u)' /\ Fills(u)' /\ Leaves(u)' /\ Finds(u)'
  <2>1. Knows(u) /\ Fills(u) /\ Leaves(u) /\ Finds(u)
    BY DEF Inv
  <2>5. Leaves(u)'
    BY <2>1 DEF Leaves, Past, Fp, disk
  <2>2. Knows(u)'
    BY <2>1 DEF Knows, disk, history
  <2>3. Fills(u)'
    BY <2>1 DEF Fills, disk, history
  <2>4. Finds(u)'
    BY <2>1 DEF Finds, Fp, IsGzip, FoundTemps, Held, Past, disk, history
  <2> QED BY <2>2, <2>3, <2>4, <2>5
<1>3. \A f \in Prints : DirSound(f)'
  BY DEF Inv, DirSound, disk
<1> QED BY <1>1, <1>2, <1>3 DEF Inv

LEMMA NextInv == Inv /\ [Next]_vars => Inv'
<1> SUFFICES ASSUME Inv, [Next]_vars PROVE Inv'
  OBVIOUS
<1>1. CASE \E r \in Requests : Step(r)
  BY <1>1, StepInv
<1>2. CASE RefreshRemoves
  BY <1>2, RefreshEmpties, EmptiedInv
<1>3. CASE RefreshInstalls
  BY <1>3, InstallsInv
<1>4. CASE Crash
  BY <1>4, CrashInv
<1>5. CASE RefreshStarts \/ RefreshFails \/ Resting \/ UNCHANGED vars
  BY <1>5, OthersInv DEF RefreshStarts, RefreshFails, Resting, vars, bounds, Inv, TypeInv
<1> QED BY <1>1, <1>2, <1>3, <1>4, <1>5 DEF Next

LEMMA Invariance == Spec => []Inv
BY InitInv, NextInv, PTL DEF Spec

----------------------------------------------------------------------------
(* What is promised.                                                        *)

\* Only who is looking into the directory of a fingerprint, or filling it, holds
\* its lock, whoever else comes, gives up, or crashes; and all else is typed.
THEOREM ExtractTypes == Spec => []TypeOK
<1>1. Inv => TypeOK
  BY DEF Inv, TypeInv, TypeOK, JobTyped, LocksHeld
<1> QED BY <1>1, Invariance, PTL

\* No crash, failed extraction or competing request puts a meta file, which is
\* all that the zip cache looks for, into a directory that lacks a member.
THEOREM HalfNeverLooksWhole == Spec => []WholeUnlessRemoved
BY Invariance, PTL DEF Inv

\* Nobody reads of an archive what is older than what the stat of it said.
THEOREM NothingStale == Spec => []NeverOlder
BY Invariance, PTL DEF Inv

\* A scan of a gzip file that nothing is removed under reads the log, whatever
\* was left in the cache, unless what was left is a temporary file of
\* atomic_write_json without the log.
THEOREM GzipAlwaysHeals == Spec => []GzipHeals
<1>1. ASSUME Inv, NEW r \in Requests, ScannedToTheEnd(r), IsGzip(r), r \notin disturbed
      PROVE  ReadAll(r) \/ OnlyTemps(r)
  <2>1. job[r].seen["log"] # 0 \/ FoundTemps(r)
    BY <1>1 DEF Inv, Finds, ScannedToTheEnd
  <2> QED BY <1>1, <2>1, MemberFacts DEF FoundTemps, OnlyTemps, ReadAll, IsGzip
<1>2. Inv => GzipHeals
  BY <1>1 DEF GzipHeals
<1> QED BY <1>2, Invariance, PTL
=============================================================================
