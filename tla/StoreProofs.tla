----------------------------- MODULE StoreProofs -----------------------------
(***************************************************************************)
(* Proofs about Store for any number of processes, configurations,         *)
(* repositories, environments and toolchains.                              *)
(***************************************************************************)
EXTENDS Store, TLAPS

-----------------------------------------------------------------------------
LEMMA EndTypes ==
  ASSUME TypeOK, NEW p \in Processes, End(p)
  PROVE  /\ pc' \in [Processes -> Places]
         /\ plan' \in [Commands -> SUBSET Repos]
         /\ clone' \in [Commands -> [Repos -> Progress]]
         /\ building' \in [Commands -> SUBSET Envs]
         /\ using' \in [Commands -> SUBSET Envs]
<1>1. NothingYet \in [Repos -> Progress]
  BY DEF NothingYet, Progress
<1>2. pc' \in [Processes -> Places]
  BY DEF End, Go, TypeOK, Places
<1> QED
  BY <1>1, <1>2 DEF End, TypeOK

LEMMA TypeStep == TypeOK /\ [Next]_vars => TypeOK'
<1> SUFFICES ASSUME TypeOK, [Next]_vars PROVE TypeOK'
  OBVIOUS
<1> USE KindAssumption, ConfigOfAssumption, NamesAssumption, MaxEditsAssumption
<1> USE DEF configs, tracking, envs, command
<1>1. ASSUME NEW p \in Processes, Start(p) PROVE TypeOK'
  BY <1>1 DEF Start, TypeOK, Go, Places
<1>2. ASSUME NEW p \in Commands, Load(p) PROVE TypeOK'
  <2>1. CASE End(p)
    BY <1>2, <2>1, EndTypes DEF Load, TypeOK, Processes
  <2>2. CASE /\ \E selected \in SUBSET refs[ConfigOf[p]] : plan' = [plan EXCEPT ![p] = selected]
             /\ Go(p, "lock")
             /\ UNCHANGED <<clone, building, using>>
    <3>1. plan' \in [Commands -> SUBSET Repos]
      <4>1. PICK selected \in SUBSET refs[ConfigOf[p]] : plan' = [plan EXCEPT ![p] = selected]
        BY <2>2
      <4>2. selected \subseteq Repos
        BY DEF TypeOK
      <4> QED
        BY <4>1, <4>2 DEF TypeOK
    <3>2. pc' \in [Processes -> Places]
      BY <2>2 DEF TypeOK, Go, Places
    <3> QED
      BY <1>2, <2>2, <3>1, <3>2 DEF Load, TypeOK
  <2> QED
    BY <1>2, <2>1, <2>2 DEF Load
<1>3. ASSUME NEW p \in Processes, Lock(p) PROVE TypeOK'
  BY <1>3 DEF Lock, TypeOK, Go, Places, Locked
<1>4. ASSUME NEW p \in Commands, Track(p) \/ Tracked(p) PROVE TypeOK'
  BY <1>4 DEF Track, Tracked, Extended, Promise, TrackedConfigs, TypeOK, Go, Places, Locked
<1>5. ASSUME NEW p \in Commands, NEW r \in Repos, Clone(p, r) \/ Place(p, r) \/ MarkRepo(p, r)
      PROVE  TypeOK'
  <2>1. PICK what \in Progress : SetClone(p, r, what)
    BY <1>5 DEF Clone, Place, MarkRepo, Progress
  <2>2. clone' \in [Commands -> [Repos -> Progress]]
    BY <2>1 DEF SetClone, TypeOK
  <2> QED
    BY <1>5, <2>2 DEF Clone, Place, MarkRepo, TypeOK, RepoDirs
<1>6. ASSUME NEW p \in Commands, HooksInitialised(p) PROVE TypeOK'
  <2>1. lock' \in Processes \cup {"free"}
    BY <1>6 DEF HooksInitialised, LockDropped, TypeOK
  <2>2. CASE End(p)
    BY <1>6, <2>1, <2>2, EndTypes DEF HooksInitialised, TypeOK, Processes
  <2>3. CASE UNCHANGED command /\ \E place \in {"relock", "hooks", "install"} : Go(p, place)
    BY <1>6, <2>1, <2>3 DEF HooksInitialised, TypeOK, Go, Places, Locked
  <2> QED
    BY <1>6, <2>2, <2>3 DEF HooksInitialised
<1>7. ASSUME NEW p \in Commands, NEW e \in Envs, Reuse(p, e) \/ Build(p, e) \/ MarkEnv(p, e)
      PROVE  TypeOK'
  <2>1. CASE Reuse(p, e)
    BY <2>1 DEF Reuse, TypeOK
  <2>2. CASE Build(p, e)
    BY <2>2 DEF Build, TypeOK, Unresolved, Toolchains, EnvDirs
  <2>3. CASE MarkEnv(p, e)
    BY <2>3 DEF MarkEnv, TypeOK, EnvDirs
  <2> QED
    BY <1>7, <2>1, <2>2, <2>3
<1>8. ASSUME NEW p \in Commands, Installed(p) PROVE TypeOK'
  <2>1. CASE End(p)
    BY <1>8, <2>1, EndTypes DEF Installed, LockDropped, TypeOK, Processes
  <2>2. CASE Go(p, "hooks") /\ UNCHANGED command
    BY <1>8, <2>2 DEF Installed, LockDropped, TypeOK, Go, Places
  <2> QED
    BY <1>8, <2>1, <2>2 DEF Installed
<1>9. ASSUME NEW p \in Commands, HooksEnd(p) PROVE TypeOK'
  BY <1>9, EndTypes DEF HooksEnd, TypeOK, Processes
<1>10. ASSUME NEW p \in Processes, LoseTracking(p) PROVE stale' \subseteq Commands /\ known' \subseteq Configs
  BY <1>10 DEF LoseTracking, TypeOK
<1>11. ASSUME NEW p \in Commands, Fail(p) PROVE TypeOK'
  <2>1. env' \in [Envs -> EnvDirs]
    BY <1>11 DEF Fail, TypeOK, EnvDirs
  <2> QED
    BY <1>10, <1>11, <2>1, EndTypes DEF Fail, LockDropped, TypeOK, Processes
<1>12. ASSUME NEW p \in Processes, Kill(p) PROVE TypeOK'
  BY <1>10, <1>12, EndTypes DEF Kill, Unlocked, TypeOK
<1>13. ASSUME NEW g \in Collectors, Nothing(g) PROVE TypeOK'
  BY <1>13, EndTypes DEF Nothing, LockDropped, TypeOK, Processes
<1>14. ASSUME NEW g \in Collectors, Mark(g) PROVE TypeOK'
  <2>1. PICK readable \in SUBSET Readable : keep' = [keep EXCEPT ![g] = MarksOf(readable)]
    BY <1>14 DEF Mark
  <2>2. UsedRepos \in SUBSET Repos
    BY DEF UsedRepos, TrackedConfigs, TypeOK
  <2>3. MarksOf(readable) \in Marks
    BY <2>2 DEF MarksOf, Marks, Matching, UsedTools
  <2>4. KeptConfigs \subseteq Configs
    BY DEF KeptConfigs, TrackedConfigs, TypeOK
  <2> QED
    BY <1>14, <2>1, <2>3, <2>4 DEF Mark, TypeOK, Go, Places, Locked
<1>15. ASSUME NEW g \in Collectors, Retracked(g) PROVE TypeOK'
  BY <1>15 DEF Retracked, TypeOK, Go, Places, Locked
<1>16. ASSUME NEW g \in Collectors, SweepRepos(g) \/ SweepEnvs(g) \/ SweepTools(g) PROVE TypeOK'
  BY <1>16 DEF SweepRepos, SweepEnvs, SweepTools, TypeOK, Go, Places, Locked
<1>17. ASSUME NEW g \in Collectors, SweepScratch(g) PROVE TypeOK'
  BY <1>17, EndTypes DEF SweepScratch, LockDropped, TypeOK, Processes
<1>18. ASSUME NEW g \in Collectors, GiveUp(g) PROVE TypeOK'
  BY <1>10, <1>18, EndTypes DEF GiveUp, LockDropped, TypeOK, Processes
<1>19. ASSUME NEW c \in Configs, Edit(c) PROVE TypeOK'
  <2>1. file' \in [Configs -> Files] /\ refs' \in [Configs -> SUBSET Repos]
    BY <1>19 DEF Edit, TypeOK
  <2>2. edits' \in 0..MaxEdits
    BY <1>19 DEF Edit, TypeOK
  <2>3. known' \subseteq Configs
    BY <1>19 DEF Edit, TypeOK
  <2> QED
    BY <1>19, <2>1, <2>2, <2>3 DEF Edit, TypeOK
<1>20. CASE UNCHANGED vars
  BY <1>20 DEF vars, TypeOK
<1> QED
  BY <1>1, <1>2, <1>3, <1>4, <1>5, <1>6, <1>7, <1>8, <1>9, <1>11, <1>12, <1>13, <1>14,
     <1>15, <1>16, <1>17, <1>18, <1>19, <1>20
     DEF Next, Step, Command, Collect, AllEnded

(***************************************************************************)
(* Every variable keeps its type.                                          *)
(***************************************************************************)
THEOREM StoreTyping == Spec => []TypeOK
<1>1. Init => TypeOK
  <2> SUFFICES ASSUME Init PROVE TypeOK
    OBVIOUS
  <2>1. NothingYet \in [Repos -> Progress]
    BY DEF NothingYet, Progress
  <2>2. keep \in [Collectors -> Marks]
    BY DEF Init, Marks
  <2>3. edits \in 0..MaxEdits
    BY MaxEditsAssumption DEF Init
  <2>4. /\ pc \in [Processes -> Places]
        /\ plan \in [Commands -> SUBSET Repos]
        /\ clone \in [Commands -> [Repos -> Progress]]
        /\ building \in [Commands -> SUBSET Envs]
        /\ using \in [Commands -> SUBSET Envs]
    BY <2>1 DEF Init, Places
  <2> QED
    BY <2>2, <2>3, <2>4 DEF Init, TypeOK
<1> QED
  BY <1>1, TypeStep, PTL DEF Spec

-----------------------------------------------------------------------------
\* The fate of one process: it moves to a place, with or without the lock.
LEMMA MoveKeepsLock ==
  ASSUME TypeOK, StoreExclusive, NEW p \in Processes, NEW place \in Places, Go(p, place),
         \/ place \in Locked /\ lock' = p /\ lock \in {p, "free"}
         \/ place \notin Locked /\ pc[p] \in Locked /\ lock' = "free"
         \/ place \notin Locked /\ pc[p] \notin Locked /\ lock' = lock
  PROVE  StoreExclusive'
BY NamesAssumption DEF TypeOK, StoreExclusive, Go

LEMMA ExclusiveStep == TypeOK /\ StoreExclusive /\ [Next]_vars => StoreExclusive'
<1> SUFFICES ASSUME TypeOK, StoreExclusive, [Next]_vars PROVE StoreExclusive'
  OBVIOUS
<1> USE DEF Locked
<1>0. \A p \in Processes : pc[p] \in Locked => lock = p
  BY DEF StoreExclusive
<1>1. ASSUME UNCHANGED <<pc, lock>> PROVE StoreExclusive'
  BY <1>1 DEF StoreExclusive
<1>2. ASSUME NEW p \in Processes, Start(p) PROVE StoreExclusive'
  BY <1>2, MoveKeepsLock DEF Start, Places
<1>3. ASSUME NEW p \in Commands, Load(p) PROVE StoreExclusive'
  BY <1>3, MoveKeepsLock DEF Load, End, Places, Processes
<1>4. ASSUME NEW p \in Processes, Lock(p) PROVE StoreExclusive'
  BY <1>4, MoveKeepsLock DEF Lock, Places
<1>5. ASSUME NEW p \in Commands, Track(p) \/ Tracked(p) PROVE StoreExclusive'
  BY <1>0, <1>5, MoveKeepsLock DEF Track, Tracked, Places, Processes
<1>6. ASSUME NEW p \in Commands, HooksInitialised(p) PROVE StoreExclusive'
  BY <1>0, <1>6, MoveKeepsLock DEF HooksInitialised, LockDropped, End, Places, Processes
<1>7. ASSUME NEW p \in Commands, Installed(p) PROVE StoreExclusive'
  BY <1>0, <1>7, MoveKeepsLock DEF Installed, LockDropped, End, Places, Processes
<1>8. ASSUME NEW p \in Commands, HooksEnd(p) PROVE StoreExclusive'
  BY <1>8, MoveKeepsLock DEF HooksEnd, End, Places, Processes
<1>9. ASSUME NEW p \in Commands, Fail(p) PROVE StoreExclusive'
  BY <1>9, MoveKeepsLock DEF Fail, LockDropped, End, Places, Processes
<1>10. ASSUME NEW p \in Processes, Kill(p) PROVE StoreExclusive'
  BY <1>10, MoveKeepsLock DEF Kill, Unlocked, End, Places, StoreExclusive
<1>11. ASSUME NEW g \in Collectors, Nothing(g) \/ SweepScratch(g) \/ GiveUp(g) PROVE StoreExclusive'
  BY <1>11, MoveKeepsLock DEF Nothing, SweepScratch, GiveUp, LockDropped, End, Places, Processes
<1>12. ASSUME NEW g \in Collectors, Mark(g) PROVE StoreExclusive'
  BY <1>0, <1>12, MoveKeepsLock DEF Mark, Places, Processes
<1>13. ASSUME NEW g \in Collectors, Retracked(g) PROVE StoreExclusive'
  BY <1>0, <1>13, MoveKeepsLock DEF Retracked, Places, Processes
<1>14. ASSUME NEW g \in Collectors, SweepRepos(g) \/ SweepEnvs(g) \/ SweepTools(g) PROVE StoreExclusive'
  BY <1>0, <1>14, MoveKeepsLock DEF SweepRepos, SweepEnvs, SweepTools, Places, Processes
<1>15. ASSUME NEW p \in Commands, NEW r \in Repos, Clone(p, r) \/ Place(p, r) \/ MarkRepo(p, r)
       PROVE  StoreExclusive'
  BY <1>1, <1>15 DEF Clone, Place, MarkRepo
<1>16. ASSUME NEW p \in Commands, NEW e \in Envs, Reuse(p, e) \/ Build(p, e) \/ MarkEnv(p, e)
       PROVE  StoreExclusive'
  BY <1>1, <1>16 DEF Reuse, Build, MarkEnv
<1>17. CASE (\E c \in Configs : Edit(c)) \/ UNCHANGED vars
  BY <1>1, <1>17 DEF Edit, vars
<1> QED
  BY <1>2, <1>3, <1>4, <1>5, <1>6, <1>7, <1>8, <1>9, <1>10, <1>11, <1>12, <1>13, <1>14,
     <1>15, <1>16, <1>17
     DEF Next, Step, Command, Collect, AllEnded

(***************************************************************************)
(* The lock is held by exactly the process that changes the store.         *)
(***************************************************************************)
THEOREM OneWriter == Spec => []StoreExclusive
<1>1. Init => StoreExclusive
  <2> SUFFICES ASSUME Init, NEW p \in Processes PROVE pc[p] \notin Locked /\ lock # p
    BY DEF StoreExclusive
  <2>1. pc = [q \in Processes |-> "start"] /\ lock = "free"
    BY DEF Init
  <2>2. pc[p] = "start"
    BY <2>1
  <2> QED
    BY <2>1, <2>2, NamesAssumption DEF Locked
<1> QED
  BY <1>1, ExclusiveStep, StoreTyping, PTL DEF Spec

-----------------------------------------------------------------------------
(***************************************************************************)
(* Tracking: what is promised is in a file that can be parsed, or in the   *)
(* one that the holder of the lock is writing.  Collectors drop missing    *)
(* configurations, so no promise may be about one; and the promise of a    *)
(* command that writes the file is about what it has written.              *)
(***************************************************************************)
PromisesExist == \A c \in known : file[c] # "missing"

WritesItsOwn == \A p \in Commands : pc[p] = "tracking" => ConfigOf[p] \in tracked

TrackingInv == TrackingKept /\ PromisesExist /\ WritesItsOwn

\* The others still write after a step of p, which writes neither before nor after.
LEMMA WritersStay ==
  ASSUME TypeOK, TrackingInv, NEW p \in Processes, NEW place \in Places, Go(p, place),
         pc[p] \notin {"tracking", "retrack"}, place \notin {"tracking", "retrack"},
         UNCHANGED <<tracked, torn, known, file>>
  PROVE  TrackingInv'
<1>1. \A q \in Processes : pc[q] \in {"tracking", "retrack"} => pc'[q] = pc[q]
  BY DEF Go, TypeOK
<1>2. \A q \in Processes : pc'[q] = "tracking" => pc[q] = "tracking"
  BY DEF Go, TypeOK
<1>3. TrackingKept'
  BY <1>1 DEF TrackingInv, TrackingKept
<1>4. WritesItsOwn'
  BY <1>2 DEF TrackingInv, WritesItsOwn, Processes
<1> QED
  BY <1>3, <1>4 DEF TrackingInv, PromisesExist

\* A process that writes and dies takes the promises with it.
LEMMA WriterLost ==
  ASSUME TypeOK, TrackingInv, NEW p \in Processes, Go(p, "ended"), LoseTracking(p),
         UNCHANGED <<tracked, torn, file>>
  PROVE  TrackingInv'
<1>1. CASE pc[p] \in {"tracking", "retrack"}
  <2>1. known' = {}
    BY <1>1 DEF LoseTracking
  <2>2. \A q \in Processes : pc'[q] = "tracking" => pc[q] = "tracking"
    BY DEF Go, TypeOK
  <2> QED
    BY <2>1, <2>2 DEF TrackingInv, TrackingKept, PromisesExist, WritesItsOwn, Processes
<1>2. CASE pc[p] \notin {"tracking", "retrack"}
  BY <1>2, WritersStay DEF LoseTracking, Places
<1> QED
  BY <1>1, <1>2

LEMMA TrackingStep ==
  TypeOK /\ StoreExclusive /\ TrackingInv /\ [Next]_vars => TrackingInv'
<1> SUFFICES ASSUME TypeOK, StoreExclusive, TrackingInv, [Next]_vars PROVE TrackingInv'
  OBVIOUS
<1>0. \A p, q \in Processes : pc[p] \in Locked /\ pc[q] \in Locked => p = q
  BY DEF StoreExclusive
<1>1. ASSUME UNCHANGED <<file, tracked, torn, known, pc>> PROVE TrackingInv'
  BY <1>1 DEF TrackingInv, TrackingKept, PromisesExist, WritesItsOwn
<1>2. ASSUME NEW p \in Processes, Start(p) \/ Lock(p) PROVE TrackingInv'
  <2>1. UNCHANGED <<tracked, torn, known, file>> /\ pc[p] \notin {"tracking", "retrack"}
    BY <1>2 DEF Start, Lock, configs, tracking
  <2>2. \E place \in Places \ {"tracking", "retrack"} : Go(p, place)
    BY <1>2 DEF Start, Lock, Places, Locked
  <2> QED
    BY <2>1, <2>2, WritersStay
<1>3. ASSUME NEW p \in Commands, Load(p) PROVE TrackingInv'
  BY <1>3, WritersStay DEF Load, End, configs, tracking, Places, Processes
<1>4. ASSUME NEW p \in Commands, Track(p) PROVE TrackingInv'
  <2>1. torn => known = {}
    BY <1>0, <1>4 DEF Track, TrackingInv, TrackingKept, Locked, Processes
  <2>2. known \subseteq TrackedConfigs
    BY <2>1 DEF TrackedConfigs, TrackingInv, TrackingKept
  <2>3. \A q \in Commands : q # p => pc[q] # "tracking"
    BY <1>0, <1>4 DEF Track, Locked, Processes
  <2>4. CASE ConfigOf[p] \in TrackedConfigs /\ Go(p, "clone") /\ Promise(p) /\ UNCHANGED <<tracked, torn>>
    <3>1. ~torn /\ ConfigOf[p] \in tracked
      BY <2>4 DEF TrackedConfigs
    <3>2. \A q \in Commands : pc'[q] # "tracking"
      BY <2>3, <2>4 DEF Go, TypeOK, Processes
    <3>3. known' \subseteq known \cup {ConfigOf[p]} /\ PromisesExist'
      BY <1>4, <2>4 DEF Promise, Track, configs, TrackingInv, PromisesExist
    <3> QED
      BY <2>4, <3>1, <3>2, <3>3 DEF TrackingInv, TrackingKept, WritesItsOwn
  <2>5. CASE /\ tracked' = Extended(ConfigOf[p]) /\ torn' = TRUE
             /\ Go(p, "tracking") /\ UNCHANGED known
    <3>1. pc'[p] = "tracking" /\ \A q \in Commands : q # p => pc'[q] # "tracking"
      BY <2>3, <2>5 DEF Go, TypeOK, Processes
    <3>2. known' \subseteq tracked' /\ ConfigOf[p] \in tracked'
      BY <2>2, <2>5 DEF Extended
    <3>3. PromisesExist'
      BY <1>4, <2>5 DEF Track, configs, TrackingInv, PromisesExist
    <3> QED
      BY <3>1, <3>2, <3>3 DEF TrackingInv, TrackingKept, WritesItsOwn, Processes
  <2> QED
    BY <1>4, <2>4, <2>5 DEF Track
<1>5. ASSUME NEW p \in Commands, Tracked(p) PROVE TrackingInv'
  <2>1. \A q \in Commands : pc'[q] # "tracking"
    BY <1>0, <1>5 DEF Tracked, Go, TypeOK, Locked, Processes
  <2>2. known' \subseteq known \cup {ConfigOf[p]} /\ PromisesExist'
    BY <1>5 DEF Tracked, Promise, configs, TrackingInv, PromisesExist
  <2>3. known' \subseteq tracked'
    BY <1>5, <2>2 DEF Tracked, TrackingInv, TrackingKept, WritesItsOwn
  <2> QED
    BY <1>5, <2>1, <2>2, <2>3 DEF Tracked, TrackingInv, TrackingKept, WritesItsOwn
<1>6. ASSUME NEW p \in Commands, HooksInitialised(p) PROVE TrackingInv'
  <2>1. UNCHANGED <<tracked, torn, known, file>> /\ pc[p] \notin {"tracking", "retrack"}
    BY <1>6 DEF HooksInitialised, configs, tracking
  <2>2. \E place \in Places \ {"tracking", "retrack"} : Go(p, place)
    BY <1>6 DEF HooksInitialised, End, Places, Locked
  <2> QED
    BY <2>1, <2>2, WritersStay DEF Processes
<1>7. ASSUME NEW p \in Commands, Installed(p) PROVE TrackingInv'
  BY <1>7, WritersStay DEF Installed, End, configs, tracking, Places, Processes
<1>8. ASSUME NEW p \in Commands, HooksEnd(p) PROVE TrackingInv'
  BY <1>8, WritersStay DEF HooksEnd, End, configs, tracking, Places, Processes
<1>9. ASSUME NEW p \in Commands, Fail(p) PROVE TrackingInv'
  BY <1>9, WriterLost DEF Fail, End, configs, Processes
<1>10. ASSUME NEW p \in Processes, Kill(p) PROVE TrackingInv'
  BY <1>10, WriterLost DEF Kill, End, configs
<1>11. ASSUME NEW g \in Collectors, GiveUp(g) PROVE TrackingInv'
  BY <1>11, WriterLost DEF GiveUp, End, configs, Processes
<1>12. ASSUME NEW g \in Collectors, Nothing(g) \/ SweepScratch(g) PROVE TrackingInv'
  BY <1>12, WritersStay DEF Nothing, SweepScratch, End, configs, tracking, Places, Processes
<1>13. ASSUME NEW g \in Collectors, SweepRepos(g) \/ SweepEnvs(g) \/ SweepTools(g) PROVE TrackingInv'
  <2>1. UNCHANGED <<tracked, torn, known, file>> /\ pc[g] \notin {"tracking", "retrack"}
    BY <1>13 DEF SweepRepos, SweepEnvs, SweepTools, configs, tracking
  <2>2. \E place \in Places \ {"tracking", "retrack"} : Go(g, place)
    BY <1>13 DEF SweepRepos, SweepEnvs, SweepTools, Places, Locked
  <2> QED
    BY <2>1, <2>2, WritersStay DEF Processes
<1>14. ASSUME NEW g \in Collectors, Mark(g) PROVE TrackingInv'
  <2>1. ~torn /\ TrackedConfigs = tracked
    BY <1>14 DEF Mark, TrackedConfigs
  <2>2. known \subseteq KeptConfigs
    BY <2>1 DEF KeptConfigs, TrackingInv, TrackingKept, PromisesExist
  <2>3. CASE Go(g, "repos") /\ UNCHANGED <<tracked, torn>>
    <3>1. UNCHANGED <<tracked, torn, known, file>> /\ pc[g] \notin {"tracking", "retrack"}
      BY <1>14, <2>3 DEF Mark, configs
    <3>2. "repos" \in Places
      BY DEF Places, Locked
    <3> QED
      BY <2>3, <3>1, <3>2, WritersStay DEF Processes
  <2>4. CASE Go(g, "retrack") /\ tracked' = KeptConfigs /\ torn' = TRUE
    <3>1. \A q \in Commands : pc'[q] # "tracking"
      BY <1>0, <1>14, <2>4 DEF Mark, Go, TypeOK, Locked, Processes
    <3>2. pc'[g] = "retrack"
      BY <2>4 DEF Go, TypeOK, Processes
    <3> QED
      BY <1>14, <2>2, <2>4, <3>1, <3>2
         DEF Mark, configs, TrackingInv, TrackingKept, PromisesExist, WritesItsOwn, Processes
  <2> QED
    BY <1>14, <2>3, <2>4 DEF Mark
<1>15. ASSUME NEW g \in Collectors, Retracked(g) PROVE TrackingInv'
  <2>1. \A q \in Commands : pc'[q] = "tracking" => pc[q] = "tracking"
    BY <1>15 DEF Retracked, Go, TypeOK, Processes
  <2> QED
    BY <1>15, <2>1 DEF Retracked, configs, TrackingInv, TrackingKept, PromisesExist, WritesItsOwn
<1>16. ASSUME NEW p \in Commands, NEW r \in Repos, Clone(p, r) \/ Place(p, r) \/ MarkRepo(p, r)
       PROVE  TrackingInv'
  BY <1>1, <1>16 DEF Clone, Place, MarkRepo, configs, tracking
<1>17. ASSUME NEW p \in Commands, NEW e \in Envs, Reuse(p, e) \/ Build(p, e) \/ MarkEnv(p, e)
       PROVE  TrackingInv'
  BY <1>1, <1>17 DEF Reuse, Build, MarkEnv, configs, tracking
<1>18. ASSUME NEW c \in Configs, Edit(c) PROVE TrackingInv'
  <2>1. PICK what \in Files : file' = [file EXCEPT ![c] = what]
    BY <1>18 DEF Edit
  <2>2. known' \subseteq known /\ (c \in known' => what # "missing")
    BY <1>18, <2>1 DEF Edit, TypeOK
  <2>3. PromisesExist'
    BY <2>1, <2>2 DEF TrackingInv, PromisesExist, TypeOK
  <2> QED
    BY <1>18, <2>2, <2>3 DEF Edit, TrackingInv, TrackingKept, WritesItsOwn
<1>19. CASE UNCHANGED vars
  BY <1>1, <1>19 DEF vars
<1> QED
  BY <1>2, <1>3, <1>4, <1>5, <1>6, <1>7, <1>8, <1>9, <1>10, <1>11, <1>12, <1>13, <1>14,
     <1>15, <1>16, <1>17, <1>18, <1>19
     DEF Next, Step, Command, Collect, AllEnded

(***************************************************************************)
(* A tracked configuration stays tracked while its file exists, unless a   *)
(* process dies while it rewrites the tracking file.                       *)
(***************************************************************************)
THEOREM TrackingStays == Spec => []TrackingKept
<1>1. Init => TrackingInv
  <2> SUFFICES ASSUME Init PROVE TrackingInv
    OBVIOUS
  <2>1. known = {c \in tracked : file[c] # "missing"} /\ torn = FALSE
    BY DEF Init
  <2>2. \A p \in Commands : pc[p] = "start"
    BY DEF Init, Processes
  <2> QED
    BY <2>1, <2>2 DEF TrackingInv, TrackingKept, PromisesExist, WritesItsOwn
<1>2. TrackingInv => TrackingKept
  BY DEF TrackingInv
<1> QED
  BY <1>1, <1>2, TrackingStep, StoreTyping, OneWriter, PTL DEF Spec

-----------------------------------------------------------------------------
(***************************************************************************)
(* The inductive invariant behind UsedIsPresent.  A command is fresh while *)
(* its configuration is as it was loaded and its tracking was not lost; it *)
(* is registered once it has written the tracking file.                    *)
(***************************************************************************)
Fresh(p) == Tracks(p) /\ p \notin stale

Loaded == {"lock", "track", "tracking", "clone", "relock", "install", "hooks"}
Registered == {"tracking", "clone", "relock", "install", "hooks"}
Swept == {"retrack", "repos", "envs", "tools", "scratch"}

\* The file still says what a fresh command has loaded from it.
LoadedIsCurrent ==
  \A p \in Commands :
    Fresh(p) /\ pc[p] \in Loaded =>
      file[ConfigOf[p]] = "good" /\ plan[p] \subseteq refs[ConfigOf[p]]

RegisteredIsTracked ==
  \A p \in Commands : Fresh(p) /\ pc[p] \in Registered => ConfigOf[p] \in tracked

\* The tracking file is unreadable only while it is written, or nobody relies on it.
TornIsHarmless ==
  torn => \/ \E q \in Processes : pc[q] \in {"tracking", "retrack"}
          \/ \A p \in Commands : Fresh(p) => pc[p] \notin Registered

\* Only what has no marker is cloned and replaced.
ClonesTheMissing ==
  \A p \in Commands : \A r \in Repos :
    clone[p][r] # "none" => pc[p] = "clone" /\ r \in Missing(p)

BuildsAreUnmarked ==
  \A p \in Commands : \A e \in building[p] :
    /\ pc[p] = "install"
    /\ env[e] = "partial"
    /\ purpose[e] \in plan[p]
    /\ toolchain[e] \in tools \cup {"system"}

UsesThePlan ==
  \A p \in Commands :
    /\ using[p] # {} => pc[p] \in {"install", "hooks"}
    /\ Fresh(p) => \A e \in using[p] : purpose[e] \in plan[p]

\* A collector has marked everything that the fresh commands outside of the lock use.
MarksTheUsed ==
  \A g \in Collectors, p \in Commands :
    Fresh(p) /\ pc[p] \in {"relock", "hooks"} /\ pc[g] \in Swept =>
      /\ plan[p] \subseteq keep[g].repos
      /\ using[p] \subseteq keep[g].envs
      /\ \A e \in using[p] : toolchain[e] \in keep[g].tools \cup {"system"}

UsedInv ==
  /\ LoadedIsCurrent /\ RegisteredIsTracked /\ TornIsHarmless
  /\ ClonesTheMissing /\ BuildsAreUnmarked
  /\ UsesThePlan /\ MarksTheUsed /\ UsedIsPresent

\* The lock keeps the steps of two processes apart.
LEMMA OneLocked ==
  ASSUME StoreExclusive, NEW p \in Processes, NEW q \in Processes,
         pc[p] \in Locked, pc[q] \in Locked
  PROVE  p = q
BY DEF StoreExclusive

\* A process ends: nobody else loses anything.
LEMMA Ends ==
  ASSUME TypeOK, StoreExclusive, UsedInv, NEW p \in Processes, End(p),
         UNCHANGED <<file, refs, tracked, torn, repo, purpose, toolchain, tools, keep>>,
         stale \subseteq stale',
         pc[p] \in {"tracking", "retrack"} =>
           \A q \in Commands : pc[q] \in Registered => q \in stale',
         env' = env \/ (p \in Commands /\ \A e \in Envs \ building[p] : env'[e] = env[e])
  PROVE  UsedInv'
<1>1. /\ pc'[p] = "ended"
      /\ \A q \in Processes : q # p => pc'[q] = pc[q]
  BY DEF End, Go, TypeOK
<1>2. \A q \in Commands : q # p => /\ plan'[q] = plan[q] /\ clone'[q] = clone[q]
                                   /\ building'[q] = building[q] /\ using'[q] = using[q]
  BY DEF End
<1>3. p \in Commands => clone'[p] = NothingYet /\ building'[p] = {} /\ using'[p] = {}
  BY DEF End
<1>4. \A q \in Commands : Fresh(q)' => Fresh(q)
  BY DEF Fresh, Tracks
<1>5. \A q \in Commands : q # p => \A e \in building[q] : env'[e] = env[e]
  BY OneLocked DEF UsedInv, BuildsAreUnmarked, Locked, Processes, TypeOK
<1>6. \A e \in Envs : env[e] = "marked" => env'[e] = env[e]
  BY DEF UsedInv, BuildsAreUnmarked, TypeOK
<1>7. LoadedIsCurrent'
  BY <1>1, <1>2, <1>4 DEF UsedInv, LoadedIsCurrent, Loaded, Processes
<1>8. RegisteredIsTracked'
  BY <1>1, <1>4 DEF UsedInv, RegisteredIsTracked, Registered, Processes
<1>9. TornIsHarmless'
  <2>1. CASE pc[p] \in {"tracking", "retrack"}
    BY <1>1, <2>1 DEF TornIsHarmless, Fresh, Registered, Processes
  <2>2. CASE pc[p] \notin {"tracking", "retrack"}
    BY <1>1, <1>4, <2>2 DEF UsedInv, TornIsHarmless, Registered, Processes
  <2> QED
    BY <2>1, <2>2
<1>10. ClonesTheMissing'
  BY <1>1, <1>2, <1>3 DEF UsedInv, ClonesTheMissing, Missing, NothingYet, Processes
<1>11. BuildsAreUnmarked'
  BY <1>1, <1>2, <1>3, <1>5 DEF UsedInv, BuildsAreUnmarked, Processes
<1>12. UsesThePlan'
  BY <1>1, <1>2, <1>3, <1>4 DEF UsedInv, UsesThePlan, Processes
<1>13. MarksTheUsed'
  BY <1>1, <1>2, <1>4 DEF UsedInv, MarksTheUsed, Processes, Swept
<1>14. UsedIsPresent'
  <2> SUFFICES ASSUME NEW q \in Commands, Tracks(q), q \notin stale', pc'[q] \in Prepared
               PROVE  RepoPresent(q)' /\ EnvPresent(q)'
    BY DEF UsedIsPresent, Tracks
  <2>1. q # p
    BY <1>1 DEF Prepared
  <2>2. RepoPresent(q) /\ EnvPresent(q)
    BY <1>1, <2>1 DEF UsedInv, UsedIsPresent, Processes
  <2>3. using[q] \subseteq Envs
    BY DEF TypeOK
  <2> QED
    BY <1>2, <1>6, <2>1, <2>2, <2>3 DEF RepoPresent, EnvPresent
<1> QED
  BY <1>7, <1>8, <1>9, <1>10, <1>11, <1>12, <1>13, <1>14 DEF UsedInv

\* A process goes on and nothing else changes but the tracking file's health.
LEMMA Moves ==
  ASSUME TypeOK, StoreExclusive, UsedInv, NEW p \in Processes, NEW place \in Places, Go(p, place),
         UNCHANGED <<file, refs, tracked, repo, env, purpose, toolchain, tools,
                     plan, clone, building, using, keep, stale>>,
         torn' = FALSE \/ (torn' = torn /\ pc[p] \notin {"tracking", "retrack"}),
         place \in Swept => p \in Collectors /\ pc[p] \in Swept,
         p \in Commands =>
           /\ \A r \in Repos : clone[p][r] = "none"
           /\ building[p] = {}
           /\ using[p] # {} => place = "hooks"
           /\ place \in {"relock", "hooks"} => pc[p] \in Locked
           /\ Fresh(p) => /\ place \in Loaded => pc[p] \in Loaded
                          /\ place \in Registered => ConfigOf[p] \in tracked /\ ~torn'
                          /\ place \in Prepared => RepoPresent(p) /\ EnvPresent(p)
  PROVE  UsedInv'
<1>1. /\ pc'[p] = place
      /\ \A q \in Processes : q # p => pc'[q] = pc[q]
  BY DEF Go, TypeOK
<1>2. \A q \in Commands : Fresh(q)' <=> Fresh(q)
  BY DEF Fresh, Tracks
<1>3. LoadedIsCurrent'
  BY <1>1, <1>2 DEF UsedInv, LoadedIsCurrent, Processes
<1>4. RegisteredIsTracked'
  BY <1>1, <1>2 DEF UsedInv, RegisteredIsTracked, Processes
<1>5. TornIsHarmless'
  <2>1. CASE torn' = FALSE
    BY <2>1 DEF TornIsHarmless
  <2>2. CASE torn' = torn /\ pc[p] \notin {"tracking", "retrack"}
    <3>1. ASSUME NEW q \in Processes, pc[q] \in {"tracking", "retrack"} PROVE TornIsHarmless'
      BY <1>1, <2>2, <3>1 DEF TornIsHarmless
    <3>2. ASSUME torn, \A q \in Commands : Fresh(q) => pc[q] \notin Registered
          PROVE  TornIsHarmless'
      BY <1>1, <1>2, <2>2, <3>2 DEF TornIsHarmless, Processes
    <3>3. CASE ~torn
      BY <2>2, <3>3 DEF TornIsHarmless
    <3> QED
      BY <3>1, <3>2, <3>3 DEF UsedInv, TornIsHarmless
  <2> QED
    BY <2>1, <2>2
<1>6. ClonesTheMissing'
  BY <1>1 DEF UsedInv, ClonesTheMissing, Missing, Processes
<1>7. BuildsAreUnmarked'
  BY <1>1 DEF UsedInv, BuildsAreUnmarked, Processes
<1>8. UsesThePlan'
  BY <1>1, <1>2 DEF UsedInv, UsesThePlan, Processes
<1>9. MarksTheUsed'
  <2> SUFFICES ASSUME NEW g \in Collectors, NEW q \in Commands, Fresh(q),
                      pc'[q] \in {"relock", "hooks"}, pc'[g] \in Swept
               PROVE  pc[q] \in {"relock", "hooks"} /\ pc[g] \in Swept
    BY <1>2 DEF UsedInv, MarksTheUsed
  <2>1. g # q /\ g \in Processes /\ q \in Processes
    BY DisjointAssumption DEF Processes
  <2>2. pc[g] \in Swept
    BY <1>1, <2>1
  <2>3. pc[g] \in Locked
    BY <2>2 DEF Swept, Locked
  <2> QED
    BY <1>1, <2>1, <2>2, <2>3, OneLocked
<1>10. UsedIsPresent'
  BY <1>1, <1>2 DEF UsedInv, UsedIsPresent, RepoPresent, EnvPresent, Fresh, Tracks, Processes
<1> QED
  BY <1>3, <1>4, <1>5, <1>6, <1>7, <1>8, <1>9, <1>10 DEF UsedInv

\* The steps that change what a command has loaded or tracked.
LEMMA LoadStep ==
  ASSUME TypeOK, StoreExclusive, UsedInv, NEW p \in Commands, Load(p)
  PROVE  UsedInv'
<1>1. CASE file[ConfigOf[p]] # "good" /\ End(p)
  BY <1>1, Ends DEF Load, configs, tracking, envs, Processes
<1>2. CASE /\ file[ConfigOf[p]] = "good"
           /\ \E selected \in SUBSET refs[ConfigOf[p]] : plan' = [plan EXCEPT ![p] = selected]
           /\ Go(p, "lock")
           /\ UNCHANGED <<clone, building, using>>
  <2>1. /\ pc[p] = "load" /\ pc'[p] = "lock"
        /\ \A q \in Processes : q # p => pc'[q] = pc[q]
    BY <1>2 DEF Load, Go, TypeOK, Processes
  <2>2. /\ plan'[p] \subseteq refs[ConfigOf[p]]
        /\ \A q \in Commands : q # p => plan'[q] = plan[q]
    <3>1. PICK selected \in SUBSET refs[ConfigOf[p]] : plan' = [plan EXCEPT ![p] = selected]
      BY <1>2
    <3> QED
      BY <3>1 DEF TypeOK
  <2>3. UNCHANGED <<file, refs, tracked, torn, repo, env, purpose, toolchain, tools, keep, stale>>
    BY <1>2 DEF Load, configs, tracking, envs
  <2>4. LoadedIsCurrent'
    BY <1>2, <2>1, <2>2, <2>3 DEF UsedInv, LoadedIsCurrent, Fresh, Tracks, Processes
  <2>5. RegisteredIsTracked' /\ TornIsHarmless'
    <3>1. RegisteredIsTracked'
      BY <2>1, <2>3 DEF UsedInv, RegisteredIsTracked, Registered, Fresh, Tracks, Processes
    <3>2. \A q \in Processes : pc[q] \in {"tracking", "retrack"} => pc'[q] = pc[q]
      BY <2>1
    <3>3. \A q \in Commands : pc'[q] \in Registered => pc[q] \in Registered
      BY <2>1 DEF Registered, Processes
    <3> QED
      BY <2>3, <3>1, <3>2, <3>3 DEF UsedInv, TornIsHarmless, Fresh, Tracks
  <2>6. ClonesTheMissing'
    BY <1>2, <2>1, <2>2, <2>3 DEF UsedInv, ClonesTheMissing, Missing, Processes
  <2>7. BuildsAreUnmarked'
    BY <1>2, <2>1, <2>2, <2>3 DEF UsedInv, BuildsAreUnmarked, Processes
  <2>8. UsesThePlan'
    BY <1>2, <2>1, <2>2, <2>3 DEF UsedInv, UsesThePlan, Fresh, Tracks, Processes
  <2>9. MarksTheUsed'
    BY <1>2, <2>1, <2>2, <2>3 DEF UsedInv, MarksTheUsed, Fresh, Tracks, Processes, Swept
  <2>10. UsedIsPresent'
    BY <1>2, <2>1, <2>2, <2>3
       DEF UsedInv, UsedIsPresent, RepoPresent, EnvPresent, Tracks, Prepared, Processes
  <2> QED
    BY <2>4, <2>5, <2>6, <2>7, <2>8, <2>9, <2>10 DEF UsedInv
<1> QED
  BY <1>1, <1>2 DEF Load

\* Where the lock is held by somebody who does not write, a torn file hurts nobody.
LEMMA TornUnderLock ==
  ASSUME StoreExclusive, UsedInv, torn, NEW p \in Processes,
         pc[p] \in Locked \ {"tracking", "retrack"}, NEW q \in Commands, Fresh(q)
  PROVE  pc[q] \notin Registered
BY OneLocked DEF UsedInv, TornIsHarmless, Locked

LEMMA TrackStep ==
  ASSUME TypeOK, StoreExclusive, UsedInv, NEW p \in Commands, Track(p)
  PROVE  UsedInv'
<1>0. /\ p \in Processes /\ pc[p] = "track"
      /\ UNCHANGED <<file, refs, repo, env, purpose, toolchain, tools,
                     plan, clone, building, using, keep, stale>>
  BY DEF Track, configs, envs, command, Processes
<1>1. /\ \A r \in Repos : clone[p][r] = "none"
      /\ building[p] = {} /\ using[p] = {}
  BY <1>0 DEF UsedInv, ClonesTheMissing, BuildsAreUnmarked, UsesThePlan
<1>2. CASE /\ ConfigOf[p] \in TrackedConfigs /\ Go(p, "clone") /\ UNCHANGED <<tracked, torn>>
  <2>1. ConfigOf[p] \in tracked /\ ~torn
    BY <1>2 DEF TrackedConfigs
  <2> QED
    BY <1>0, <1>1, <1>2, <2>1, Moves DEF Places, Locked, Swept, Loaded, Prepared
<1>3. CASE /\ tracked' = Extended(ConfigOf[p]) /\ torn' = TRUE /\ Go(p, "tracking")
  <2>1. /\ pc'[p] = "tracking"
        /\ \A q \in Processes : q # p => pc'[q] = pc[q]
    BY <1>0, <1>3 DEF Go, TypeOK
  <2>2. \A q \in Commands : Fresh(q)' <=> Fresh(q)
    BY <1>0 DEF Fresh, Tracks
  <2>3. LoadedIsCurrent'
    BY <1>0, <2>1, <2>2 DEF UsedInv, LoadedIsCurrent, Loaded, Processes
  <2>4. RegisteredIsTracked'
    <3> SUFFICES ASSUME NEW q \in Commands, Fresh(q), pc'[q] \in Registered
                 PROVE  ConfigOf[q] \in tracked'
      BY <2>2 DEF RegisteredIsTracked
    <3>1. CASE q = p
      BY <1>3, <3>1 DEF Extended
    <3>2. CASE q # p
      <4>1. pc[q] \in Registered
        BY <2>1, <3>2 DEF Processes
      <4>2. ~torn
        BY <1>0, <4>1, TornUnderLock DEF Locked
      <4> QED
        BY <1>3, <4>1, <4>2 DEF Extended, TrackedConfigs, UsedInv, RegisteredIsTracked
    <3> QED
      BY <3>1, <3>2
  <2>5. TornIsHarmless'
    BY <1>0, <2>1 DEF TornIsHarmless
  <2>6. ClonesTheMissing'
    BY <1>0, <1>1, <2>1 DEF UsedInv, ClonesTheMissing, Missing, Processes
  <2>7. BuildsAreUnmarked'
    BY <1>0, <1>1, <2>1 DEF UsedInv, BuildsAreUnmarked, Processes
  <2>8. UsesThePlan'
    BY <1>0, <1>1, <2>1, <2>2 DEF UsedInv, UsesThePlan, Processes
  <2>9. MarksTheUsed'
    BY <1>0, <2>1, <2>2 DEF UsedInv, MarksTheUsed, Processes, Swept
  <2>10. UsedIsPresent'
    BY <1>0, <2>1 DEF UsedInv, UsedIsPresent, RepoPresent, EnvPresent, Tracks, Prepared, Processes
  <2> QED
    BY <2>3, <2>4, <2>5, <2>6, <2>7, <2>8, <2>9, <2>10 DEF UsedInv
<1> QED
  BY <1>2, <1>3 DEF Track

LEMMA TrackedStep ==
  ASSUME TypeOK, StoreExclusive, TrackingInv, UsedInv, NEW p \in Commands, Tracked(p)
  PROVE  UsedInv'
<1>0. /\ p \in Processes /\ pc[p] = "tracking" /\ Go(p, "clone") /\ torn' = FALSE
      /\ UNCHANGED <<file, refs, tracked, repo, env, purpose, toolchain, tools,
                     plan, clone, building, using, keep, stale>>
  BY DEF Tracked, configs, envs, command, Processes
<1>1. /\ \A r \in Repos : clone[p][r] = "none"
      /\ building[p] = {} /\ using[p] = {}
  BY <1>0 DEF UsedInv, ClonesTheMissing, BuildsAreUnmarked, UsesThePlan
<1>2. ConfigOf[p] \in tracked
  BY <1>0 DEF TrackingInv, WritesItsOwn
<1>3. /\ "clone" \in Places /\ "clone" \notin Swept \cup Prepared \cup {"relock", "hooks"}
      /\ pc[p] \in Loaded
  BY <1>0 DEF Places, Locked, Swept, Loaded, Prepared
<1>4. ~torn'
  BY <1>0
<1> QED
  BY <1>0, <1>1, <1>2, <1>3, <1>4, Moves

LEMMA StartOrLockStep ==
  ASSUME TypeOK, StoreExclusive, UsedInv, NEW p \in Processes, Start(p) \/ Lock(p)
  PROVE  UsedInv'
<1>0. UNCHANGED <<file, refs, tracked, torn, repo, env, purpose, toolchain, tools,
                  plan, clone, building, using, keep, stale>>
  BY DEF Start, Lock, configs, tracking, envs, command
<1>1. ASSUME p \in Commands, pc[p] \in {"start", "lock", "relock"}
      PROVE  /\ \A r \in Repos : clone[p][r] = "none"
             /\ building[p] = {} /\ using[p] = {}
  BY <1>1 DEF UsedInv, ClonesTheMissing, BuildsAreUnmarked, UsesThePlan
<1>2. CASE Start(p)
  <2> DEFINE place == IF p \in Commands THEN "load" ELSE "lock"
  <2>1. place \in Places /\ place \notin Swept \cup Prepared
    BY DEF Places, Locked, Swept, Prepared
  <2>2. p \in Commands => place \notin Loaded \cup Registered
    BY DEF Loaded, Registered
  <2>3. p \in Commands => place \notin {"relock", "hooks"}
    BY <2>1 DEF Prepared
  <2>4. pc[p] = "start" /\ Go(p, place)
    BY <1>2 DEF Start
  <2> HIDE DEF place
  <2> QED
    BY <1>0, <1>1, <2>1, <2>2, <2>3, <2>4, Moves
<1>3. CASE lock = "free" /\ pc[p] = "relock" /\ Go(p, "install")
  <2>1. ASSUME p \in Commands, Fresh(p)
        PROVE  ConfigOf[p] \in tracked /\ RepoPresent(p) /\ EnvPresent(p) /\ ~torn
    <3>1. \A q \in Processes : pc[q] \notin {"tracking", "retrack"}
      BY <1>3, NamesAssumption DEF StoreExclusive, Locked
    <3> QED
      BY <1>3, <2>1, <3>1
         DEF UsedInv, RegisteredIsTracked, TornIsHarmless, UsedIsPresent, Registered, Prepared, Fresh
  <2> QED
    BY <1>0, <1>1, <1>3, <2>1, Moves DEF Places, Locked, Swept, Loaded, Prepared
<1>4. CASE /\ pc[p] = "lock"
           /\ Go(p, IF p \in Collectors THEN "mark"
                    ELSE IF Tracks(p) THEN "track" ELSE "clone")
  <2> DEFINE place == IF p \in Collectors THEN "mark"
                      ELSE IF Tracks(p) THEN "track" ELSE "clone"
  <2>1. place \in Places /\ place \notin Swept \cup Prepared
    BY DEF Places, Locked, Swept, Prepared
  <2>2. p \in Commands /\ Fresh(p) => place = "track"
    BY DisjointAssumption DEF Fresh
  <2>3. p \in Commands => place \notin {"relock", "hooks"}
    BY <2>1 DEF Prepared
  <2>4. place = "track" => place \in Loaded /\ place \notin Registered
    BY DEF Loaded, Registered
  <2>5. pc[p] \in Loaded
    BY <1>4 DEF Loaded
  <2> HIDE DEF place
  <2> QED
    BY <1>0, <1>1, <1>4, <2>1, <2>2, <2>3, <2>4, <2>5, Moves DEF place
<1> QED
  BY <1>2, <1>3, <1>4 DEF Lock

-----------------------------------------------------------------------------
\* What is at rest while p holds the lock.
LEMMA AloneWithLock ==
  ASSUME StoreExclusive, UsedInv, NEW p \in Processes, pc[p] \in Locked, NEW q \in Commands, q # p
  PROVE  /\ \A r \in Repos : clone[q][r] = "none"
         /\ building[q] = {}
         /\ pc[q] \in Prepared => pc[q] \in {"relock", "hooks"}
<1>1. pc[q] \notin Locked
  BY OneLocked DEF Processes
<1> QED
  BY <1>1 DEF UsedInv, ClonesTheMissing, BuildsAreUnmarked, Prepared, Locked

\* Cloning changes directories without a marker only.
LEMMA CloneStep ==
  ASSUME TypeOK, StoreExclusive, UsedInv, NEW p \in Commands, NEW r \in Repos,
         Clone(p, r) \/ Place(p, r) \/ MarkRepo(p, r)
  PROVE  UsedInv'
<1>0. /\ p \in Processes /\ pc[p] = "clone"
      /\ UNCHANGED <<file, refs, tracked, torn, env, purpose, toolchain, tools, pc,
                     plan, building, using, keep, stale>>
  BY DEF Clone, Place, MarkRepo, configs, tracking, envs, Processes
<1>1. /\ r \in Missing(p)
      /\ \A s \in Repos : s # r => repo'[s] = repo[s] /\ clone'[p][s] = clone[p][s]
      /\ \A q \in Commands : q # p => clone'[q] = clone[q]
  <2>1. \A s \in Repos : s # r => repo'[s] = repo[s]
    BY DEF Clone, Place, MarkRepo, TypeOK
  <2>2. \E what \in Progress : SetClone(p, r, what)
    BY DEF Clone, Place, MarkRepo, Progress
  <2>3. r \in Missing(p)
    BY DEF Clone, Place, MarkRepo, UsedInv, ClonesTheMissing
  <2> QED
    BY <2>1, <2>2, <2>3 DEF SetClone, TypeOK
<1>2. \/ repo'[r] \notin {"marked", "gutted"}
      \/ repo'[r] = "marked" /\ clone'[p][r] = "none"
  <2>1. CASE Clone(p, r)
    BY <1>1, <2>1 DEF Clone, Missing
  <2>2. CASE Place(p, r)
    BY <2>2 DEF Place, TypeOK
  <2>3. CASE MarkRepo(p, r)
    BY <2>3 DEF MarkRepo, SetClone, TypeOK
  <2> QED
    BY <2>1, <2>2, <2>3
<1>3. LoadedIsCurrent' /\ RegisteredIsTracked' /\ BuildsAreUnmarked' /\ UsesThePlan' /\ MarksTheUsed'
  BY <1>0 DEF UsedInv, LoadedIsCurrent, RegisteredIsTracked, BuildsAreUnmarked, UsesThePlan,
              MarksTheUsed, Fresh, Tracks
<1>4. TornIsHarmless'
  BY <1>0 DEF UsedInv, TornIsHarmless, Fresh, Tracks
<1>5. ClonesTheMissing'
  <2> SUFFICES ASSUME NEW q \in Commands, NEW s \in Repos, clone'[q][s] # "none"
               PROVE  pc'[q] = "clone" /\ s \in Missing(q)'
    BY DEF ClonesTheMissing
  <2>1. q = p
    BY <1>0, <1>1, AloneWithLock DEF Locked
  <2>2. CASE s = r
    BY <1>0, <1>1, <1>2, <2>1, <2>2 DEF Missing
  <2>3. CASE s # r
    BY <1>0, <1>1, <2>1, <2>3 DEF UsedInv, ClonesTheMissing, Missing
  <2> QED
    BY <2>2, <2>3
<1>6. UsedIsPresent'
  <2> SUFFICES ASSUME NEW q \in Commands, Tracks(q), q \notin stale, pc[q] \in Prepared
               PROVE  RepoPresent(q)' /\ EnvPresent(q)'
    BY <1>0 DEF UsedIsPresent, Tracks
  <2>1. RepoPresent(q) /\ EnvPresent(q)
    BY DEF UsedInv, UsedIsPresent
  <2>2. repo[r] # "marked"
    BY <1>1 DEF Missing
  <2>3. plan[q] \subseteq Repos
    BY DEF TypeOK
  <2> QED
    BY <1>0, <1>1, <2>1, <2>2, <2>3 DEF RepoPresent, EnvPresent
<1> QED
  BY <1>3, <1>4, <1>5, <1>6 DEF UsedInv

LEMMA InitialisedStep ==
  ASSUME TypeOK, StoreExclusive, UsedInv, NEW p \in Commands, HooksInitialised(p)
  PROVE  UsedInv'
<1>0. /\ p \in Processes /\ pc[p] = "clone" /\ RepoPresent(p)
      /\ UNCHANGED <<file, refs, tracked, torn, repo, env, purpose, toolchain, tools, keep, stale>>
  BY DEF HooksInitialised, RepoPresent, configs, tracking, envs, Processes
<1>1. CASE End(p)
  BY <1>0, <1>1, Ends
<1>2. ASSUME NEW place \in {"relock", "hooks", "install"}, Go(p, place), UNCHANGED command
      PROVE  UsedInv'
  <2>1. Missing(p) = {}
    BY <1>0 DEF RepoPresent, Missing
  <2>2. /\ \A r \in Repos : clone[p][r] = "none"
        /\ building[p] = {} /\ using[p] = {}
    BY <1>0, <2>1 DEF UsedInv, ClonesTheMissing, BuildsAreUnmarked, UsesThePlan
  <2>3. EnvPresent(p)
    BY <2>2 DEF EnvPresent
  <2>4. ASSUME Fresh(p) PROVE ConfigOf[p] \in tracked /\ ~torn
    BY <1>0, <2>4, TornUnderLock DEF UsedInv, RegisteredIsTracked, Registered, Locked
  <2>5. /\ place \in Places /\ place \notin Swept
        /\ pc[p] \in Locked /\ pc[p] \in Loaded /\ pc[p] \notin {"tracking", "retrack"}
    BY <1>0 DEF Places, Locked, Swept, Loaded
  <2> QED
    BY <1>0, <1>2, <2>2, <2>3, <2>4, <2>5, Moves DEF command
<1> QED
  BY <1>1, <1>2 DEF HooksInitialised

LEMMA InstalledStep ==
  ASSUME TypeOK, StoreExclusive, UsedInv, NEW p \in Commands, Installed(p) \/ HooksEnd(p)
  PROVE  UsedInv'
<1>0. /\ p \in Processes /\ pc[p] \in {"install", "hooks"}
      /\ UNCHANGED <<file, refs, tracked, torn, repo, env, purpose, toolchain, tools, keep, stale>>
  BY DEF Installed, HooksEnd, configs, tracking, envs, Processes
<1>1. CASE End(p)
  BY <1>0, <1>1, Ends
<1>2. CASE pc[p] = "install" /\ building[p] = {} /\ Go(p, "hooks") /\ UNCHANGED command
  <2>1. \A r \in Repos : clone[p][r] = "none"
    BY <1>2 DEF UsedInv, ClonesTheMissing
  <2>2. ASSUME Fresh(p) PROVE ConfigOf[p] \in tracked /\ ~torn /\ RepoPresent(p) /\ EnvPresent(p)
    BY <1>0, <1>2, <2>2, TornUnderLock
       DEF UsedInv, RegisteredIsTracked, UsedIsPresent, Registered, Prepared, Fresh, Locked
  <2>3. /\ "hooks" \in Places /\ "hooks" \notin Swept
        /\ pc[p] \in Locked /\ pc[p] \in Loaded /\ pc[p] \notin {"tracking", "retrack"}
    BY <1>2 DEF Places, Locked, Swept, Loaded
  <2> QED
    BY <1>0, <1>2, <2>1, <2>2, <2>3, Moves DEF command
<1> QED
  BY <1>1, <1>2 DEF Installed, HooksEnd

-----------------------------------------------------------------------------
\* An environment joins those in use: it has a marker and satisfies the plan.
LEMMA EnvStep ==
  ASSUME TypeOK, StoreExclusive, UsedInv, NEW p \in Commands, NEW e \in Envs,
         Reuse(p, e) \/ MarkEnv(p, e)
  PROVE  UsedInv'
<1>0. /\ p \in Processes /\ pc[p] = "install"
      /\ UNCHANGED <<file, refs, tracked, torn, repo, purpose, toolchain, tools, pc,
                     plan, clone, keep, stale>>
  BY DEF Reuse, MarkEnv, configs, tracking, envs, Processes
<1>1. /\ \A d \in Envs : d # e => env'[d] = env[d]
      /\ env'[e] = "marked"
      /\ purpose[e] \in plan[p]
      /\ toolchain[e] \in tools \cup {"system"} \/ purpose[e] \in Unchecked
      /\ using' = [using EXCEPT ![p] = @ \cup {e}]
      /\ building' = [building EXCEPT ![p] = @ \ {e}]
  <2>1. CASE Reuse(p, e)
    <3>1. e \notin building[p]
      BY <2>1 DEF Reuse, UsedInv, BuildsAreUnmarked
    <3>2. building' = [building EXCEPT ![p] = @ \ {e}]
      BY <2>1, <3>1 DEF Reuse, TypeOK
    <3> QED
      BY <2>1, <3>2 DEF Reuse, envs, Healthy, Unresolved
  <2>2. CASE MarkEnv(p, e)
    BY <2>2 DEF MarkEnv, UsedInv, BuildsAreUnmarked, TypeOK
  <2> QED
    BY <2>1, <2>2
<1>2. /\ using'[p] = using[p] \cup {e} /\ building'[p] = building[p] \ {e}
      /\ \A q \in Commands : q # p => using'[q] = using[q] /\ building'[q] = building[q]
  BY <1>1 DEF TypeOK
<1>3. LoadedIsCurrent' /\ RegisteredIsTracked'
  BY <1>0 DEF UsedInv, LoadedIsCurrent, RegisteredIsTracked, Fresh, Tracks
<1>4. TornIsHarmless'
  BY <1>0 DEF UsedInv, TornIsHarmless, Fresh, Tracks
<1>5. ClonesTheMissing'
  BY <1>0 DEF UsedInv, ClonesTheMissing, Missing
<1>6. BuildsAreUnmarked'
  <2> SUFFICES ASSUME NEW q \in Commands, NEW d \in building'[q]
               PROVE  /\ pc[q] = "install" /\ env'[d] = "partial" /\ purpose[d] \in plan[q]
                      /\ toolchain[d] \in tools \cup {"system"}
    BY <1>0 DEF BuildsAreUnmarked
  <2>1. q = p
    BY <1>0, <1>2, AloneWithLock DEF Locked
  <2>2. d \in building[p] /\ d # e
    BY <1>2, <2>1
  <2> QED
    BY <1>1, <2>1, <2>2 DEF UsedInv, BuildsAreUnmarked, TypeOK
<1>7. UsesThePlan'
  BY <1>0, <1>1, <1>2 DEF UsedInv, UsesThePlan, Fresh, Tracks
<1>8. MarksTheUsed'
  BY <1>0, <1>2 DEF UsedInv, MarksTheUsed, Fresh, Tracks
<1>9. UsedIsPresent'
  <2> SUFFICES ASSUME NEW q \in Commands, Tracks(q), q \notin stale, pc[q] \in Prepared
               PROVE  RepoPresent(q)' /\ EnvPresent(q)'
    BY <1>0 DEF UsedIsPresent, Tracks
  <2>1. RepoPresent(q) /\ EnvPresent(q)
    BY DEF UsedInv, UsedIsPresent
  <2>2. using[q] \subseteq Envs
    BY DEF TypeOK
  <2>3. CASE q = p
    BY <1>0, <1>1, <1>2, <2>1, <2>2, <2>3 DEF RepoPresent, EnvPresent
  <2>4. CASE q # p
    BY <1>0, <1>1, <1>2, <2>1, <2>2, <2>4 DEF RepoPresent, EnvPresent
  <2> QED
    BY <2>3, <2>4
<1> QED
  BY <1>3, <1>4, <1>5, <1>6, <1>7, <1>8, <1>9 DEF UsedInv

\* A new environment is nobody's yet.
LEMMA BuildStep ==
  ASSUME TypeOK, StoreExclusive, UsedInv, NEW p \in Commands, NEW e \in Envs, Build(p, e)
  PROVE  UsedInv'
<1>0. /\ p \in Processes /\ pc[p] = "install" /\ env[e] = "absent"
      /\ UNCHANGED <<file, refs, tracked, torn, repo, pc, plan, clone, using, keep, stale>>
  BY DEF Build, configs, tracking, Processes
<1>1. /\ env'[e] = "partial"
      /\ \A d \in Envs : d # e => /\ env'[d] = env[d] /\ purpose'[d] = purpose[d]
                                  /\ toolchain'[d] = toolchain[d]
  BY DEF Build, TypeOK
<1>2. purpose'[e] \in plan[p]
  BY DEF Build, Unresolved, TypeOK
<1>3. tools \subseteq tools' /\ toolchain'[e] \in tools' \cup {"system"}
  BY NamesAssumption DEF Build, TypeOK
<1>4. /\ building'[p] = building[p] \cup {e}
      /\ \A q \in Commands : q # p => building'[q] = building[q]
  BY DEF Build, TypeOK
<1>5. LoadedIsCurrent' /\ RegisteredIsTracked'
  BY <1>0 DEF UsedInv, LoadedIsCurrent, RegisteredIsTracked, Fresh, Tracks
<1>6. TornIsHarmless'
  BY <1>0 DEF UsedInv, TornIsHarmless, Fresh, Tracks
<1>7. ClonesTheMissing'
  BY <1>0 DEF UsedInv, ClonesTheMissing, Missing
<1>8. BuildsAreUnmarked'
  <2> SUFFICES ASSUME NEW q \in Commands, NEW d \in building'[q]
               PROVE  /\ pc[q] = "install" /\ env'[d] = "partial" /\ purpose'[d] \in plan[q]
                      /\ toolchain'[d] \in tools' \cup {"system"}
    BY <1>0 DEF BuildsAreUnmarked
  <2>1. q = p
    BY <1>0, <1>4, AloneWithLock DEF Locked
  <2>2. CASE d = e
    BY <1>0, <1>1, <1>2, <1>3, <2>1, <2>2
  <2>3. CASE d # e
    <3>1. d \in building[p] /\ d \in Envs
      BY <1>4, <2>1, <2>3 DEF TypeOK
    <3> QED
      BY <1>1, <1>3, <2>1, <2>3, <3>1 DEF UsedInv, BuildsAreUnmarked
  <2> QED
    BY <2>2, <2>3
<1>9. \A q \in Commands : Fresh(q) => e \notin using[q] /\ using[q] \subseteq Envs
  <2>1. \A q \in Commands : Fresh(q) /\ e \in using[q] => pc[q] \in Prepared
    BY DEF UsedInv, UsesThePlan, Prepared
  <2> QED
    BY <1>0, <2>1 DEF UsedInv, UsedIsPresent, EnvPresent, Fresh, TypeOK
<1>10. UsesThePlan'
  BY <1>0, <1>1, <1>9 DEF UsedInv, UsesThePlan, Fresh, Tracks
<1>11. MarksTheUsed'
  BY <1>0, <1>1, <1>9 DEF UsedInv, MarksTheUsed, Fresh, Tracks
<1>12. UsedIsPresent'
  <2> SUFFICES ASSUME NEW q \in Commands, Tracks(q), q \notin stale, pc[q] \in Prepared
               PROVE  RepoPresent(q)' /\ EnvPresent(q)'
    BY <1>0 DEF UsedIsPresent, Tracks
  <2>1. RepoPresent(q) /\ EnvPresent(q)
    BY DEF UsedInv, UsedIsPresent
  <2> QED
    BY <1>0, <1>1, <1>3, <1>9, <2>1 DEF RepoPresent, EnvPresent, Fresh
<1> QED
  BY <1>5, <1>6, <1>7, <1>8, <1>10, <1>11, <1>12 DEF UsedInv

\* Failing and dying.
LEMMA EndStep ==
  ASSUME TypeOK, StoreExclusive, UsedInv, NEW p \in Processes,
         \/ Kill(p)
         \/ p \in Commands /\ Fail(p)
         \/ p \in Collectors /\ (Nothing(p) \/ SweepScratch(p) \/ GiveUp(p))
  PROVE  UsedInv'
<1>1. End(p) /\ UNCHANGED <<file, refs, tracked, torn, repo, purpose, toolchain, tools, keep>>
  BY DEF Kill, Fail, Nothing, SweepScratch, GiveUp, configs, tracking, envs
<1>2. /\ stale \subseteq stale'
      /\ pc[p] \in {"tracking", "retrack"} =>
           \A q \in Commands : pc[q] \in Registered => q \in stale'
  BY DEF Kill, Fail, Nothing, SweepScratch, GiveUp, LoseTracking, Registered
<1>3. env' = env \/ (p \in Commands /\ \A e \in Envs \ building[p] : env'[e] = env[e])
  BY DEF Kill, Fail, Nothing, SweepScratch, GiveUp, envs
<1> QED
  BY <1>1, <1>2, <1>3, Ends

\* What a fresh command relies on outside of the lock is marked.
LEMMA MarkStep ==
  ASSUME TypeOK, StoreExclusive, UsedInv, NEW g \in Collectors, Mark(g)
  PROVE  UsedInv'
<1>0. /\ g \in Processes /\ g \notin Commands /\ pc[g] = "mark"
      /\ ~torn /\ TrackedConfigs = tracked
      /\ UNCHANGED <<file, refs, repo, env, purpose, toolchain, tools, plan, clone, building,
                     using, stale>>
  BY DisjointAssumption DEF Mark, TrackedConfigs, configs, envs, command, Processes
<1>1. /\ pc'[g] \in {"repos", "retrack"}
      /\ \A q \in Processes : q # g => pc'[q] = pc[q]
      /\ torn' => pc'[g] = "retrack"
  BY <1>0 DEF Mark, Go, TypeOK
<1>2. \A q \in Commands : pc'[q] = pc[q] /\ (Fresh(q)' <=> Fresh(q))
  BY <1>0, <1>1 DEF Fresh, Tracks, Processes
<1>3. LoadedIsCurrent'
  BY <1>0, <1>2 DEF UsedInv, LoadedIsCurrent
<1>4. RegisteredIsTracked'
  <2> SUFFICES ASSUME NEW q \in Commands, Fresh(q), pc[q] \in Registered
               PROVE  ConfigOf[q] \in tracked'
    BY <1>2 DEF RegisteredIsTracked
  <2>1. ConfigOf[q] \in tracked /\ file[ConfigOf[q]] = "good"
    BY DEF UsedInv, RegisteredIsTracked, LoadedIsCurrent, Registered, Loaded
  <2>2. tracked' \in {tracked, KeptConfigs}
    BY DEF Mark
  <2> QED
    BY <1>0, <2>1, <2>2 DEF KeptConfigs
<1>5. TornIsHarmless'
  BY <1>0, <1>1 DEF TornIsHarmless
<1>6. ClonesTheMissing' /\ BuildsAreUnmarked'
  BY <1>0, <1>2 DEF UsedInv, ClonesTheMissing, Missing, BuildsAreUnmarked
<1>7. UsesThePlan'
  BY <1>0, <1>2 DEF UsedInv, UsesThePlan
<1>8. MarksTheUsed'
  <2> SUFFICES ASSUME NEW h \in Collectors, NEW q \in Commands, Fresh(q),
                      pc[q] \in {"relock", "hooks"}, pc'[h] \in Swept
               PROVE  /\ plan[q] \subseteq keep'[h].repos
                      /\ using[q] \subseteq keep'[h].envs
                      /\ \A e \in using[q] : toolchain[e] \in keep'[h].tools \cup {"system"}
    BY <1>0, <1>2 DEF MarksTheUsed
  <2>1. h = g
    <3>1. ASSUME h # g PROVE FALSE
      <4>1. pc[h] \in Swept /\ h \in Processes
        BY <1>1, <3>1 DEF Processes
      <4> QED
        BY <1>0, <3>1, <4>1, OneLocked DEF Swept, Locked
    <3> QED
      BY <3>1
  <2>2. PICK readable \in SUBSET Readable :
          /\ \A r \in Repos : repo[r] = "marked" => r \in readable
          /\ keep' = [keep EXCEPT ![g] = MarksOf(readable)]
    BY DEF Mark
  <2>3. keep'[g] = MarksOf(readable)
    BY <2>2 DEF TypeOK
  <2>4. plan[q] \subseteq UsedRepos
    <3>1. /\ ConfigOf[q] \in tracked /\ file[ConfigOf[q]] = "good"
          /\ plan[q] \subseteq refs[ConfigOf[q]]
      BY DEF UsedInv, RegisteredIsTracked, LoadedIsCurrent, Registered, Loaded
    <3> QED
      BY <1>0, <3>1 DEF UsedRepos
  <2>5. plan[q] \subseteq Repos /\ using[q] \subseteq Envs
    BY DEF TypeOK
  <2>6. plan[q] \subseteq UsedRepos \cap readable
    BY <2>2, <2>4, <2>5 DEF UsedInv, UsedIsPresent, RepoPresent, Prepared, Fresh
  <2>7. \A e \in using[q] : env[e] = "marked" /\ purpose[e] \in plan[q]
    BY DEF UsedInv, UsedIsPresent, EnvPresent, UsesThePlan, Prepared, Fresh
  <2>8. using[q] \subseteq Matching(UsedRepos \cap readable)
    BY <2>5, <2>6, <2>7 DEF Matching
  <2>9. \A e \in using[q] :
          toolchain[e] \in UsedTools(Matching(UsedRepos \cap readable)) \cup {"system"}
    BY <2>5, <2>8 DEF UsedTools, TypeOK, Toolchains
  <2>10. /\ MarksOf(readable).repos = UsedRepos
         /\ MarksOf(readable).envs = Matching(UsedRepos \cap readable)
         /\ MarksOf(readable).tools = UsedTools(Matching(UsedRepos \cap readable))
    BY DEF MarksOf
  <2> QED
    BY <2>1, <2>3, <2>4, <2>8, <2>9, <2>10
<1>9. UsedIsPresent'
  BY <1>0, <1>2 DEF UsedInv, UsedIsPresent, RepoPresent, EnvPresent, Tracks
<1> QED
  BY <1>3, <1>4, <1>5, <1>6, <1>7, <1>8, <1>9 DEF UsedInv

LEMMA RetrackedStep ==
  ASSUME TypeOK, StoreExclusive, UsedInv, NEW g \in Collectors, Retracked(g)
  PROVE  UsedInv'
<1>1. /\ g \in Processes /\ g \notin Commands /\ pc[g] = "retrack" /\ torn' = FALSE
      /\ Go(g, "repos")
      /\ UNCHANGED <<file, refs, tracked, repo, env, purpose, toolchain, tools, plan, clone,
                     building, using, keep, stale>>
  BY DisjointAssumption DEF Retracked, configs, envs, command, Processes
<1>2. "repos" \in Places /\ pc[g] \in Swept
  BY <1>1 DEF Places, Locked, Swept
<1> QED
  BY <1>1, <1>2, Moves

\* A sweep leaves what was marked.
LEMMA SweepStep ==
  ASSUME TypeOK, StoreExclusive, UsedInv, NEW g \in Collectors,
         SweepRepos(g) \/ SweepEnvs(g) \/ SweepTools(g)
  PROVE  UsedInv'
<1>0. /\ g \in Processes /\ g \notin Commands /\ pc[g] \in {"repos", "envs", "tools"}
      /\ UNCHANGED <<file, refs, tracked, torn, purpose, toolchain, plan, clone, building,
                     using, keep, stale>>
  BY DisjointAssumption
     DEF SweepRepos, SweepEnvs, SweepTools, configs, tracking, envs, command, Processes
<1>1. /\ pc'[g] \in {"envs", "tools", "scratch"}
      /\ \A q \in Processes : q # g => pc'[q] = pc[q]
  BY <1>0 DEF SweepRepos, SweepEnvs, SweepTools, Go, TypeOK
<1>2. /\ pc[g] \in Locked /\ pc[g] \in Swept
      /\ pc[g] \notin {"tracking", "retrack"} /\ pc'[g] \notin {"tracking", "retrack"}
  BY <1>0, <1>1 DEF Locked, Swept
<1>3. \A q \in Commands : pc'[q] = pc[q] /\ (Fresh(q)' <=> Fresh(q))
  BY <1>0, <1>1 DEF Fresh, Tracks, Processes
<1>4. \A q \in Commands : /\ \A r \in Repos : clone[q][r] = "none"
                          /\ building[q] = {}
                          /\ pc[q] \in Prepared => pc[q] \in {"relock", "hooks"}
  BY <1>0, <1>2, AloneWithLock
<1>5. LoadedIsCurrent' /\ RegisteredIsTracked'
  BY <1>0, <1>3 DEF UsedInv, LoadedIsCurrent, RegisteredIsTracked
<1>6. TornIsHarmless'
  <2>1. \A q \in Processes : pc[q] \in {"tracking", "retrack"} => pc'[q] = pc[q]
    BY <1>1, <1>2
  <2> QED
    BY <1>0, <1>3, <2>1 DEF UsedInv, TornIsHarmless
<1>7. ClonesTheMissing' /\ BuildsAreUnmarked'
  <2>1. clone' = clone /\ building' = building
    BY <1>0
  <2>2. \A q \in Commands : \A r \in Repos : clone'[q][r] = "none"
    BY <1>4, <2>1
  <2>3. \A q \in Commands : building'[q] = {}
    BY <1>4, <2>1
  <2> QED
    BY <2>2, <2>3 DEF ClonesTheMissing, BuildsAreUnmarked
<1>8. UsesThePlan'
  BY <1>0, <1>3 DEF UsedInv, UsesThePlan
<1>9. MarksTheUsed'
  <2>1. \A h \in Collectors : pc'[h] \in Swept => pc[h] \in Swept
    BY <1>1, <1>2 DEF Processes
  <2> QED
    BY <1>0, <1>3, <2>1 DEF UsedInv, MarksTheUsed
<1>10. UsedIsPresent'
  <2> SUFFICES ASSUME NEW q \in Commands, Tracks(q), q \notin stale, pc[q] \in Prepared
               PROVE  RepoPresent(q)' /\ EnvPresent(q)'
    BY <1>0, <1>3 DEF UsedIsPresent, Tracks
  <2>1. RepoPresent(q) /\ EnvPresent(q)
    BY DEF UsedInv, UsedIsPresent
  <2>2. /\ plan[q] \subseteq keep[g].repos /\ using[q] \subseteq keep[g].envs
        /\ \A e \in using[q] : toolchain[e] \in keep[g].tools \cup {"system"}
    <3>1. Fresh(q) /\ pc[q] \in {"relock", "hooks"}
      BY <1>0, <1>3, <1>4 DEF Fresh
    <3> QED
      BY <1>2, <3>1 DEF UsedInv, MarksTheUsed
  <2>3. plan[q] \subseteq Repos /\ using[q] \subseteq Envs
    BY DEF TypeOK
  <2>4. \A r \in plan[q] : repo'[r] = repo[r]
    BY <2>2, <2>3 DEF SweepRepos, SweepEnvs, SweepTools
  <2>5. \A e \in using[q] : env'[e] = env[e]
    BY <2>2, <2>3 DEF SweepRepos, SweepEnvs, SweepTools, envs
  <2>6. tools \cap keep[g].tools \subseteq tools'
    BY DEF SweepRepos, SweepEnvs, SweepTools, envs
  <2> QED
    BY <1>0, <2>1, <2>2, <2>4, <2>5, <2>6 DEF RepoPresent, EnvPresent
<1> QED
  BY <1>5, <1>6, <1>7, <1>8, <1>9, <1>10 DEF UsedInv

\* Editing a configuration makes the commands that have loaded it stale.
LEMMA EditStep ==
  ASSUME TypeOK, StoreExclusive, UsedInv, NEW c \in Configs, Edit(c)
  PROVE  UsedInv'
<1>0. UNCHANGED <<tracked, torn, repo, env, purpose, toolchain, tools, pc, plan, clone, building,
                  using, keep>>
  BY DEF Edit, envs, command
<1>1. /\ \A d \in Configs : d # c => file'[d] = file[d] /\ refs'[d] = refs[d]
      /\ stale' = stale \cup {p \in Commands : ConfigOf[p] = c /\ pc[p] \notin {"start", "load"}}
  BY DEF Edit, TypeOK
<1>2. \A q \in Commands : Fresh(q)' => Fresh(q) /\ (pc[q] \in Loaded => ConfigOf[q] # c)
  BY <1>1 DEF Fresh, Tracks, Loaded
<1>3. LoadedIsCurrent'
  BY <1>0, <1>1, <1>2, ConfigOfAssumption DEF UsedInv, LoadedIsCurrent
<1>4. RegisteredIsTracked' /\ TornIsHarmless'
  BY <1>0, <1>2 DEF UsedInv, RegisteredIsTracked, TornIsHarmless
<1>5. ClonesTheMissing' /\ BuildsAreUnmarked'
  BY <1>0 DEF UsedInv, ClonesTheMissing, Missing, BuildsAreUnmarked
<1>6. UsesThePlan' /\ MarksTheUsed'
  BY <1>0, <1>2 DEF UsedInv, UsesThePlan, MarksTheUsed
<1>7. UsedIsPresent'
  BY <1>0, <1>1 DEF UsedInv, UsedIsPresent, RepoPresent, EnvPresent, Tracks
<1> QED
  BY <1>3, <1>4, <1>5, <1>6, <1>7 DEF UsedInv

LEMMA UsedStep ==
  TypeOK /\ StoreExclusive /\ TrackingInv /\ UsedInv /\ [Next]_vars => UsedInv'
<1> SUFFICES ASSUME TypeOK, StoreExclusive, TrackingInv, UsedInv, [Next]_vars PROVE UsedInv'
  OBVIOUS
<1>1. CASE UNCHANGED vars
  BY <1>1 DEF vars, UsedInv, LoadedIsCurrent, RegisteredIsTracked, TornIsHarmless, ClonesTheMissing,
              Missing, BuildsAreUnmarked, UsesThePlan, MarksTheUsed, UsedIsPresent, RepoPresent,
              EnvPresent, Fresh, Tracks
<1>2. ASSUME NEW p \in Commands, Command(p) PROVE UsedInv'
  BY <1>2, LoadStep, TrackStep, TrackedStep, CloneStep, InitialisedStep, EnvStep, BuildStep,
     InstalledStep, EndStep
     DEF Command, Processes
<1>3. ASSUME NEW g \in Collectors, Collect(g) PROVE UsedInv'
  BY <1>3, MarkStep, RetrackedStep, SweepStep, EndStep DEF Collect, Processes
<1>4. ASSUME NEW p \in Processes, Step(p) \/ Kill(p) PROVE UsedInv'
  BY <1>2, <1>3, <1>4, StartOrLockStep, EndStep DEF Step
<1> QED
  BY <1>1, <1>4, EditStep DEF Next, AllEnded

(***************************************************************************)
(* What a command has prepared under the lock stays while it uses it       *)
(* without the lock.                                                       *)
(***************************************************************************)
THEOREM PreparedStays == Spec => []UsedIsPresent
<1>1. Init => UsedInv
  <2> SUFFICES ASSUME Init PROVE UsedInv
    OBVIOUS
  <2>1. /\ torn = FALSE
        /\ \A p \in Commands : /\ pc[p] = "start" /\ using[p] = {} /\ building[p] = {}
                               /\ clone[p] = NothingYet
    BY DEF Init, Processes
  <2> QED
    BY <2>1 DEF UsedInv, LoadedIsCurrent, RegisteredIsTracked, TornIsHarmless, ClonesTheMissing,
                BuildsAreUnmarked, UsesThePlan, MarksTheUsed, UsedIsPresent, NothingYet, Loaded,
                Registered, Prepared
<1>2. Init => TrackingInv
  <2> SUFFICES ASSUME Init PROVE TrackingInv
    OBVIOUS
  <2>1. known = {c \in tracked : file[c] # "missing"} /\ torn = FALSE
    BY DEF Init
  <2>2. \A p \in Commands : pc[p] = "start"
    BY DEF Init, Processes
  <2> QED
    BY <2>1, <2>2 DEF TrackingInv, TrackingKept, PromisesExist, WritesItsOwn
<1>3. UsedInv => UsedIsPresent
  BY DEF UsedInv
<1> QED
  BY <1>1, <1>2, <1>3, UsedStep, TrackingStep, StoreTyping, OneWriter, PTL DEF Spec

=============================================================================
