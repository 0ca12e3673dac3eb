---------------------------- MODULE HookRunProofs ----------------------------
(***************************************************************************)
(* Proofs that the invariants of HookRun hold for every workspace, and     *)
(* those of Batches for all files, limits and numbers of batches of the    *)
(* hooks it runs.                                                          *)
(***************************************************************************)
EXTENDS HookRunInv, Batches, FiniteSetTheorems, TLAPS

(***************************************************************************)
(* The states of every run have the types of the scheduler's variables.    *)
(***************************************************************************)
LEMMA DiffTypes ==
  ASSUME TypeOK, NEW p \in Projects
  PROVE  /\ Diff(p) \in [Nested[p] -> Content]
         /\ EmptyDiff(p) \in [Nested[p] -> Content]
         /\ [Nested[p] -> Content] \subseteq Diffs
BY ProjectAssumption, ValueAssumption DEF TypeOK, Diff, EmptyDiff, Diffs

LEMMA InitTypeOK == Init => TypeOK
<1> SUFFICES ASSUME Init PROVE TypeOK
  OBVIOUS
<1>1. worktree \in [Projects -> Content]
  BY DEF Init
<1>2. baseline \in [Projects -> Diffs \cup {Unknown}]
  BY DEF Init
<1>3. \A p \in Projects : baseline[p] \in [Nested[p] -> Content] \cup {Unknown}
  BY DEF Init
<1>4. status \in [Hooks -> Status] /\ group \in [Projects -> SUBSET Hooks]
  BY DEF Init, Status
<1>5. remaining \subseteq Projects /\ permits \in Nat
  BY HookAssumption, ValueAssumption DEF Init
<1> QED
  BY <1>1, <1>2, <1>3, <1>4, <1>5 DEF Init, TypeOK, Outcomes

LEMMA NextTypeOK == TypeOK /\ [Next]_vars => TypeOK'
<1> SUFFICES ASSUME TypeOK, [Next]_vars PROVE TypeOK'
  OBVIOUS
<1> USE HookAssumption, ProjectAssumption, ValueAssumption
<1>1. CASE StartLevel
  <2>1. \A p \in Projects : baseline'[p] \in [Nested[p] -> Content] \cup {Unknown}
    BY <1>1, DiffTypes DEF StartLevel
  <2>2. baseline' \in [Projects -> Diffs \cup {Unknown}]
    BY <1>1, DiffTypes DEF StartLevel
  <2> QED
    BY <1>1, <2>1, <2>2 DEF TypeOK, StartLevel, session
<1>2. ASSUME NEW p \in Projects, StartGroup(p) PROVE TypeOK'
  <2>1. FirstGroup(p) \subseteq Hooks
    BY DEF FirstGroup, Pending, HooksOf
  <2>2. group' \in [Projects -> SUBSET Hooks]
    BY <1>2, <2>1 DEF TypeOK, StartGroup
  <2>3. status' \in [Hooks -> Status]
    BY <1>2 DEF TypeOK, StartGroup, Status, Finished
  <2>4. baseline' \in [Projects -> Diffs \cup {Unknown}]
    BY <1>2, DiffTypes DEF TypeOK, StartGroup
  <2>5. \A q \in Projects : baseline'[q] \in [Nested[q] -> Content] \cup {Unknown}
    BY <1>2, DiffTypes DEF TypeOK, StartGroup
  <2> QED
    BY <1>2, <2>2, <2>3, <2>4, <2>5 DEF TypeOK, StartGroup, session
<1>3. ASSUME NEW h \in Hooks, StartHook(h) PROVE TypeOK'
  BY <1>3 DEF TypeOK, StartHook, PermitFree, session, Status
<1>4. ASSUME NEW h \in Hooks, ReportWithoutRunning(h) PROVE TypeOK'
  BY <1>4 DEF TypeOK, ReportWithoutRunning, session, Status, Finished
<1>5. ASSUME NEW h \in Hooks, EditFiles(h) PROVE TypeOK'
  BY <1>5 DEF TypeOK, EditFiles, session
<1>6. ASSUME NEW h \in Hooks, FinishHook(h) PROVE TypeOK'
  BY <1>6 DEF TypeOK, FinishHook, PermitsAfterRun, session, Status, Finished, Executed
<1>7. ASSUME NEW erring, Abort(erring) PROVE TypeOK'
  BY <1>7 DEF TypeOK, Abort, session, Status, Outcomes
<1>8. ASSUME NEW p \in Projects, CompleteGroup(p) PROVE TypeOK'
  <2>1. NextBaseline(p) \in [Nested[p] -> Content] \cup {Unknown}
    BY <1>8, DiffTypes DEF TypeOK, NextBaseline
  <2>2. status' \in [Hooks -> Status]
    BY <1>8 DEF TypeOK, CompleteGroup, Status, Finished, Executed
  <2>3. \A q \in Projects : baseline'[q] \in [Nested[q] -> Content] \cup {Unknown}
    BY <1>8, <2>1 DEF TypeOK, CompleteGroup
  <2>4. baseline' \in [Projects -> Diffs \cup {Unknown}]
    BY <1>8, <2>1, DiffTypes DEF TypeOK, CompleteGroup
  <2> QED
    BY <1>8, <2>2, <2>3, <2>4 DEF TypeOK, CompleteGroup, session
<1>9. CASE FinishLevel
  BY <1>9 DEF TypeOK, FinishLevel, LevelFailed
<1>10. CASE Finish
  BY <1>10 DEF TypeOK, Finish, session, Outcomes
<1>11. ASSUME NEW h \in Hooks, OrphanExits(h) PROVE TypeOK'
  BY <1>11 DEF TypeOK, OrphanExits, session, Status
<1>12. CASE UNCHANGED vars
  BY <1>12 DEF TypeOK, vars, session
<1> QED
  BY <1>1, <1>2, <1>3, <1>4, <1>5, <1>6, <1>7, <1>8, <1>9, <1>10, <1>11, <1>12
     DEF Next, HookError, DiffError, Returned

(***************************************************************************)
(* Every variable of the scheduler has its type in every state of every    *)
(* run.                                                                    *)
(***************************************************************************)
THEOREM Typing == Spec => []TypeOK
BY InitTypeOK, NextTypeOK, PTL DEF Spec

-----------------------------------------------------------------------------
(***************************************************************************)
(* Preservation of the structural parts of IInv, one action at a time.     *)
(***************************************************************************)
LEMMA InitStructure == Init => Shape /\ Order /\ Failures /\ GroupsAreBarriers
<1> SUFFICES ASSUME Init PROVE Shape /\ Order /\ Failures /\ GroupsAreBarriers
  OBVIOUS
<1> USE HookAssumption
<1>1. Shape
  BY DEF Init, Shape
<1>2. Order
  BY DEF Init, Order
<1>3. Failures
  BY DEF Init, Failures
<1>4. GroupsAreBarriers
  BY DEF Init, GroupsAreBarriers, Started
<1> QED
  BY <1>1, <1>2, <1>3, <1>4

LEMMA ShapeStep == TypeOK /\ Shape /\ Order /\ [Next]_vars => Shape'
<1> SUFFICES ASSUME TypeOK, Shape, Order, [Next]_vars PROVE Shape'
  OBVIOUS
<1> USE HookAssumption, ProjectAssumption
<1>1. CASE StartLevel
  BY <1>1 DEF Shape, StartLevel, session, TypeOK, HooksOf
<1>2. ASSUME NEW p \in Projects, StartGroup(p) PROVE Shape'
  <2>1. FirstGroup(p) \subseteq HooksOf(p) /\ \A h \in FirstGroup(p) : ProjectOf[h] = p
    BY DEF FirstGroup, Pending, HooksOf
  <2> QED
    BY <1>2, <2>1 DEF Shape, StartGroup, session, TypeOK, HooksOf
<1>3. ASSUME NEW h \in Hooks, StartHook(h) PROVE Shape'
  BY <1>3 DEF Shape, StartHook, session, TypeOK, HooksOf
<1>4. ASSUME NEW h \in Hooks, ReportWithoutRunning(h) PROVE Shape'
  BY <1>4 DEF Shape, ReportWithoutRunning, session, TypeOK, HooksOf
<1>5. ASSUME NEW h \in Hooks, EditFiles(h) PROVE Shape'
  BY <1>5 DEF Shape, EditFiles, session, TypeOK, HooksOf
<1>6. ASSUME NEW h \in Hooks, FinishHook(h) PROVE Shape'
  BY <1>6 DEF Shape, FinishHook, session, TypeOK, HooksOf, Executed
<1>7. ASSUME NEW erring, Abort(erring) PROVE Shape'
  BY <1>7 DEF Shape, Abort, session, TypeOK, HooksOf
<1>8. ASSUME NEW p \in Projects, CompleteGroup(p) PROVE Shape'
  <2>1. \A h \in Hooks : \/ status'[h] = status[h]
                         \/ h \in group[p] /\ status[h] \in Executed /\ status'[h] = "failed"
    BY <1>8 DEF CompleteGroup, Blamed, ExecutedIn
  <2>2. /\ group'[p] = {}
        /\ \A q \in Projects : q # p => group'[q] = group[q]
    BY <1>8 DEF CompleteGroup, TypeOK
  <2>3. outcome = "none" /\ outcome' = "none" /\ level' = level
    BY <1>8 DEF CompleteGroup
  <2>4. \A q \in Projects : group'[q] \subseteq group[q]
    BY <2>2
  <2>5. \A h \in Hooks : status'[h] \in {"queued", "running"} => h \in group'[ProjectOf[h]]
    <3> SUFFICES ASSUME NEW h \in Hooks, status'[h] \in {"queued", "running"}
                 PROVE  h \in group'[ProjectOf[h]]
      OBVIOUS
    <3>1. status[h] \in {"queued", "running"} /\ h \in group[ProjectOf[h]]
      BY <2>1, <2>3 DEF Shape
    <3>2. ProjectOf[h] # p
      BY <1>8, <3>1 DEF CompleteGroup, Finished, Executed
    <3> QED
      BY <2>2, <3>1, <3>2
  <2>6. \A q \in Projects : \A h \in group'[q] : status'[h] # "pending"
    BY <2>1, <2>4 DEF Shape, TypeOK
  <2>7. \A h \in Hooks : status'[h] \notin {"dropped", "orphan"}
    BY <2>1, <2>3 DEF Shape
  <2> QED
    BY <2>3, <2>4, <2>5, <2>6, <2>7 DEF Shape, HooksOf
<1>9. CASE FinishLevel
  BY <1>9 DEF Shape, FinishLevel, ProjectDone, TypeOK, HooksOf
<1>10. CASE Finish
  BY <1>10 DEF Shape, Finish, session, TypeOK, HooksOf
<1>11. ASSUME NEW h \in Hooks, OrphanExits(h) PROVE Shape'
  BY <1>11 DEF Shape, OrphanExits, session, TypeOK, HooksOf
<1>12. CASE UNCHANGED vars
  BY <1>12 DEF Shape, vars, session, HooksOf
<1> QED
  BY <1>1, <1>2, <1>3, <1>4, <1>5, <1>6, <1>7, <1>8, <1>9, <1>10, <1>11, <1>12
     DEF Next, HookError, DiffError, Returned

LEMMA OrderStep == TypeOK /\ Shape /\ Order /\ Failures /\ [Next]_vars => Order'
<1> SUFFICES ASSUME TypeOK, Shape, Order, Failures, [Next]_vars PROVE Order'
  OBVIOUS
<1> USE HookAssumption, ProjectAssumption
<1>1. CASE StartLevel
  <2>0. \A p, q \in level' :
          /\ p \in Projects /\ q \in Projects
          /\ Depth[p] <= Depth[q] /\ Depth[q] <= Depth[p]
    BY <1>1 DEF StartLevel, TypeOK
  <2>1. \A p, q \in level' : Depth[p] = Depth[q]
    BY <2>0
  <2>2. \A p \in level' : \A q \in remaining' : Depth[q] < Depth[p]
    BY <1>1 DEF StartLevel, TypeOK
  <2>3. level' \cup remaining' = level \cup remaining /\ remaining' \subseteq remaining
    BY <1>1 DEF StartLevel
  <2>4. level = {} /\ remaining # {} /\ status' = status /\ failed' = failed
    BY <1>1 DEF StartLevel, session
  <2> QED
    BY <2>1, <2>2, <2>3, <2>4 DEF Order, Finished, Executed
<1>2. ASSUME NEW p \in Projects, StartGroup(p) PROVE Order'
  <2>1. \A h \in FirstGroup(p) : ProjectOf[h] = p
    BY DEF FirstGroup, Pending, HooksOf
  <2>2. p \notin remaining
    BY <1>2 DEF Order, StartGroup, TypeOK
  <2> QED
    BY <1>2, <2>1, <2>2 DEF Order, StartGroup, session, TypeOK
<1>3. ASSUME NEW h \in Hooks, StartHook(h) PROVE Order'
  BY <1>3 DEF Order, StartHook, session, TypeOK, Finished, Executed
<1>4. ASSUME NEW h \in Hooks, ReportWithoutRunning(h) PROVE Order'
  BY <1>4 DEF Order, ReportWithoutRunning, session, TypeOK, Finished
<1>5. ASSUME NEW h \in Hooks, EditFiles(h) PROVE Order'
  BY <1>5 DEF Order, EditFiles, session
<1>6. ASSUME NEW h \in Hooks, FinishHook(h) PROVE Order'
  BY <1>6 DEF Order, FinishHook, session, TypeOK, Finished, Executed
<1>7. ASSUME NEW erring, Abort(erring), outcome = "none",
             \A h \in erring : h \in Hooks /\ status[h] = "running"
      PROVE  Order'
  <2>1. \A h \in Hooks : status[h] \in {"queued", "running"} =>
                            ProjectOf[h] \in level /\ ProjectOf[h] \notin remaining
    BY <1>7 DEF Order, Shape, TypeOK
  <2>2. \A h \in Hooks : status'[h] = status[h] \/ status[h] \in {"queued", "running"}
    BY <1>7 DEF Abort, TypeOK
  <2> QED
    BY <1>7, <2>1, <2>2 DEF Order, Abort, session
<1>8. ASSUME NEW p \in Projects, CompleteGroup(p) PROVE Order'
  <2>1. \A h \in Blamed(p) : h \in group[p] /\ status[h] \in Finished
    BY DEF Blamed, ExecutedIn, Finished
  <2> QED
    BY <1>8, <2>1 DEF Order, CompleteGroup, Shape, HooksOf, session, TypeOK, Finished, Executed
<1>9. CASE FinishLevel
  <2>1. level \cap stopped = {} => \A h \in Hooks : ProjectOf[h] \in level => status[h] \in Finished
    BY <1>9 DEF FinishLevel, ProjectDone, Pending, HooksOf, Shape, TypeOK, Status
  <2>2. ~failed' => level \cap stopped = {}
    BY <1>9 DEF FinishLevel, LevelFailed, Failures
  <2>3. ~failed' => ~failed
    BY <1>9 DEF FinishLevel
  <2>4. remaining' # {} => level \cap stopped = {}
    BY <1>9 DEF FinishLevel
  <2>5. \A h \in Hooks :
          /\ ProjectOf[h] \notin level' \cup remaining'
          /\ level' \cup remaining' # {} \/ ~failed'
          => status[h] \in Finished
    BY <1>9, <2>1, <2>2, <2>3, <2>4 DEF FinishLevel, Order
  <2> QED
    BY <1>9, <2>5 DEF FinishLevel, Order
<1>10. CASE Finish
  BY <1>10 DEF Order, Finish, session
<1>11. ASSUME NEW h \in Hooks, OrphanExits(h) PROVE Order'
  BY <1>11 DEF Order, OrphanExits, session, TypeOK, Finished, Executed
<1>12. CASE UNCHANGED vars
  BY <1>12 DEF Order, vars, session
<1>13. ASSUME NEW h \in Hooks, HookError(h) PROVE Order'
  BY <1>13, <1>7 DEF HookError
<1>14. ASSUME NEW p \in Projects, DiffError(p) PROVE Order'
  BY <1>14, <1>7 DEF DiffError
<1> QED
  BY <1>1, <1>2, <1>3, <1>4, <1>5, <1>6, <1>13, <1>14, <1>8, <1>9, <1>10, <1>11, <1>12
     DEF Next, Returned

LEMMA FailuresStep ==
  TypeOK /\ Shape /\ Order /\ Failures /\ [Next]_vars => Failures'
<1> SUFFICES ASSUME TypeOK, Shape, Order, Failures, [Next]_vars PROVE Failures'
  OBVIOUS
<1> USE HookAssumption, ProjectAssumption
<1>1. CASE StartLevel
  BY <1>1 DEF Failures, StartLevel, session, HooksOf
<1>2. ASSUME NEW p \in Projects, StartGroup(p) PROVE Failures'
  <2>1. \A h \in FirstGroup(p) : h \in Hooks /\ status[h] = "pending"
    BY DEF FirstGroup, Pending, HooksOf
  <2>2. \A h \in Hooks : status'[h] = "failed" <=> status[h] = "failed"
    BY <1>2, <2>1 DEF StartGroup, TypeOK
  <2> QED
    BY <1>2, <2>2 DEF Failures, StartGroup, session, HooksOf
<1>3. ASSUME NEW h \in Hooks, StartHook(h) PROVE Failures'
  BY <1>3 DEF Failures, StartHook, session, TypeOK, HooksOf
<1>4. ASSUME NEW h \in Hooks, ReportWithoutRunning(h) PROVE Failures'
  BY <1>4 DEF Failures, ReportWithoutRunning, session, TypeOK, HooksOf
<1>5. ASSUME NEW h \in Hooks, EditFiles(h) PROVE Failures'
  BY <1>5 DEF Failures, EditFiles, session, HooksOf
<1>6. ASSUME NEW h \in Hooks, FinishHook(h) PROVE Failures'
  <2>1. ProjectOf[h] \in level
    BY <1>6 DEF FinishHook, Shape
  <2> QED
    BY <1>6, <2>1 DEF Failures, FinishHook, session, TypeOK, HooksOf
<1>7. ASSUME NEW erring, Abort(erring), \A h \in erring : h \in Hooks /\ status[h] = "running"
      PROVE  Failures'
  <2>1. \A h \in Hooks : status'[h] = "failed" <=> status[h] = "failed"
    BY <1>7 DEF Abort, TypeOK
  <2> QED
    BY <1>7, <2>1 DEF Failures, Abort, session, HooksOf
<1>8. ASSUME NEW p \in Projects, CompleteGroup(p) PROVE Failures'
  <2>1. \A h \in Hooks : status[h] = "failed" => status'[h] = "failed"
    BY <1>8 DEF CompleteGroup
  <2>2. flagged \subseteq flagged' /\ level' = level /\ failed' = failed
    BY <1>8 DEF CompleteGroup, session
  <2>3. group[p] \subseteq HooksOf(p)
    BY DEF Shape
  <2>4. ASSUME NEW q \in stopped'
        PROVE  \E h \in HooksOf(q) : status'[h] = "failed" \/ h \in flagged'
    <3>1. CASE q \in stopped
      BY <3>1, <2>1, <2>2 DEF Failures, HooksOf
    <3>2. CASE q \notin stopped
      <4>1. q = p /\ GroupFailed(p)
        BY <1>8, <3>2 DEF CompleteGroup, ShouldStopProject
      <4>2. CASE GroupModified(p)
        BY <1>8, <2>3, <4>1, <4>2 DEF CompleteGroup
      <4>3. CASE FailedIn(p) # {}
        BY <1>8, <2>3, <4>1, <4>3 DEF CompleteGroup, FailedIn, Blamed, ExecutedIn, HooksOf
      <4> QED
        BY <4>1, <4>2, <4>3 DEF GroupFailed
    <3> QED
      BY <3>1, <3>2
  <2>5. ASSUME NEW h \in Hooks, status'[h] = "failed" \/ h \in flagged',
               ProjectOf[h] \notin level'
        PROVE  failed'
    <3>1. h \notin group[p]
      BY <1>8, <2>2, <2>3, <2>5 DEF CompleteGroup, HooksOf
    <3>2. status[h] = "failed" \/ h \in flagged
      BY <1>8, <2>5, <3>1 DEF CompleteGroup, Blamed, ExecutedIn
    <3> QED
      BY <2>2, <2>5, <3>2 DEF Failures
  <2> QED
    BY <1>8, <2>2, <2>4, <2>5 DEF Failures, CompleteGroup
<1>9. CASE FinishLevel
  BY <1>9 DEF Failures, FinishLevel, LevelFailed, HooksOf, TypeOK
<1>10. CASE Finish
  BY <1>10 DEF Failures, Finish, session, HooksOf
<1>11. ASSUME NEW h \in Hooks, OrphanExits(h) PROVE Failures'
  BY <1>11 DEF Failures, OrphanExits, session, TypeOK, HooksOf
<1>12. CASE UNCHANGED vars
  BY <1>12 DEF Failures, vars, session, HooksOf
<1>13. ASSUME NEW h \in Hooks, HookError(h) PROVE Failures'
  BY <1>13, <1>7 DEF HookError
<1>14. ASSUME NEW p \in Projects, DiffError(p) PROVE Failures'
  BY <1>14, <1>7 DEF DiffError
<1> QED
  BY <1>1, <1>2, <1>3, <1>4, <1>5, <1>6, <1>13, <1>14, <1>8, <1>9, <1>10, <1>11, <1>12
     DEF Next, Returned

LEMMA BarrierStep ==
  TypeOK /\ Shape /\ Order /\ GroupsAreBarriers /\ [Next]_vars => GroupsAreBarriers'
<1> SUFFICES ASSUME TypeOK, Shape, Order, GroupsAreBarriers, [Next]_vars
             PROVE  GroupsAreBarriers'
  OBVIOUS
<1> USE HookAssumption, ProjectAssumption
\* Every step but StartGroup starts nothing and keeps final results final.
<1>1. ASSUME \A h \in Hooks : status'[h] # "pending" => status[h] # "pending",
             \A h \in Hooks : status[h] \in Finished => status'[h] \in Finished
      PROVE  GroupsAreBarriers'
  BY <1>1 DEF GroupsAreBarriers, Started, Precedes
<1>2. ASSUME NEW p \in Projects, StartGroup(p) PROVE GroupsAreBarriers'
  <2>1. \A h \in FirstGroup(p) :
          /\ h \in Hooks /\ ProjectOf[h] = p /\ status[h] = "pending"
          /\ \A g \in Hooks : ProjectOf[g] = p /\ Priority[g] < Priority[h]
                               => status[g] # "pending"
    BY DEF FirstGroup, Pending, HooksOf
  <2>2. outcome = "none" /\ p \in level /\ group[p] = {}
    BY <1>2 DEF StartGroup
  <2>3. \A g \in Hooks : status[g] \in Finished => status'[g] \in Finished
    BY <1>2, <2>1 DEF StartGroup, Finished, Executed
  <2>4. ASSUME NEW g \in Hooks, NEW h \in FirstGroup(p), Precedes(g, h)
        PROVE  status[g] \in Finished
    <3>1. CASE ProjectOf[g] = p /\ Priority[g] < Priority[h]
      <4>1. status[g] \notin {"pending", "queued", "running", "dropped", "orphan"}
        BY <2>1, <2>2, <3>1 DEF Shape
      <4> QED
        BY <4>1 DEF TypeOK, Status
    <3>2. CASE Depth[ProjectOf[g]] > Depth[p]
      <4>1. ProjectOf[g] \notin level \cup remaining
        BY <2>2, <3>2 DEF Order, TypeOK
      <4> QED
        BY <2>2, <4>1 DEF Order
    <3> QED
      BY <2>1, <2>4, <3>1, <3>2 DEF Precedes
  <2>5. ASSUME NEW g \in Hooks, NEW h \in Hooks, Started(h)', Precedes(g, h)
        PROVE  status'[g] \in Finished
    <3>1. Started(h) \/ h \in FirstGroup(p)
      BY <1>2, <2>5 DEF Started, StartGroup
    <3> QED
      BY <2>3, <2>4, <2>5, <3>1 DEF GroupsAreBarriers
  <2> QED
    BY <2>5 DEF GroupsAreBarriers, Precedes
<1>3. ASSUME NEW h \in Hooks,
             StartHook(h) \/ ReportWithoutRunning(h) \/ FinishHook(h) \/ OrphanExits(h)
      PROVE  GroupsAreBarriers'
  BY <1>1, <1>3 DEF StartHook, ReportWithoutRunning, FinishHook, OrphanExits,
                    TypeOK, Finished, Executed
<1>4. ASSUME NEW h \in Hooks, HookError(h) PROVE GroupsAreBarriers'
  BY <1>1, <1>4 DEF HookError, Abort, TypeOK, Finished, Executed
<1>5. ASSUME NEW p \in Projects, DiffError(p) PROVE GroupsAreBarriers'
  BY <1>1, <1>5 DEF DiffError, Abort, TypeOK, Finished, Executed
<1>6. ASSUME NEW p \in Projects, CompleteGroup(p) PROVE GroupsAreBarriers'
  <2>1. \A h \in Blamed(p) : status[h] \in Finished
    BY DEF Blamed, ExecutedIn, Finished
  <2> QED
    BY <1>1, <1>6, <2>1 DEF CompleteGroup, Finished, Executed
<1>7. ASSUME status' = status PROVE GroupsAreBarriers'
  BY <1>1, <1>7
<1> QED
  BY <1>2, <1>3, <1>4, <1>5, <1>6, <1>7
     DEF Next, Returned, StartLevel, EditFiles, FinishLevel, Finish, vars

LEMMA CapturesStep == TypeOK /\ Shape /\ Captures /\ [Next]_vars => Captures'
<1> SUFFICES ASSUME TypeOK, Shape, Captures, [Next]_vars PROVE Captures'
  OBVIOUS
<1> USE HookAssumption, ProjectAssumption, ValueAssumption
<1>1. CASE StartLevel
  <2>1. \A p \in Projects : group'[p] = {}
    BY <1>1 DEF StartLevel, Shape
  <2> QED
    BY <1>1, <2>1 DEF Captures, StartLevel, session
<1>2. ASSUME NEW p \in Projects, StartGroup(p) PROVE Captures'
  <2>1. Diff(p) # Unknown
    BY DiffTypes
  <2>2. ASSUME NEW h \in FirstGroup(p), Kind[h] = "external", ~args.dryRun
        PROVE  baseline'[p] # Unknown
    BY <1>2, <2>1, <2>2 DEF StartGroup, GroupRequiresDiffTracking, RequiresDiffTracking, TypeOK
  <2>3. \A q \in Projects : q # p => group'[q] = group[q] /\ baseline'[q] = baseline[q]
    BY <1>2 DEF StartGroup, TypeOK
  <2>4. group'[p] = FirstGroup(p)
    BY <1>2 DEF StartGroup, TypeOK
  <2>5. \A h \in Hooks : status'[h] \in Executed \cup {"running", "orphan"} => status'[h] = status[h]
    BY <1>2 DEF StartGroup, Executed
  <2> QED
    BY <1>2, <2>2, <2>3, <2>4, <2>5 DEF Captures, StartGroup
<1>3. ASSUME NEW h \in Hooks, StartHook(h) PROVE Captures'
  BY <1>3 DEF Captures, StartHook, session, TypeOK
<1>4. ASSUME NEW h \in Hooks, ReportWithoutRunning(h) PROVE Captures'
  BY <1>4 DEF Captures, ReportWithoutRunning, session, TypeOK, Executed
<1>5. ASSUME NEW h \in Hooks, EditFiles(h) PROVE Captures'
  BY <1>5 DEF Captures, EditFiles, session
<1>6. ASSUME NEW h \in Hooks, FinishHook(h) PROVE Captures'
  BY <1>6 DEF Captures, FinishHook, session, TypeOK
<1>7. ASSUME NEW erring, Abort(erring) PROVE Captures'
  <2>1. \A h \in Hooks : status'[h] \in Executed \cup {"running", "orphan"} =>
                            status[h] \in Executed \cup {"running", "orphan"}
    BY <1>7 DEF Abort, Executed
  <2> QED
    BY <1>7, <2>1 DEF Captures, Abort, session
<1>8. ASSUME NEW p \in Projects, CompleteGroup(p) PROVE Captures'
  <2>1. \A h \in Hooks : status'[h] = status[h] \/ status[h] \in Executed
    BY <1>8 DEF CompleteGroup, Blamed, ExecutedIn
  <2>2. group'[p] = {} /\ \A q \in Projects : q # p => group'[q] = group[q] /\ baseline'[q] = baseline[q]
    BY <1>8 DEF CompleteGroup, TypeOK
  <2> QED
    BY <1>8, <2>1, <2>2 DEF Captures, CompleteGroup
<1>9. CASE FinishLevel
  BY <1>9 DEF Captures, FinishLevel
<1>10. CASE Finish
  BY <1>10 DEF Captures, Finish, session
<1>11. ASSUME NEW h \in Hooks, OrphanExits(h) PROVE Captures'
  BY <1>11 DEF Captures, OrphanExits, session, TypeOK, Executed
<1>12. CASE UNCHANGED vars
  BY <1>12 DEF Captures, vars, session
<1> QED
  BY <1>1, <1>2, <1>3, <1>4, <1>5, <1>6, <1>7, <1>8, <1>9, <1>10, <1>11, <1>12
     DEF Next, HookError, DiffError, Returned

LEMMA StructureInvariant == Spec => []Structure
<1>1. Init => Structure
  BY InitTypeOK, InitStructure, HookAssumption DEF Structure, Init, Captures, Executed
<1>2. Structure /\ [Next]_vars => Structure'
  BY NextTypeOK, ShapeStep, OrderStep, FailuresStep, BarrierStep, CapturesStep DEF Structure
<1> QED
  BY <1>1, <1>2, PTL DEF Spec

(***************************************************************************)
(* Every priority group and every depth level is a barrier.                *)
(***************************************************************************)
THEOREM Barriers == Spec => []GroupsAreBarriers
BY StructureInvariant, PTL DEF Structure

(***************************************************************************)
(* The `unreachable!` of changed_after_group is never reached.             *)
(***************************************************************************)
THEOREM Captured == Spec => []BaselineCaptured
<1>1. Structure => BaselineCaptured
  <2> SUFFICES ASSUME Structure, NEW p \in Projects, TrackerPanics(p) PROVE FALSE
    BY DEF BaselineCaptured
  <2>1. PICK h \in group[p] : status[h] \in Executed /\ Kind[h] = "external"
    BY DEF TrackerPanics, NeedsDiff, ExecutedIn
  <2>2. h \in Hooks
    BY DEF Structure, TypeOK
  <2> QED
    BY <2>1, <2>2 DEF Structure, Captures, TrackerPanics
<1> QED
  BY <1>1, StructureInvariant, PTL

LEMMA SuccessFacts == Structure => SuccessMeansAllRan
<1> SUFFICES ASSUME Structure, outcome = "Success"
             PROVE  flagged = {} /\ \A h \in Hooks : status[h] \in Finished \ {"failed"}
  BY DEF SuccessMeansAllRan
<1>1. ~failed /\ level = {} /\ remaining = {}
  BY DEF Structure, Failures
<1>2. \A h \in Hooks : status[h] # "failed" /\ h \notin flagged
  BY <1>1 DEF Structure, Failures
<1>3. \A h \in Hooks : status[h] \in Finished
  BY <1>1 DEF Structure, Order
<1> QED
  BY <1>2, <1>3 DEF Structure, TypeOK

(***************************************************************************)
(* A successful run has a result, and no failure, for every hook.          *)
(***************************************************************************)
THEOREM SuccessIsComplete == Spec => []SuccessMeansAllRan
BY StructureInvariant, SuccessFacts, PTL

-----------------------------------------------------------------------------
(***************************************************************************)
(* Change detection, for hooks that stay inside their project.             *)
(***************************************************************************)
LEMMA TrackingStep ==
  Confined /\ Structure /\ Tracking /\ [Next]_vars => Tracking'
<1> SUFFICES ASSUME Confined, Structure, Tracking, [Next]_vars,
                    outcome' \in {"none", "Success"}, flagged' = {}
             PROVE  /\ \A a \in Projects : worktree'[a] # origin'[a] => Suspects(a)' # {}
                    /\ \A p \in level' : baseline'[p] # Unknown =>
                                           baseline'[p] = [a \in Nested[p] |-> origin'[a]]
  BY DEF Tracking
<1> DEFINE Goal == /\ \A a \in Projects : worktree'[a] # origin'[a] => Suspects(a)' # {}
                   /\ \A p \in level' : baseline'[p] # Unknown =>
                                          baseline'[p] = [a \in Nested[p] |-> origin'[a]]
<1> USE HookAssumption, ProjectAssumption, ValueAssumption
<1>s. TypeOK /\ Shape /\ Order /\ Captures
  BY DEF Structure
\* A step that keeps the worktree, the baselines and every suspect.
<1>0. ASSUME outcome \in {"none", "Success"}, flagged = {}, level' \subseteq level,
             worktree' = worktree, origin' = origin, baseline' = baseline,
             \A a \in Projects : Suspects(a) \subseteq Suspects(a)'
      PROVE  Goal
  BY <1>0 DEF Tracking
<1>1. CASE StartLevel
  <2>1. \A a \in Projects : Suspects(a) = {}
    BY <1>1, <1>s DEF Suspects, Shape, StartLevel, TypeOK
  <2>2. \A a \in Projects : worktree[a] = origin[a]
    BY <1>1, <2>1 DEF Tracking, StartLevel
  <2>3. ASSUME NEW p \in level', baseline'[p] # Unknown
        PROVE  baseline'[p] = [a \in Nested[p] |-> origin'[a]]
    <3>1. p \in Projects /\ args.cleaned /\ baseline'[p] = [a \in Nested[p] |-> Indexed]
      BY <1>1, <1>s, <2>3 DEF StartLevel, EmptyDiff, TypeOK
    <3>2. \A a \in Nested[p] : origin'[a] = Indexed
      BY <1>1, <1>s, <3>1 DEF StartLevel, Captures
    <3> QED
      BY <3>1, <3>2
  <2> QED
    BY <1>1, <2>2, <2>3 DEF StartLevel
<1>2. ASSUME NEW p \in Projects, StartGroup(p) PROVE Goal
  <2>1. p \in level /\ group[p] = {} /\ outcome = "none" /\ flagged = {}
    BY <1>2 DEF StartGroup
  <2>2. \A a \in Nested[p] : worktree[a] = origin[a]
    <3> SUFFICES ASSUME NEW a \in Nested[p], worktree[a] # origin[a] PROVE FALSE
      OBVIOUS
    <3>1. PICK h \in Hooks : h \in group[ProjectOf[h]] /\ a \in Nested[ProjectOf[h]]
      BY <1>s, <2>1 DEF Tracking, Suspects, TypeOK
    <3>2. ProjectOf[h] \in level /\ ProjectOf[h] # p
      BY <1>s, <2>1, <3>1 DEF Shape
    <3>3. Depth[ProjectOf[h]] = Depth[p]
      BY <1>s, <2>1, <3>2 DEF Order
    <3> QED
      BY <3>1, <3>2, <3>3
  <2>3. Diff(p) = [a \in Nested[p] |-> origin[a]]
    BY <2>2 DEF Diff
  <2>4. \A h \in FirstGroup(p) : status[h] = "pending"
    BY DEF FirstGroup, Pending
  <2>5. ASSUME NEW a \in Projects, NEW h \in Suspects(a) PROVE h \in Suspects(a)'
    <3>1. h \in Hooks /\ ProjectOf[h] # p /\ h \notin FirstGroup(p)
      BY <1>s, <2>1, <2>4, <2>5 DEF Suspects, TypeOK, Executed
    <3> QED
      BY <1>2, <1>s, <2>5, <3>1 DEF Suspects, StartGroup, TypeOK
  <2>6. \A q \in level' : baseline'[q] = baseline[q] \/ (q = p /\ baseline'[q] = Diff(p))
    BY <1>2, <1>s DEF StartGroup, TypeOK
  <2>7. level' = level /\ worktree' = worktree /\ origin' = origin
    BY <1>2 DEF StartGroup
  <2>8. \A a \in Projects : worktree'[a] # origin'[a] => Suspects(a)' # {}
    BY <2>1, <2>5, <2>7 DEF Tracking
  <2>9. ASSUME NEW q \in level', baseline'[q] # Unknown
        PROVE  baseline'[q] = [a \in Nested[q] |-> origin'[a]]
    <3>1. [a \in Nested[q] |-> origin'[a]] = [a \in Nested[q] |-> origin[a]]
      BY <2>7
    <3>2. baseline'[q] = [a \in Nested[q] |-> origin[a]]
      BY <2>1, <2>3, <2>6, <2>7, <2>9 DEF Tracking
    <3> QED
      BY <3>1, <3>2
  <2> QED
    BY <2>8, <2>9
<1>3. ASSUME NEW h \in Hooks, StartHook(h) PROVE Goal
  <2>1. \A a \in Projects : Suspects(a) \subseteq Suspects(a)'
    BY <1>3, <1>s DEF Suspects, StartHook, TypeOK, Executed
  <2> QED
    BY <1>0, <1>3, <2>1 DEF StartHook
<1>4. ASSUME NEW h \in Hooks, ReportWithoutRunning(h) PROVE Goal
  <2>1. \A a \in Projects : Suspects(a) \subseteq Suspects(a)'
    BY <1>4, <1>s DEF Suspects, ReportWithoutRunning, TypeOK, Executed
  <2> QED
    BY <1>0, <1>4, <2>1 DEF ReportWithoutRunning
<1>5. ASSUME NEW h \in Hooks, EditFiles(h) PROVE Goal
  <2>1. outcome = "none" /\ status[h] = "running" /\ flagged = {}
    BY <1>5, <1>s DEF EditFiles, Shape
  <2>2. h \in group[ProjectOf[h]]
    BY <1>s, <2>1 DEF Shape
  <2>3. ASSUME NEW a \in Projects, worktree'[a] # worktree[a] PROVE h \in Suspects(a)'
    <3>1. a \in Nested[ProjectOf[h]]
      BY <1>5, <1>s, <2>3 DEF EditFiles, TypeOK, Confined
    <3> QED
      BY <1>5, <2>1, <2>2, <3>1 DEF EditFiles, Suspects
  <2>4. \A a \in Projects : Suspects(a) \subseteq Suspects(a)'
    BY <1>5 DEF Suspects, EditFiles
  <2> QED
    BY <1>5, <2>1, <2>3, <2>4 DEF EditFiles, Tracking
<1>6. ASSUME NEW h \in Hooks, FinishHook(h) PROVE Goal
  <2>1. \A a \in Projects : Suspects(a) \subseteq Suspects(a)'
    BY <1>6, <1>s DEF Suspects, FinishHook, TypeOK, Executed
  <2> QED
    BY <1>0, <1>6, <2>1 DEF FinishHook, session
<1>7. ASSUME NEW erring, Abort(erring) PROVE Goal
  BY <1>7 DEF Abort
<1>8. ASSUME NEW p \in Projects, CompleteGroup(p) PROVE Goal
  <2>1. ~GroupModified(p) /\ flagged = {} /\ outcome = "none"
    BY <1>8 DEF CompleteGroup
  <2>2. status' = status
    <3>1. Blamed(p) = {}
      BY <2>1 DEF Blamed
    <3> QED
      BY <1>8, <1>s, <3>1 DEF CompleteGroup, TypeOK
  <2>3. NeedsDiff(group[p]) => baseline[p] = Diff(p) /\ baseline[p] # Unknown
    BY <1>s, <2>1, DiffTypes DEF GroupModified
  <2>4. p \in level /\ level' = level /\ worktree' = worktree /\ origin' = origin /\ wrote' = wrote
    BY <1>8 DEF CompleteGroup
  <2>5. ASSUME NEW a \in Projects, worktree[a] # origin[a], NEW h \in Suspects(a)
        PROVE  h \in Suspects(a)'
    <3>1. h \in Hooks /\ h \in group[ProjectOf[h]] /\ h \in wrote /\ a \in Nested[ProjectOf[h]]
      BY <1>s, <2>5 DEF Suspects, TypeOK
    <3>2. ProjectOf[h] # p
      <4> SUFFICES ASSUME ProjectOf[h] = p PROVE FALSE
        OBVIOUS
      <4>1. h \in ExecutedIn(group[p])
        BY <1>8, <2>5, <3>1 DEF CompleteGroup, Suspects, ExecutedIn, Finished
      <4>2. Kind[h] = "external"
        BY <2>1, <2>5, <3>1, <4>1 DEF GroupModified, KnownModified, Suspects
      <4>3. NeedsDiff(group[p])
        BY <2>1, <4>1, <4>2 DEF NeedsDiff, GroupModified
      <4>4. Diff(p) = [b \in Nested[p] |-> origin[b]]
        BY <2>1, <2>3, <2>4, <4>3 DEF Tracking
      <4>5. Diff(p)[a] = worktree[a]
        BY <3>1 DEF Diff
      <4>6. Diff(p)[a] = origin[a]
        BY <3>1, <4>4
      <4> QED
        BY <2>5, <4>5, <4>6
    <3> QED
      BY <1>8, <1>s, <2>2, <2>4, <2>5, <3>1, <3>2 DEF Suspects, CompleteGroup, TypeOK
  <2>6. \A q \in level : baseline'[q] = baseline[q]
    BY <1>8, <1>s, <2>1, <2>3 DEF CompleteGroup, NextBaseline, GroupModified, TypeOK
  <2>7. \A a \in Projects : worktree'[a] # origin'[a] => Suspects(a)' # {}
    BY <2>1, <2>4, <2>5 DEF Tracking
  <2>8. ASSUME NEW q \in level', baseline'[q] # Unknown
        PROVE  baseline'[q] = [a \in Nested[q] |-> origin'[a]]
    <3>1. [a \in Nested[q] |-> origin'[a]] = [a \in Nested[q] |-> origin[a]]
      BY <2>4
    <3>2. baseline'[q] = [a \in Nested[q] |-> origin[a]]
      BY <2>1, <2>4, <2>6, <2>8 DEF Tracking
    <3> QED
      BY <3>1, <3>2
  <2> QED
    BY <2>7, <2>8
<1>9. CASE FinishLevel
  <2>1. \A a \in Projects : Suspects(a) \subseteq Suspects(a)'
    BY <1>9 DEF Suspects, FinishLevel
  <2> QED
    BY <1>0, <1>9, <2>1 DEF FinishLevel
<1>10. CASE Finish
  <2>1. \A a \in Projects : Suspects(a) \subseteq Suspects(a)'
    BY <1>10 DEF Suspects, Finish
  <2> QED
    BY <1>0, <1>10, <2>1 DEF Finish
<1>11. ASSUME NEW h \in Hooks, OrphanExits(h) PROVE Goal
  BY <1>11, <1>s DEF OrphanExits, Shape
<1>12. CASE UNCHANGED vars
  <2>1. \A a \in Projects : Suspects(a) \subseteq Suspects(a)'
    BY <1>12 DEF Suspects, vars
  <2> QED
    BY <1>0, <1>12, <2>1 DEF vars
<1> QED
  BY <1>1, <1>2, <1>3, <1>4, <1>5, <1>6, <1>7, <1>8, <1>9, <1>10, <1>11, <1>12
     DEF Next, HookError, DiffError, Returned

(***************************************************************************)
(* When hooks only edit files of their own project, a successful run left  *)
(* every file as it found it.                                              *)
(***************************************************************************)
THEOREM SuccessIsPure == ASSUME Confined PROVE Spec => []SuccessMeansUnchanged
<1>1. Init => Tracking
  BY DEF Init, Tracking
<1>2. Confined /\ Structure /\ Tracking /\ [Next]_vars => Tracking'
  BY TrackingStep
<1>3. Structure /\ Tracking => SuccessMeansUnchanged
  <2> SUFFICES ASSUME Structure, Tracking, outcome = "Success" PROVE worktree = origin
    BY DEF SuccessMeansUnchanged
  <2>1. flagged = {} /\ level = {}
    BY SuccessFacts DEF SuccessMeansAllRan, Structure, Failures
  <2>2. \A a \in Projects : Suspects(a) = {}
    BY <2>1, HookAssumption DEF Suspects, Structure, Shape, TypeOK
  <2>3. \A a \in Projects : worktree[a] = origin[a]
    BY <2>1, <2>2 DEF Tracking
  <2> QED
    BY <2>3 DEF Structure, TypeOK
<1>4. Structure /\ Tracking /\ [Next]_vars => Tracking'
  BY <1>2
<1> QED
  BY <1>1, <1>3, <1>4, StructureInvariant, PTL DEF Spec

LEMMA InitAttribution == Init => Attribution
BY DEF Init, Attribution, BlamedForOwnEdits

LEMMA AttributionStep ==
  Confined /\ Structure /\ Tracking /\ Attribution /\ [Next]_vars => Attribution'
<1> SUFFICES ASSUME Confined, Structure, Tracking, Attribution, [Next]_vars
             PROVE  Attribution'
  OBVIOUS
<1> USE HookAssumption, ProjectAssumption
<1>s. TypeOK /\ Shape /\ Order /\ Captures
  BY DEF Structure
<1>k. ASSUME level' \subseteq level, group' = group, wrote' = wrote, flagged' = flagged,
             worktree' = worktree, baseline' = baseline, outcome' = "none" => outcome = "none",
             \A h \in flagged : ProjectOf[h] \notin level' => modifiedFiles',
             \A h \in wrote : status'[h] \in Executed \cup {"running", "dropped", "orphan"}
      PROVE  Attribution'
  BY <1>k DEF Attribution, BlamedForOwnEdits, SameGroup, Diff
<1>1. CASE StartLevel
  <2>1. ASSUME args.cleaned, ~modifiedFiles, NEW p \in level' PROVE EmptyDiff(p) = Diff(p)
    <3>1. flagged = {} /\ outcome = "none" /\ level = {}
      BY <1>1, <2>1 DEF StartLevel, Attribution
    <3>2. \A a \in Projects : Suspects(a) = {}
      BY <1>s, <3>1 DEF Suspects, Shape, TypeOK
    <3>3. \A a \in Projects : worktree[a] = origin[a] /\ origin[a] = Indexed
      BY <1>s, <2>1, <3>1, <3>2 DEF Tracking, Captures
    <3>4. p \in Projects
      BY <1>1, <1>s DEF StartLevel, TypeOK
    <3> QED
      BY <3>3, <3>4 DEF Diff, EmptyDiff
  <2>2. \A p \in level' : baseline'[p] \in {Unknown, Diff(p)'}
    BY <1>1, <1>s, <2>1 DEF StartLevel, Diff, TypeOK
  <2>3. \A h \in flagged : modifiedFiles
    BY <1>1 DEF StartLevel, Attribution
  <2>4. BlamedForOwnEdits'
    BY <1>1 DEF StartLevel, Attribution, BlamedForOwnEdits, SameGroup
  <2>5. /\ group' = group /\ wrote' = wrote /\ status' = status
        /\ flagged' = flagged /\ modifiedFiles' = modifiedFiles
    BY <1>1 DEF StartLevel, session
  <2> QED
    BY <2>2, <2>3, <2>4, <2>5 DEF Attribution
<1>2. ASSUME NEW p \in Projects, StartGroup(p) PROVE Attribution'
  <2>1. \A h \in FirstGroup(p) : h \in Hooks /\ status[h] = "pending"
    BY DEF FirstGroup, Pending, HooksOf
  <2>2. \A g, h \in FirstGroup(p) : Priority[g] = Priority[h]
    BY <2>1 DEF FirstGroup
  <2>3. /\ group'[p] = FirstGroup(p) /\ group[p] = {}
        /\ \A q \in Projects \ {p} : group'[q] = group[q]
    BY <1>2, <1>s DEF StartGroup, TypeOK
  <2>4. \A h \in wrote : status'[h] = status[h]
    BY <1>2, <1>s, <2>1 DEF StartGroup, TypeOK, Attribution, Executed
  <2>5. /\ baseline'[p] \in {baseline[p], Diff(p)}
        /\ \A q \in Projects \ {p} : baseline'[q] = baseline[q]
    BY <1>2, <1>s DEF StartGroup, TypeOK
  <2>6. \A q \in level : baseline'[q] \in {Unknown, Diff(q)} \/ group'[q] \cap wrote # {}
    BY <1>2, <1>s, <2>3, <2>5 DEF Attribution, TypeOK, StartGroup
  <2>7. \A q \in Projects : \A g, h \in group'[q] : Priority[g] = Priority[h]
    BY <2>2, <2>3 DEF Attribution
  <2>8. BlamedForOwnEdits'
    BY <1>2 DEF StartGroup, Attribution, BlamedForOwnEdits, SameGroup
  <2>9. \A q \in Projects : Diff(q)' = Diff(q)
    BY <1>2 DEF StartGroup, Diff
  <2>10. /\ level' = level /\ wrote' = wrote /\ flagged' = flagged
         /\ modifiedFiles' = modifiedFiles
    BY <1>2 DEF StartGroup, session
  <2> QED
    BY <1>s, <2>4, <2>6, <2>7, <2>8, <2>9, <2>10 DEF Attribution, TypeOK
<1>3. ASSUME NEW h \in Hooks, StartHook(h) PROVE Attribution'
  BY <1>3, <1>k, <1>s DEF StartHook, Attribution, session, TypeOK
<1>4. ASSUME NEW h \in Hooks, ReportWithoutRunning(h) PROVE Attribution'
  BY <1>4, <1>k, <1>s DEF ReportWithoutRunning, Attribution, session, TypeOK, Executed
<1>5. ASSUME NEW h \in Hooks, EditFiles(h) PROVE Attribution'
  <2>1. PICK a \in Writes[h], c \in Content : worktree' = [worktree EXCEPT ![a] = c]
    BY <1>5 DEF EditFiles
  <2>2. a \in Nested[ProjectOf[h]]
    BY <2>1 DEF Confined
  <2>3. ASSUME outcome = "none", NEW p \in level
        PROVE  baseline[p] \in {Unknown, Diff(p)'} \/ group[p] \cap wrote' # {}
    <3>1. h \in group[ProjectOf[h]] /\ ProjectOf[h] \in level
      BY <1>5, <1>s, <2>3 DEF EditFiles, Shape
    <3>2. CASE ProjectOf[h] = p
      BY <1>5, <3>1, <3>2 DEF EditFiles
    <3>3. CASE ProjectOf[h] # p
      <4>1. Depth[ProjectOf[h]] = Depth[p] /\ p \in Projects
        BY <1>s, <3>1 DEF Order, TypeOK
      <4>2. a \notin Nested[p]
        BY <2>2, <3>3, <4>1
      <4>3. \A b \in Nested[p] : worktree'[b] = worktree[b]
        BY <1>s, <2>1, <4>1, <4>2 DEF TypeOK
      <4>4. Diff(p)' = Diff(p)
        BY <4>3 DEF Diff
      <4> QED
        BY <1>5, <2>3, <4>4 DEF EditFiles, Attribution
    <3> QED
      BY <3>2, <3>3
  <2>4. \A k \in wrote' : /\ Kind[k] \in {"builtin", "external"}
                          /\ status'[k] \in Executed \cup {"running", "dropped", "orphan"}
    BY <1>5 DEF EditFiles, Attribution
  <2> QED
    BY <1>5, <2>3, <2>4 DEF EditFiles, Attribution, BlamedForOwnEdits, SameGroup, session
<1>6. ASSUME NEW h \in Hooks, FinishHook(h) PROVE Attribution'
  BY <1>6, <1>k, <1>s DEF FinishHook, Attribution, session, TypeOK
<1>7. ASSUME NEW erring, Abort(erring) PROVE Attribution'
  <2>1. \A h \in wrote : status'[h] \in Executed \cup {"running", "dropped", "orphan"}
    BY <1>7, <1>s DEF Abort, Attribution, TypeOK, Executed
  <2> QED
    BY <1>7, <1>k, <2>1 DEF Abort, Attribution, session
<1>8. ASSUME NEW p \in Projects, CompleteGroup(p) PROVE Attribution'
  <2>1. \A h \in group[p] : h \in Hooks /\ ProjectOf[h] = p
    BY <1>s DEF Shape, HooksOf
  <2>2. /\ group'[p] = {} /\ baseline'[p] = NextBaseline(p)
        /\ \A q \in Projects \ {p} : group'[q] = group[q] /\ baseline'[q] = baseline[q]
        /\ outcome = "none" /\ p \in level
        /\ \A h \in group[p] : status[h] \in Finished
    BY <1>8, <1>s DEF CompleteGroup, TypeOK
  <2>3. \A h \in group[p] \cap wrote : h \in ExecutedIn(group[p]) /\ Kind[h] \in {"builtin", "external"}
    BY <2>2 DEF Attribution, ExecutedIn, Finished
  <2>4. NextBaseline(p) \in {Unknown, Diff(p)}
    <3>1. CASE group[p] \cap wrote # {}
      BY <2>3, <3>1 DEF NextBaseline, KnownModified, NeedsDiff
    <3>2. CASE group[p] \cap wrote = {}
      BY <2>2, <3>2 DEF NextBaseline, Attribution
    <3> QED
      BY <3>1, <3>2
  <2>5. GroupModified(p) => group[p] \cap wrote # {}
    BY <1>8, <2>2 DEF GroupModified, KnownModified, ExecutedIn, Attribution, CompleteGroup, TrackerPanics
  <2>6. \A h \in flagged' : \E g \in wrote : SameGroup(g, h)
    <3> SUFFICES ASSUME NEW h \in flagged' PROVE \E g \in wrote : SameGroup(g, h)
      OBVIOUS
    <3>1. CASE h \in flagged
      BY <3>1 DEF Attribution, BlamedForOwnEdits
    <3>2. CASE h \notin flagged
      <4>1. GroupModified(p) /\ h \in group[p]
        BY <1>8, <3>2 DEF CompleteGroup
      <4>2. PICK g \in group[p] \cap wrote : TRUE
        BY <2>5, <4>1
      <4> QED
        BY <2>1, <4>1, <4>2 DEF Attribution, SameGroup
    <3> QED
      BY <3>1, <3>2
  <2>7. \A h \in wrote : status'[h] \in Executed \cup {"running", "dropped", "orphan"}
    BY <1>8, <1>s DEF CompleteGroup, Attribution, TypeOK, Executed
  <2>8. \A h \in flagged' : ProjectOf[h] \notin level => modifiedFiles
    BY <1>8, <2>1, <2>2 DEF CompleteGroup, Attribution
  <2>9. \A q \in level : baseline'[q] \in {Unknown, Diff(q)} \/ group'[q] \cap wrote # {}
    BY <1>s, <2>2, <2>4 DEF Attribution, TypeOK
  <2>10. \A q \in Projects : \A g, h \in group'[q] : Priority[g] = Priority[h]
    BY <2>2 DEF Attribution
  <2>11. /\ level' = level /\ wrote' = wrote /\ modifiedFiles' = modifiedFiles
    BY <1>8 DEF CompleteGroup, session
  <2>12. \A q \in Projects : Diff(q)' = Diff(q)
    BY <1>8 DEF CompleteGroup, Diff
  <2>13. BlamedForOwnEdits'
    BY <2>6, <2>11 DEF BlamedForOwnEdits, SameGroup
  <2> QED
    BY <1>s, <2>7, <2>8, <2>9, <2>10, <2>11, <2>12, <2>13 DEF Attribution, TypeOK
<1>9. CASE FinishLevel
  <2>1. \A h \in flagged : ProjectOf[h] \notin level' => modifiedFiles'
    BY <1>9, <1>s DEF FinishLevel, Attribution, TypeOK, HooksOf
  <2> QED
    BY <1>9, <1>k, <2>1 DEF FinishLevel, Attribution
<1>10. CASE Finish
  BY <1>10, <1>k DEF Finish, Attribution, session
<1>11. ASSUME NEW h \in Hooks, OrphanExits(h) PROVE Attribution'
  BY <1>11, <1>k, <1>s DEF OrphanExits, Attribution, session, TypeOK
<1>12. CASE UNCHANGED vars
  BY <1>12, <1>k DEF vars, Attribution
<1> QED
  BY <1>1, <1>2, <1>3, <1>4, <1>5, <1>6, <1>7, <1>8, <1>9, <1>10, <1>11, <1>12
     DEF Next, HookError, DiffError, Returned

(***************************************************************************)
(* When hooks only edit files of their own project, no group is blamed for *)
(* an edit of another one, whatever the baselines went through.            *)
(***************************************************************************)
THEOREM BlameIsDeserved == ASSUME Confined PROVE Spec => []BlamedForOwnEdits
<1>1. Init => Tracking /\ Attribution
  BY InitAttribution DEF Init, Tracking
<1>2. Structure /\ Tracking /\ Attribution /\ [Next]_vars => Tracking' /\ Attribution'
  BY TrackingStep, AttributionStep
<1>3. Attribution => BlamedForOwnEdits
  BY DEF Attribution
<1> QED
  BY <1>1, <1>2, <1>3, StructureInvariant, PTL DEF Spec

-----------------------------------------------------------------------------
(***************************************************************************)
(* A step that neither starts nor ends a command keeps the permits right.  *)
(***************************************************************************)
Running == {h \in Hooks : status[h] = "running"}

LEMMA PermitsStep ==
  Structure /\ PermitsAccounted /\ [Next]_vars => PermitsAccounted'
<1> SUFFICES ASSUME Structure, PermitsAccounted, [Next]_vars, outcome' = "none"
             PROVE  permits' + Cardinality(Running') = HookConcurrency
  BY DEF PermitsAccounted, Running
<1> USE HookAssumption
<1>s. TypeOK /\ Shape
  BY DEF Structure
<1>f. IsFiniteSet(Running) /\ Cardinality(Running) \in Nat
  BY FS_Subset, FS_CardinalityType DEF Running
<1>p. outcome = "none" => permits + Cardinality(Running) = HookConcurrency
  BY DEF PermitsAccounted, Running
<1>k. ASSUME outcome = "none", permits' = permits, Running' = Running
      PROVE  permits' + Cardinality(Running') = HookConcurrency
  BY <1>k, <1>p
<1>1. CASE StartLevel
  <2>1. Running' = {}
    BY <1>1, <1>s DEF StartLevel, Shape, Running
  <2> QED
    BY <1>1, <2>1, FS_EmptySet, ValueAssumption DEF StartLevel
<1>2. ASSUME NEW p \in Projects, StartGroup(p)
      PROVE  permits' + Cardinality(Running') = HookConcurrency
  <2>1. \A h \in FirstGroup(p) : status[h] = "pending"
    BY DEF FirstGroup, Pending
  <2>2. Running' = Running
    BY <1>2, <2>1 DEF StartGroup, Running
  <2> QED
    BY <1>2, <1>k, <2>2 DEF StartGroup
<1>3. ASSUME NEW h \in Hooks, StartHook(h)
      PROVE  permits' + Cardinality(Running') = HookConcurrency
  <2>1. Running' = Running \cup {h} /\ h \notin Running
    BY <1>3, <1>s DEF StartHook, Running, TypeOK
  <2>2. Cardinality(Running') = Cardinality(Running) + 1
    BY <1>f, <2>1, FS_AddElement
  <2> QED
    BY <1>3, <1>f, <1>p, <1>s, <2>2 DEF StartHook, TypeOK
<1>4. ASSUME NEW h \in Hooks, ReportWithoutRunning(h)
      PROVE  permits' + Cardinality(Running') = HookConcurrency
  <2>1. Running' = Running
    BY <1>4, <1>s DEF ReportWithoutRunning, Running, TypeOK
  <2> QED
    BY <1>4, <1>k, <2>1 DEF ReportWithoutRunning
<1>5. ASSUME NEW h \in Hooks, EditFiles(h)
      PROVE  permits' + Cardinality(Running') = HookConcurrency
  BY <1>5, <1>k DEF EditFiles, Running
<1>6. ASSUME NEW h \in Hooks, FinishHook(h)
      PROVE  permits' + Cardinality(Running') = HookConcurrency
  <2>1. Running' = Running \ {h} /\ h \in Running
    BY <1>6, <1>s DEF FinishHook, Running, TypeOK, Executed
  <2>2. Cardinality(Running') = Cardinality(Running) - 1
    BY <1>f, <2>1, FS_RemoveElement
  <2> QED
    BY <1>6, <1>f, <1>p, <1>s, <2>2 DEF FinishHook, PermitsAfterRun, TypeOK
<1>7. ASSUME NEW p \in Projects, CompleteGroup(p)
      PROVE  permits' + Cardinality(Running') = HookConcurrency
  <2>1. Running' = Running
    BY <1>7 DEF CompleteGroup, Running, Blamed, ExecutedIn, Executed
  <2> QED
    BY <1>7, <1>k, <2>1 DEF CompleteGroup
<1>8. CASE FinishLevel
  BY <1>8, <1>k DEF FinishLevel, Running
<1>9. ASSUME NEW h \in Hooks, OrphanExits(h)
      PROVE  permits' + Cardinality(Running') = HookConcurrency
  <2>1. Running' = Running
    BY <1>9, <1>s DEF OrphanExits, Running, TypeOK
  <2> QED
    BY <1>9, <1>k, <2>1 DEF OrphanExits
<1>10. CASE UNCHANGED vars
  BY <1>10, <1>k DEF vars, Running
<1> QED
  BY <1>1, <1>2, <1>3, <1>4, <1>5, <1>6, <1>7, <1>8, <1>9, <1>10
     DEF Next, HookError, DiffError, Abort, Finish, Returned

(***************************************************************************)
(* The semaphore of a level loses no permit and invents none, whatever the *)
(* number of hooks and of permits.                                         *)
(***************************************************************************)
THEOREM PermitsAdd == Spec => []PermitsAccounted
<1>1. Init => PermitsAccounted
  <2> SUFFICES ASSUME Init PROVE permits + Cardinality(Running) = HookConcurrency
    BY DEF PermitsAccounted, Running
  <2>1. Running = {}
    BY DEF Init, Running
  <2> QED
    BY <2>1, FS_EmptySet, ValueAssumption DEF Init
<1> QED
  BY <1>1, PermitsStep, StructureInvariant, PTL DEF Spec

(***************************************************************************)
(* A failed run names a culprit: a hook that failed, or a group that       *)
(* modified files.                                                         *)
(***************************************************************************)
Culprits ==
  /\ failed => flagged # {} \/ \E h \in Hooks : status[h] = "failed"
  /\ outcome = "Failure" => failed

LEMMA CulpritsStep == Structure /\ Culprits /\ [Next]_vars => Culprits'
<1> SUFFICES ASSUME Structure, Culprits, [Next]_vars PROVE Culprits'
  OBVIOUS
<1>s. TypeOK
  BY DEF Structure
<1>k. ASSUME flagged \subseteq flagged', failed' = failed, outcome' # "Failure",
             \A h \in Hooks : status[h] = "failed" => status'[h] = "failed"
      PROVE  Culprits'
  BY <1>k DEF Culprits
<1>1. CASE StartLevel
  BY <1>1, <1>k DEF StartLevel, session
<1>2. ASSUME NEW p \in Projects, StartGroup(p) PROVE Culprits'
  BY <1>2, <1>k DEF StartGroup, session, FirstGroup, Pending
<1>3. ASSUME NEW h \in Hooks, StartHook(h) PROVE Culprits'
  BY <1>3, <1>k, <1>s DEF StartHook, session, TypeOK
<1>4. ASSUME NEW h \in Hooks, ReportWithoutRunning(h) PROVE Culprits'
  BY <1>4, <1>k, <1>s DEF ReportWithoutRunning, session, TypeOK
<1>5. ASSUME NEW h \in Hooks, EditFiles(h) PROVE Culprits'
  BY <1>5 DEF EditFiles, session, Culprits
<1>6. ASSUME NEW h \in Hooks, FinishHook(h) PROVE Culprits'
  BY <1>6, <1>k, <1>s DEF FinishHook, session, TypeOK
<1>7. ASSUME NEW erring, Abort(erring), \A h \in erring : status[h] = "running"
      PROVE  Culprits'
  BY <1>7, <1>k DEF Abort, session
<1>8. ASSUME NEW p \in Projects, CompleteGroup(p) PROVE Culprits'
  BY <1>8, <1>k DEF CompleteGroup, session
<1>9. CASE FinishLevel
  <2>1. LevelFailed => flagged # {} \/ \E h \in Hooks : status[h] = "failed"
    BY DEF LevelFailed, HooksOf
  <2> QED
    BY <1>9, <2>1 DEF FinishLevel, Culprits
<1>10. CASE Finish
  BY <1>10 DEF Finish, session, Culprits
<1>11. ASSUME NEW h \in Hooks, OrphanExits(h) PROVE Culprits'
  BY <1>11, <1>s DEF OrphanExits, session, TypeOK, Culprits
<1>12. CASE UNCHANGED vars
  BY <1>12 DEF vars, session, Culprits
<1> QED
  BY <1>1, <1>2, <1>3, <1>4, <1>5, <1>6, <1>7, <1>8, <1>9, <1>10, <1>11, <1>12
     DEF Next, HookError, DiffError, Returned

(***************************************************************************)
(* A run that ends in failure or with an error has a hook that failed or a *)
(* diff that explains it (FailureHasCulprit).                              *)
(***************************************************************************)
THEOREM FailureIsExplained == Spec => []FailureHasCulprit
<1>1. Init => Culprits
  BY DEF Init, Culprits
<1>2. Culprits => FailureHasCulprit
  BY DEF Culprits, FailureHasCulprit
<1> QED
  BY <1>1, <1>2, CulpritsStep, StructureInvariant, PTL DEF Spec

-----------------------------------------------------------------------------
(***************************************************************************)
(* Order: fail-fast is honoured, and the scheduler implements OrderedRun.  *)
(***************************************************************************)

(***************************************************************************)
(* A project that stopped ends the run with its level; what a hook of a    *)
(* running group precedes has not been started; a hook that halts the run  *)
(* is in such a group, or its project has stopped; and a group is flagged  *)
(* when it is over.                                                        *)
(***************************************************************************)
Stopping ==
  /\ \A p \in stopped : p \in level \/ level \cup remaining = {}
  /\ \A g, h \in Hooks : g \in group[ProjectOf[g]] /\ Precedes(g, h) => ~Started(h)
  /\ \A g \in Hooks : Halts(g) => g \in group[ProjectOf[g]] \/ ProjectOf[g] \in stopped
  /\ \A g \in flagged : Started(g) /\ g \notin group[ProjectOf[g]]
  /\ FailFastHonoured

LEMMA InitStopping == Init => Stopping
BY HookAssumption DEF Init, Stopping, FailFastHonoured, Started, Halts, Executed

(***************************************************************************)
(* A step that neither starts a hook, nor gives one a result or a flag,    *)
(* nor lets go of a group, has no part in fail-fast.                       *)
(***************************************************************************)
LEMMA StoppingKept ==
  ASSUME TypeOK, Stopping,
         args' = args, group' = group, stopped' = stopped, flagged' = flagged,
         level' = level, remaining' = remaining,
         \A h \in Hooks : Started(h)' <=> Started(h),
         \A h \in Hooks : status'[h] \in Executed => status'[h] = status[h]
  PROVE  Stopping'
<1>1. \A h \in Hooks : Halts(h)' => Halts(h)
  BY DEF Halts, StopsOnFailure, Executed
<1>2. \A g, h \in Hooks : Precedes(g, h)' <=> Precedes(g, h)
  BY DEF Precedes
<1> QED
  BY <1>1, <1>2 DEF Stopping, FailFastHonoured, TypeOK

LEMMA StoppingStep == Structure /\ Stopping /\ [Next]_vars => Stopping'
<1> SUFFICES ASSUME Structure, Stopping, [Next]_vars PROVE Stopping'
  OBVIOUS
<1> USE HookAssumption, ProjectAssumption
<1>1. TypeOK /\ Shape /\ Order /\ GroupsAreBarriers
  BY DEF Structure
<1>2. \A g, h \in Hooks : Precedes(g, h)' <=> Precedes(g, h)
  BY DEF Precedes
<1>3. CASE StartLevel
  <2>1. stopped = {}
    BY <1>3 DEF StartLevel, Stopping
  <2>2. \A h \in Hooks : Halts(h)' <=> Halts(h)
    BY <1>3 DEF StartLevel, Halts, StopsOnFailure
  <2> QED
    BY <1>2, <1>3, <2>1, <2>2 DEF StartLevel, Stopping, FailFastHonoured, Started, TypeOK
<1>4. ASSUME NEW p \in Projects, StartGroup(p) PROVE Stopping'
  <2>1. \A h \in FirstGroup(p) : h \in Hooks /\ ProjectOf[h] = p /\ status[h] = "pending"
    BY DEF FirstGroup, Pending, HooksOf
  <2>2. /\ group'[p] = FirstGroup(p)
        /\ \A q \in Projects \ {p} : group'[q] = group[q]
        /\ \A h \in Hooks : Started(h)' <=> Started(h) \/ h \in FirstGroup(p)
        /\ \A h \in Hooks : status'[h] \in Executed => status'[h] = status[h]
    BY <1>1, <1>4, <2>1 DEF StartGroup, TypeOK, Started, Executed
  <2>3. \A h \in Hooks : Halts(h)' => Halts(h)
    BY <1>4, <2>2 DEF StartGroup, Halts, StopsOnFailure, Executed
  <2>4. p \in level /\ p \notin stopped /\ group[p] = {}
    BY <1>4 DEF StartGroup
  <2>5. ASSUME NEW g \in Hooks, NEW h \in FirstGroup(p), Precedes(g, h),
               g \in group[ProjectOf[g]] \/ ProjectOf[g] \in stopped
        PROVE  FALSE
    <3>1. ProjectOf[g] \in level
      BY <1>1, <2>4, <2>5 DEF Shape, Stopping
    <3>2. Depth[ProjectOf[g]] = Depth[p]
      BY <1>1, <2>4, <3>1 DEF Order
    <3>3. ProjectOf[g] = p
      BY <2>1, <2>5, <3>2 DEF Precedes
    <3> QED
      BY <2>4, <2>5, <3>3
  <2>6. ASSUME NEW g \in FirstGroup(p), NEW h \in Hooks, Precedes(g, h)
        PROVE  ~Started(h) /\ h \notin FirstGroup(p)
    <3>1. ~Started(h)
      BY <1>1, <2>1, <2>6 DEF GroupsAreBarriers, Finished, Executed
    <3>2. h \notin FirstGroup(p)
      BY <2>1, <2>6 DEF Precedes, FirstGroup
    <3> QED
      BY <3>1, <3>2
  <2>7. FailFastHonoured'
    BY <1>2, <2>2, <2>3, <2>5 DEF Stopping, FailFastHonoured
  <2>8. \A g, h \in Hooks : (g \in group[ProjectOf[g]] /\ Precedes(g, h) => ~Started(h))'
    BY <1>2, <2>1, <2>2, <2>5, <2>6 DEF Stopping
  <2>9. \A g \in Hooks : Halts(g)' => (g \in group[ProjectOf[g]] \/ ProjectOf[g] \in stopped)'
    BY <1>4, <2>2, <2>3, <2>4 DEF Stopping, StartGroup
  <2>10. \A g \in flagged' : (Started(g) /\ g \notin group[ProjectOf[g]])'
    BY <1>1, <1>4, <2>1, <2>2 DEF Stopping, StartGroup, Started, TypeOK
  <2> QED
    BY <1>4, <2>7, <2>8, <2>9, <2>10 DEF Stopping, StartGroup
<1>5. ASSUME NEW h \in Hooks, StartHook(h) PROVE Stopping'
  BY <1>1, <1>5, StoppingKept DEF StartHook, TypeOK, Started, Executed
<1>6. ASSUME NEW h \in Hooks, ReportWithoutRunning(h) PROVE Stopping'
  BY <1>1, <1>6, StoppingKept DEF ReportWithoutRunning, TypeOK, Started, Executed
<1>7. ASSUME NEW h \in Hooks, EditFiles(h) PROVE Stopping'
  BY <1>1, <1>7, StoppingKept DEF EditFiles, Started
<1>8. ASSUME NEW h \in Hooks, FinishHook(h) PROVE Stopping'
  <2>1. h \in group[ProjectOf[h]] /\ status[h] = "running"
    BY <1>1, <1>8 DEF FinishHook, Shape
  <2>2. \A k \in Hooks : Halts(k)' => Halts(k) \/ k = h
    BY <1>1, <1>8 DEF FinishHook, TypeOK, Halts, StopsOnFailure
  <2>3. \A k \in Hooks : Started(k)' <=> Started(k)
    BY <1>1, <1>8, <2>1 DEF FinishHook, TypeOK, Started, Executed
  <2> QED
    BY <1>1, <1>2, <1>8, <2>1, <2>2, <2>3 DEF FinishHook, Stopping, FailFastHonoured, TypeOK
<1>9. ASSUME NEW erring, Abort(erring), \A h \in erring : status[h] = "running" PROVE Stopping'
  <2>1. \A h \in Hooks : Started(h)' <=> Started(h)
    BY <1>1, <1>9 DEF Abort, Started
  <2>2. \A h \in Hooks : status'[h] \in Executed => status'[h] = status[h]
    BY <1>1, <1>9 DEF Abort, Executed
  <2> QED
    BY <1>1, <1>9, <2>1, <2>2, StoppingKept DEF Abort
<1>10. ASSUME NEW p \in Projects, CompleteGroup(p) PROVE Stopping'
  <2>1. \A h \in group[p] : h \in Hooks /\ ProjectOf[h] = p
    BY <1>1 DEF Shape, HooksOf
  <2>2. Blamed(p) \subseteq ExecutedIn(group[p])
    BY DEF Blamed
  <2>3. \A h \in Hooks : Started(h)' <=> Started(h)
    BY <1>1, <1>10, <2>2 DEF CompleteGroup, TypeOK, Started, ExecutedIn, Executed
  <2>4. \A h \in Hooks : Halts(h)' => Halts(h) \/ h \in group[p]
    BY <1>10, <2>2 DEF CompleteGroup, Halts, StopsOnFailure, ExecutedIn
  <2>5. ASSUME NEW h \in group[p], Halts(h)' PROVE ShouldStopProject(p)
    <3>1. h \in Hooks /\ ProjectOf[h] = p
      BY <2>1
    <3>2. GroupModified(p) \/ h \in FailedIn(p)
      BY <1>1, <1>10, <2>5, <3>1 DEF CompleteGroup, Halts, FailedIn, Stopping
    <3>3. StopsOnFailure(p) \/ (h \in HookFailFast /\ status'[h] \in Executed)
      BY <1>10, <2>5, <3>1 DEF Halts, StopsOnFailure, CompleteGroup
    <3>4. status'[h] \in Executed => h \in ExecutedIn(group[p])
      BY <1>10, <2>2, <3>1 DEF CompleteGroup, ExecutedIn
    <3> QED
      BY <3>2, <3>3, <3>4 DEF ShouldStopProject, GroupFailed, HookStops
  <2>6. /\ stopped \subseteq stopped' /\ stopped' \subseteq stopped \cup {p}
        /\ ShouldStopProject(p) => p \in stopped'
        /\ p \in level
    BY <1>10 DEF CompleteGroup
  <2>7. /\ group'[p] = {}
        /\ \A q \in Projects \ {p} : group'[q] = group[q]
    BY <1>1, <1>10 DEF CompleteGroup, TypeOK
  <2>8. FailFastHonoured'
    BY <1>2, <2>1, <2>3, <2>4 DEF Stopping, FailFastHonoured
  <2>9. \A g, h \in Hooks : (g \in group[ProjectOf[g]] /\ Precedes(g, h) => ~Started(h))'
    BY <1>2, <2>3, <2>7 DEF Stopping
  <2>10. \A g \in Hooks : Halts(g)' => (g \in group[ProjectOf[g]] \/ ProjectOf[g] \in stopped)'
    BY <2>1, <2>4, <2>5, <2>6, <2>7 DEF Stopping
  <2>11. \A g \in flagged' : (Started(g) /\ g \notin group[ProjectOf[g]])'
    BY <1>1, <1>10, <2>1, <2>3, <2>7 DEF Stopping, CompleteGroup, TypeOK, Shape, Started
  <2> QED
    BY <1>10, <2>6, <2>8, <2>9, <2>10, <2>11 DEF Stopping, CompleteGroup
<1>11. CASE FinishLevel
  <2>1. \A p \in Projects : group[p] = {}
    BY <1>1, <1>11 DEF FinishLevel, Shape, ProjectDone
  <2>2. \A h \in Hooks : (Halts(h)' <=> Halts(h)) /\ (Started(h)' <=> Started(h))
    BY <1>11 DEF FinishLevel, Halts, StopsOnFailure, Started
  <2>3. \A p \in stopped : remaining' = {}
    BY <1>11 DEF FinishLevel, Stopping
  <2> QED
    BY <1>1, <1>2, <1>11, <2>1, <2>2, <2>3 DEF FinishLevel, Stopping, FailFastHonoured, TypeOK
<1>12. CASE Finish
  BY <1>1, <1>12, StoppingKept DEF Finish, Started
<1>13. ASSUME NEW h \in Hooks, OrphanExits(h) PROVE Stopping'
  BY <1>1, <1>13, StoppingKept DEF OrphanExits, TypeOK, Started, Executed
<1>14. CASE UNCHANGED vars
  BY <1>1, <1>14, StoppingKept DEF vars, Started
<1> QED
  BY <1>3, <1>4, <1>5, <1>6, <1>7, <1>8, <1>9, <1>10, <1>11, <1>12, <1>13, <1>14
     DEF Next, HookError, DiffError, Returned

(***************************************************************************)
(* Once a halting hook's group is over, no later group of its project and  *)
(* no shallower level starts a hook: run_hooks stops when and only where   *)
(* fail_fast asks for it.                                                  *)
(***************************************************************************)
THEOREM StopsWhenAsked == Spec => []FailFastHonoured
<1>1. Stopping => FailFastHonoured
  BY DEF Stopping
<1> QED
  BY <1>1, InitStopping, StoppingStep, StructureInvariant, PTL DEF Spec

-----------------------------------------------------------------------------
(***************************************************************************)
(* The refinement mapping, by cases.                                       *)
(***************************************************************************)
LEMMA Phases ==
  /\ \A s \in {"pending", "queued"} : PhaseOf(s) = "idle"
  /\ PhaseOf("running") = "active"
  /\ \A s \in Finished : PhaseOf(s) = "over"
  /\ \A s \in {"dropped", "orphan"} : PhaseOf(s) = "lost"
BY DEF PhaseOf, Finished, Executed

LEMMA Verdicts ==
  /\ VerdictOf("none") = "open"
  /\ VerdictOf("Success") = "success"
  /\ VerdictOf("Failure") = "failure"
  /\ VerdictOf("Error") = "error"
BY DEF VerdictOf

LEMMA PhaseIsStatus ==
  ASSUME NEW s \in Status
  PROVE  /\ PhaseOf(s) = "active" <=> s = "running"
         /\ PhaseOf(s) = "over" <=> s \in Finished
         /\ PhaseOf(s) = "idle" <=> s \in {"pending", "queued"}
BY DEF PhaseOf, Status, Finished, Executed

(***************************************************************************)
(* The initial states map to the one of OrderedRun.                        *)
(***************************************************************************)
LEMMA InitOrdered == Init => Abstract!Init
BY Phases, Verdicts DEF Init, Abstract!Init

Shown == <<[h \in Hooks |-> PhaseOf(status[h])], VerdictOf(outcome)>>

(***************************************************************************)
(* A hook that has been started may be: all that precedes it is over.      *)
(***************************************************************************)
LEMMA ReadyWhenStarted ==
  ASSUME Structure, outcome = "none", NEW h \in Hooks, status[h] = "queued"
  PROVE  Abstract!Ready(h)
<1>1. \A g \in Hooks : Precedes(g, h) => PhaseOf(status[g]) = "over"
  BY Phases DEF Structure, GroupsAreBarriers, Started
<1> QED
  BY <1>1, Phases, Verdicts DEF Abstract!Ready

(***************************************************************************)
(* Which step of OrderedRun each step of run_hooks is.                     *)
(***************************************************************************)
LEMMA StepOrdered ==
  Structure /\ Structure' /\ [Next]_vars => Abstract!Next \/ UNCHANGED Shown
<1> SUFFICES ASSUME Structure, Structure', [Next]_vars
             PROVE  Abstract!Next \/ UNCHANGED Shown
  OBVIOUS
<1> USE HookAssumption, ProjectAssumption
<1>1. TypeOK /\ TypeOK' /\ Shape /\ Order /\ GroupsAreBarriers'
  BY DEF Structure
<1>2. CASE StartLevel
  BY <1>2 DEF StartLevel, Shown
<1>3. ASSUME NEW p \in Projects, StartGroup(p) PROVE Abstract!Next
  <2> DEFINE skipped == {h \in FirstGroup(p) : Kind[h] = "skip"}
  <2>1. \A h \in FirstGroup(p) : h \in Hooks /\ ProjectOf[h] = p /\ status[h] = "pending"
    BY DEF FirstGroup, Pending, HooksOf
  <2>2. outcome = "none" /\ outcome' = "none"
    BY <1>3 DEF StartGroup
  <2>3. \A h \in Hooks :
          status'[h] = IF h \notin FirstGroup(p) THEN status[h]
                       ELSE IF Kind[h] = "skip" THEN "skipped" ELSE "queued"
    BY <1>3 DEF StartGroup
  <2>4. ASSUME NEW h \in skipped PROVE Abstract!Ready(h)
    <3>1. ASSUME NEW g \in Hooks, Precedes(g, h) PROVE PhaseOf(status[g]) = "over"
      <4>1. g \notin FirstGroup(p)
        BY <2>1, <3>1 DEF Precedes, FirstGroup
      <4>2. Precedes(g, h)' /\ Started(h)'
        BY <2>1, <2>3, <3>1 DEF Precedes, Started
      <4>3. status'[g] \in Finished
        BY <1>1, <2>1, <4>2 DEF GroupsAreBarriers
      <4> QED
        BY <2>3, <4>1, <4>3, Phases
    <3> QED
      BY <2>1, <2>2, <3>1, Phases, Verdicts DEF Abstract!Ready
  <2>5. \A h \in Hooks :
          PhaseOf(status'[h]) = IF h \in skipped THEN "over" ELSE PhaseOf(status[h])
    BY <2>1, <2>3, Phases DEF Finished
  <2>6. Abstract!PassOver(skipped)
    BY <2>2, <2>4, <2>5 DEF Abstract!PassOver
  <2>7. skipped \in SUBSET Hooks
    BY <2>1
  <2> QED
    BY <2>6, <2>7 DEF Abstract!Next
<1>4. ASSUME NEW h \in Hooks, StartHook(h) PROVE Abstract!Next
  <2>1. Abstract!Ready(h)
    BY <1>4, ReadyWhenStarted DEF StartHook
  <2>2. outcome' = outcome /\ status' = [status EXCEPT ![h] = "running"]
    BY <1>4 DEF StartHook
  <2>3. Abstract!Begin(h)
    BY <1>1, <2>1, <2>2, Phases DEF Abstract!Begin, TypeOK
  <2> QED
    BY <2>3 DEF Abstract!Next
<1>5. ASSUME NEW h \in Hooks, ReportWithoutRunning(h) PROVE Abstract!Next
  <2>1. Abstract!Ready(h)
    BY <1>5, ReadyWhenStarted DEF ReportWithoutRunning
  <2>2. outcome' = outcome
    BY <1>5 DEF ReportWithoutRunning
  <2>3. \A k \in Hooks :
          PhaseOf(status'[k]) = IF k \in {h} THEN "over" ELSE PhaseOf(status[k])
    BY <1>1, <1>5, Phases DEF ReportWithoutRunning, TypeOK, Finished
  <2>4. Abstract!PassOver({h})
    BY <2>1, <2>2, <2>3 DEF Abstract!PassOver
  <2> QED
    BY <2>4 DEF Abstract!Next
<1>6. ASSUME NEW h \in Hooks, EditFiles(h) PROVE UNCHANGED Shown
  BY <1>6 DEF EditFiles, Shown
<1>7. ASSUME NEW h \in Hooks, FinishHook(h) PROVE Abstract!Next
  <2>1. outcome = "none" /\ outcome' = outcome /\ status[h] = "running"
    BY <1>7 DEF FinishHook
  <2>2. \A k \in Hooks :
          PhaseOf(status'[k]) = IF k = h THEN "over" ELSE PhaseOf(status[k])
    BY <1>1, <1>7, Phases DEF FinishHook, TypeOK, Finished
  <2>3. Abstract!End(h)
    BY <2>1, <2>2, Phases, Verdicts DEF Abstract!End
  <2> QED
    BY <2>3 DEF Abstract!Next
<1>8. ASSUME NEW erring, Abort(erring), \A h \in erring : status[h] = "running",
             outcome = "none"
      PROVE  Abstract!Next
  <2> DEFINE lost == {h \in Hooks : status[h] \in {"queued", "running"}}
  <2>1. \A h \in Hooks :
          PhaseOf(status'[h]) = IF h \in lost \/ PhaseOf(status[h]) = "active"
                                THEN "lost" ELSE PhaseOf(status[h])
    <3> SUFFICES ASSUME NEW h \in Hooks
                 PROVE  PhaseOf(status'[h]) =
                          IF h \in lost \/ PhaseOf(status[h]) = "active"
                          THEN "lost" ELSE PhaseOf(status[h])
      OBVIOUS
    <3>1. CASE h \in lost
      <4>1. status'[h] \in {"dropped", "orphan"}
        BY <1>8, <3>1 DEF Abort
      <4> QED
        BY <3>1, <4>1, Phases
    <3>2. CASE h \notin lost
      <4>1. status'[h] = status[h] /\ status[h] \in Status
        BY <1>1, <1>8, <3>2 DEF Abort, TypeOK
      <4> QED
        BY <3>2, <4>1, PhaseIsStatus
    <3> QED
      BY <3>1, <3>2
  <2>2. \A h \in lost : PhaseOf(status[h]) # "over"
    BY Phases
  <2>3. outcome' = "Error"
    BY <1>8 DEF Abort
  <2>4. Abstract!Fail(lost)
    BY <1>8, <2>1, <2>2, <2>3, Verdicts DEF Abstract!Fail
  <2> QED
    BY <2>4 DEF Abstract!Next
<1>9. ASSUME NEW p \in Projects, CompleteGroup(p) PROVE UNCHANGED Shown
  <2>1. \A h \in Hooks : PhaseOf(status'[h]) = PhaseOf(status[h])
    BY <1>9, Phases DEF CompleteGroup, Blamed, ExecutedIn, Finished, Executed
  <2> QED
    BY <1>9, <2>1 DEF CompleteGroup, Shown
<1>10. CASE FinishLevel
  BY <1>10 DEF FinishLevel, Shown
<1>11. CASE Finish
  <2>1. outcome = "none" /\ status' = status
    BY <1>11 DEF Finish
  <2>2. \A h \in Hooks : status[h] # "running"
    BY <1>1, <1>11 DEF Finish, Shape
  <2>3. \A h \in Hooks : PhaseOf(status[h]) # "active"
    BY <1>1, <2>2, PhaseIsStatus DEF TypeOK
  <2>4. ~failed => \A h \in Hooks : PhaseOf(status[h]) = "over"
    BY <1>1, <1>11, Phases DEF Finish, Order
  <2>5. outcome' = IF failed THEN "Failure" ELSE "Success"
    BY <1>11 DEF Finish
  <2>6. Abstract!Return
    BY <2>1, <2>3, <2>4, <2>5, Verdicts DEF Abstract!Return
  <2> QED
    BY <2>6 DEF Abstract!Next
<1>12. ASSUME NEW h \in Hooks, OrphanExits(h) PROVE UNCHANGED Shown
  <2>1. \A k \in Hooks : PhaseOf(status'[k]) = PhaseOf(status[k])
    BY <1>1, <1>12, Phases DEF OrphanExits, TypeOK
  <2> QED
    BY <1>12, <2>1 DEF OrphanExits, Shown
<1>13. CASE UNCHANGED vars
  BY <1>13 DEF vars, Shown
<1> QED
  BY <1>2, <1>3, <1>4, <1>5, <1>6, <1>7, <1>8, <1>9, <1>10, <1>11, <1>12, <1>13
     DEF Next, HookError, DiffError, Returned

(***************************************************************************)
(* The scheduler implements OrderedRun: no hook starts twice or before     *)
(* what precedes it is over, a run that returns leaves none active, and it *)
(* succeeds only when every hook is over.                                  *)
(***************************************************************************)
THEOREM RunsInOrder == Spec => ImplementsOrderedRun
<1>1. Structure /\ Structure' /\ [Next]_vars => [Abstract!Next]_Shown
  BY StepOrdered
<1> QED
  BY <1>1, InitOrdered, StructureInvariant, PTL DEF Spec, ImplementsOrderedRun, Abstract!Spec, Shown

-----------------------------------------------------------------------------

(***************************************************************************)
(* Batches: what those handed out cover, and what the combined ones        *)
(* contributed to the exit code.                                           *)
(***************************************************************************)
Covered ==
  /\ batches = <<>> => index = 0
  /\ Count > 0 /\ batches # <<>> => index = batches[Len(batches)].to
  /\ Count > 0 => index <= Count
  /\ Count = 0 => index = Len(batches) /\ index <= 1
  /\ Count = 0 /\ batches # <<>> => batches[1].to = 0

Collected ==
  /\ Len(batches) <= folded + input.concurrency
  /\ \A i \in 1..folded : batches[i].state = "done"
  /\ exit = {} <=> \A i \in 1..folded : batches[i].code = {}

BatchesStarted ==
  /\ ending = "split" => batches = <<>> /\ index = 0
  /\ ending = "ok" => Exhausted /\ folded = Len(batches)
  /\ ending = "running" => input.fixed < ArgLimit

BatchesInv ==
  /\ BatchesTyped
  /\ Contiguous
  /\ Covered
  /\ Collected
  /\ BatchesStarted
  /\ FitsTheLimit

(***************************************************************************)
(* Without a borrow, subtracting words is subtracting numbers.             *)
(***************************************************************************)
LEMMA MinusSmaller ==
  ASSUME NEW a \in 0..(Word - 1), NEW b \in 0..a
  PROVE  Minus(a, b) = a - b
<1>1. a - b \in 0..(Word - 1)
  BY SizesAssumption
<1>2. (a + Word - b) = (a - b) + Word
  BY SizesAssumption
<1>3. ((a - b) + Word) % Word = a - b
  BY <1>1, SizesAssumption
<1> QED BY <1>2, <1>3 DEF Minus

LEMMA BatchesInitially == BatchesInit => BatchesInv
<1> SUFFICES ASSUME BatchesInit PROVE BatchesInv
  OBVIOUS
<1>1. /\ input \in Inputs /\ Count \in Nat
      /\ input.concurrency \in Nat \ {0}
  BY InputsAssumption DEF BatchesInit, Count
<1>2. batches = <<>> /\ Len(batches) = 0 /\ batches \in Seq(Batch)
  BY DEF BatchesInit
<1>3. BatchesTyped
  BY <1>1, <1>2 DEF BatchesInit, BatchesTyped, Endings
<1>4. Contiguous /\ Covered /\ FitsTheLimit
  BY <1>1, <1>2 DEF BatchesInit, Contiguous, Covered, FitsTheLimit
<1>5. Collected /\ BatchesStarted
  BY <1>1, <1>2 DEF BatchesInit, Collected, BatchesStarted
<1> QED BY <1>3, <1>4, <1>5 DEF BatchesInv

(***************************************************************************)
(* Handing out the files after index keeps the batches in order.           *)
(***************************************************************************)
LEMMA HandingOut ==
  ASSUME BatchesInv, Room, NEW from \in Nat, NEW to \in Nat, HandOut(from, to),
         from = IF batches = <<>> THEN 1 ELSE batches[Len(batches)].to + 1,
         Count > 0 => from <= to,
         UNCHANGED <<input, ending, folded, exit>>, index' \in Nat
  PROVE  /\ BatchesTyped' /\ Contiguous' /\ Collected'
         /\ Len(batches') = Len(batches) + 1
         /\ batches'[Len(batches')] =
              [from |-> from, to |-> to, state |-> "running", code |-> {}]
         /\ \A i \in 1..Len(batches) : batches'[i] = batches[i]
<1> DEFINE new == [from |-> from, to |-> to, state |-> "running", code |-> {}]
<1>1. new \in Batch
  BY DEF Batch
<1>2. /\ batches \in Seq(Batch) /\ Len(batches) \in Nat /\ folded \in 0..Len(batches)
      /\ input \in Inputs /\ input.concurrency \in Nat
  BY InputsAssumption DEF BatchesInv, BatchesTyped
<1>3. batches' = Append(batches, new)
  BY DEF HandOut
<1> HIDE DEF new
<1>4. /\ batches' \in Seq(Batch) /\ Len(batches') = Len(batches) + 1
      /\ batches'[Len(batches')] = new
      /\ \A i \in 1..Len(batches) : batches'[i] = batches[i]
  BY <1>1, <1>2, <1>3
<1>5. BatchesTyped'
  BY <1>2, <1>4 DEF BatchesInv, BatchesTyped
<1>6. new.from = from /\ new.to = to
  BY DEF new
<1>7. batches = <<>> <=> Len(batches) = 0
  BY <1>2
<1>8. Contiguous'
  <2>1. ASSUME NEW i \in 1..Len(batches')
        PROVE  /\ batches'[i].from = IF i = 1 THEN 1 ELSE batches'[i - 1].to + 1
               /\ Count > 0 => batches'[i].from <= batches'[i].to
    <3>1. CASE i \in 1..Len(batches)
      <4>1. i # 1 => i - 1 \in 1..Len(batches)
        BY <1>2, <3>1
      <4> QED BY <1>4, <3>1, <4>1 DEF BatchesInv, Contiguous
    <3>2. CASE i = Len(batches) + 1
      <4>1. batches'[i] = new
        BY <1>4, <3>2
      <4>2. i # 1 => i - 1 = Len(batches) /\ Len(batches) \in 1..Len(batches)
        BY <1>2, <3>2
      <4>3. i = 1 <=> batches = <<>>
        BY <1>2, <1>7, <3>2
      <4> QED BY <1>4, <1>6, <4>1, <4>2, <4>3
    <3> QED BY <1>2, <1>4, <3>1, <3>2
  <2> QED BY <2>1 DEF Contiguous, Count
<1>9. Collected'
  <2>1. \A i \in 1..folded : i \in 1..Len(batches)
    BY <1>2
  <2>2. Len(batches') <= folded' + input'.concurrency
    BY <1>2, <1>4 DEF Room
  <2> QED BY <1>4, <2>1, <2>2 DEF BatchesInv, Collected
<1> QED BY <1>4, <1>5, <1>8, <1>9 DEF new

(***************************************************************************)
(* What is left for the files is what the environment, the entry and the   *)
(* arguments leave of the limit.                                           *)
(***************************************************************************)
LEMMA LeftForFiles ==
  ASSUME input \in Inputs, input.env <= ArgMax, NEW size \in Int, size <= Remaining
  PROVE  input.env + input.fixed + size <= ArgMax
<1>1. input.env \in 0..ArgMax /\ ArgMax \in 0..(Word - 1) /\ input.fixed \in Nat
  BY InputsAssumption, SizesAssumption
<1>2. ArgLimit = ArgMax - input.env
  BY <1>1, MinusSmaller DEF ArgLimit
<1> QED BY <1>1, <1>2 DEF Remaining

LEMMA SplitKeeps == BatchesInv /\ Split => BatchesInv'
<1> SUFFICES ASSUME BatchesInv, Split PROVE BatchesInv'
  OBVIOUS
<1>1. UNCHANGED <<input, index, batches, folded, exit>>
  BY DEF Split
<1>2. BatchesTyped'
  BY <1>1 DEF BatchesInv, BatchesTyped, Split, Endings
<1>3. Contiguous' /\ Covered' /\ Collected' /\ FitsTheLimit'
  BY <1>1 DEF BatchesInv, Contiguous, Covered, Collected, FitsTheLimit, Count,
     MaxPerBatch, Bytes
<1>4. input \in Inputs /\ input.fixed \in Nat /\ input.env \in 0..(Word - 1)
  BY InputsAssumption DEF BatchesInv, BatchesTyped
<1>5. ArgLimit \in Nat
  BY <1>4, SizesAssumption DEF ArgLimit, Minus
<1>6. BatchesStarted'
  BY <1>1, <1>4, <1>5 DEF Split, BatchesStarted, ArgLimit
<1> QED BY <1>2, <1>3, <1>6 DEF BatchesInv

LEMMA NextKeeps == BatchesInv /\ Next1 => BatchesInv'
<1> SUFFICES ASSUME BatchesInv, Next1 PROVE BatchesInv'
  OBVIOUS
<1>1. /\ input \in Inputs /\ Count \in Nat /\ input.concurrency \in Nat \ {0}
      /\ input.offset \in [0..Count -> Nat] /\ input.env \in Nat
      /\ \A i \in 1..Count : input.offset[i - 1] < input.offset[i]
  BY InputsAssumption DEF BatchesInv, BatchesTyped, Count
<1>2. /\ batches \in Seq(Batch) /\ Len(batches) \in Nat /\ index \in Nat
      /\ batches = <<>> <=> Len(batches) = 0
  BY DEF BatchesInv, BatchesTyped
<1>3. UNCHANGED <<input, ending, folded, exit>> /\ Room /\ ending = "running"
  BY DEF Next1
<1>4. BatchesStarted'
  BY <1>3 DEF BatchesInv, BatchesStarted, ArgLimit
<1>5. CASE Count = 0 /\ index = 0 /\ index' = 1 /\ HandOut(1, 0)
  <2>1. batches = <<>>
    BY <1>2, <1>5 DEF BatchesInv, Covered
  <2>2. /\ BatchesTyped' /\ Contiguous' /\ Collected'
        /\ Len(batches') = 1 /\ batches'[1].from = 1 /\ batches'[1].to = 0
    <3> DEFINE new == [from |-> 1, to |-> 0, state |-> "running", code |-> {}]
    <3>1. /\ BatchesTyped' /\ Contiguous' /\ Collected'
          /\ Len(batches') = Len(batches) + 1
          /\ batches'[Len(batches')] = new
      <4>1. 1 \in Nat /\ 0 \in Nat /\ index' \in Nat /\ ~(Count > 0) /\ HandOut(1, 0)
        BY <1>5
      <4>2. 1 = IF batches = <<>> THEN 1 ELSE batches[Len(batches)].to + 1
        BY <2>1
      <4> QED BY <1>3, <4>1, <4>2, HandingOut
    <3>2. Len(batches') = 1
      BY <1>2, <2>1, <3>1
    <3>3. batches'[1] = new
      BY <3>1, <3>2
    <3>4. new.from = 1 /\ new.to = 0
      OBVIOUS
    <3> HIDE DEF new
    <3> QED BY <3>1, <3>2, <3>3, <3>4
  <2>3. Covered'
    <3>1. batches' # <<>>
      BY <2>2
    <3> QED BY <1>3, <1>5, <2>2, <3>1 DEF Covered, Count
  <2>4. FitsTheLimit'
    BY <2>2 DEF FitsTheLimit
  <2> QED BY <1>4, <2>2, <2>3, <2>4 DEF BatchesInv
<1>6. CASE /\ index < Count
           /\ \E to \in Start..Count :
                /\ Fits(Start, to)
                /\ HandOut(Start, to)
                /\ index' = to
  <2>1. PICK to \in Start..Count :
          Fits(Start, to) /\ HandOut(Start, to) /\ index' = to
    BY <1>6
  <2>2. Start \in 1..Count /\ to \in 1..Count /\ Start <= to /\ Start = index + 1
    BY <1>1, <1>2, <1>6, <2>1 DEF Start
  <2>3. Start = IF batches = <<>> THEN 1 ELSE batches[Len(batches)].to + 1
    <3>1. Count > 0
      BY <1>1, <2>2
    <3>2. CASE batches = <<>>
      BY <2>2, <3>2 DEF BatchesInv, Covered
    <3>3. CASE batches # <<>>
      BY <2>2, <3>1, <3>3 DEF BatchesInv, Covered
    <3> QED BY <3>2, <3>3
  <2>4. /\ BatchesTyped' /\ Contiguous' /\ Collected'
        /\ Len(batches') = Len(batches) + 1
        /\ batches'[Len(batches')].from = Start
        /\ batches'[Len(batches')].to = to
        /\ \A i \in 1..Len(batches) : batches'[i] = batches[i]
    <3>1. Start \in Nat /\ to \in Nat /\ index' \in Nat
      BY <1>1, <2>1, <2>2
    <3> DEFINE new == [from |-> Start, to |-> to, state |-> "running", code |-> {}]
    <3>2. /\ BatchesTyped' /\ Contiguous' /\ Collected'
          /\ Len(batches') = Len(batches) + 1
          /\ batches'[Len(batches')] = new
          /\ \A i \in 1..Len(batches) : batches'[i] = batches[i]
      BY <1>3, <2>1, <2>2, <2>3, <3>1, HandingOut
    <3> QED BY <3>2
  <2>5. Covered'
    <3>1. batches' # <<>>
      BY <1>2, <2>4
    <3> QED BY <1>1, <1>3, <2>1, <2>2, <2>4, <3>1 DEF Covered, Count
  <2>6. FitsTheLimit'
    <3> SUFFICES ASSUME input.env <= ArgMax, NEW i \in 1..Len(batches'),
                        batches'[i].from <= batches'[i].to
                 PROVE  /\ batches'[i].to - batches'[i].from < MaxPerBatch
                        /\ input.env + input.fixed
                             + Bytes(batches'[i].from, batches'[i].to) <= ArgMax
      BY <1>3 DEF FitsTheLimit, MaxPerBatch, Count, Bytes
    <3>1. CASE i \in 1..Len(batches)
      BY <2>4, <3>1 DEF BatchesInv, FitsTheLimit
    <3>2. CASE i = Len(batches')
      <4>1. batches'[i].from = Start /\ batches'[i].to = to
        BY <2>4, <3>2
      <4>2. Bytes(Start, to) \in Int
        <5>1. Start - 1 \in 0..Count /\ to \in 0..Count
          <6>1. Count \in Nat
            BY <1>1
          <6> QED BY <2>2, <6>1
        <5>2. input.offset[to] \in Nat /\ input.offset[Start - 1] \in Nat
          BY <1>1, <5>1
        <5> QED BY <5>2 DEF Bytes
      <4>3. to - Start < MaxPerBatch /\ Bytes(Start, to) <= Remaining
        BY <2>1 DEF Fits
      <4> QED BY <1>1, <4>1, <4>2, <4>3, LeftForFiles
    <3> QED BY <1>2, <2>4, <3>1, <3>2
  <2> QED BY <1>4, <2>4, <2>5, <2>6 DEF BatchesInv
<1> QED BY <1>5, <1>6 DEF Next1

LEMMA TooLongKeeps == BatchesInv /\ TooLong => BatchesInv'
<1> SUFFICES ASSUME BatchesInv, TooLong PROVE BatchesInv'
  OBVIOUS
<1>1. UNCHANGED <<input, index, batches, folded, exit>> /\ ending' = "panic"
  BY DEF TooLong
<1>2. BatchesTyped'
  BY <1>1 DEF BatchesInv, BatchesTyped, Endings
<1>3. Contiguous' /\ Covered' /\ Collected' /\ FitsTheLimit' /\ BatchesStarted'
  BY <1>1 DEF BatchesInv, Contiguous, Covered, Collected, FitsTheLimit, Count,
     MaxPerBatch, Bytes, BatchesStarted
<1> QED BY <1>2, <1>3 DEF BatchesInv

LEMMA BatchEndsKeeps ==
  ASSUME BatchesInv, NEW n \in 1..Len(batches), BatchEnds(n)
  PROVE  BatchesInv'
<1>1. /\ batches \in Seq(Batch) /\ Len(batches) \in Nat /\ folded \in 0..Len(batches)
      /\ batches[n] \in Batch
  BY DEF BatchesInv, BatchesTyped
<1>2. UNCHANGED <<input, ending, index, folded, exit>> /\ batches[n].state = "running"
  BY DEF BatchEnds
<1>3. PICK b \in Batch :
        /\ batches' = [batches EXCEPT ![n] = b]
        /\ b.from = batches[n].from /\ b.to = batches[n].to
  <2>1. CASE \E code \in Codes :
               batches' = [batches EXCEPT ![n].state = "done", ![n].code = code]
    <3>1. PICK code \in Codes :
            batches' = [batches EXCEPT ![n].state = "done", ![n].code = code]
      BY <2>1
    <3>2. [batches[n] EXCEPT !.state = "done", !.code = code] \in Batch
      BY <1>1 DEF Batch, Codes
    <3> QED BY <1>1, <3>1, <3>2 DEF Batch
  <2>2. CASE batches' = [batches EXCEPT ![n].state = "error"]
    <3>1. [batches[n] EXCEPT !.state = "error"] \in Batch
      BY <1>1 DEF Batch
    <3> QED BY <1>1, <2>2, <3>1 DEF Batch
  <2> QED BY <2>1, <2>2 DEF BatchEnds
<1>4. /\ batches' \in Seq(Batch) /\ Len(batches') = Len(batches)
      /\ \A i \in 1..Len(batches) :
           /\ batches'[i].from = batches[i].from
           /\ batches'[i].to = batches[i].to
           /\ i # n => batches'[i] = batches[i]
  BY <1>1, <1>3
<1>5. batches # <<>> /\ batches' # <<>>
  BY <1>1, <1>4
<1>6. BatchesTyped'
  BY <1>2, <1>4 DEF BatchesInv, BatchesTyped
<1>7. Contiguous'
  <2>1. \A i \in 1..Len(batches) : i = 1 \/ i - 1 \in 1..Len(batches)
    BY <1>1
  <2> QED BY <1>2, <1>4, <2>1 DEF BatchesInv, Contiguous, Count
<1>8. Covered'
  <2>1. 1 \in 1..Len(batches) /\ Len(batches) \in 1..Len(batches)
    BY <1>1, <1>5
  <2> QED BY <1>2, <1>4, <1>5, <2>1 DEF BatchesInv, Covered, Count
<1>9. Collected'
  <2>1. \A i \in 1..folded : i \in 1..Len(batches) /\ i # n
    BY <1>1, <1>2 DEF BatchesInv, Collected
  <2> QED BY <1>2, <1>4, <2>1 DEF BatchesInv, Collected
<1>10. BatchesStarted'
  BY <1>2, <1>4 DEF BatchesInv, BatchesStarted, BatchEnds, ArgLimit
<1>11. FitsTheLimit'
  BY <1>2, <1>4 DEF BatchesInv, FitsTheLimit, MaxPerBatch, Count, Bytes
<1> QED BY <1>6, <1>7, <1>8, <1>9, <1>10, <1>11 DEF BatchesInv

LEMMA FoldKeeps == BatchesInv /\ Fold => BatchesInv'
<1> SUFFICES ASSUME BatchesInv, Fold PROVE BatchesInv'
  OBVIOUS
<1>1. /\ batches \in Seq(Batch) /\ Len(batches) \in Nat /\ folded \in 0..Len(batches)
      /\ folded < Len(batches) /\ exit \in SUBSET Bits
  BY DEF BatchesInv, BatchesTyped, Fold
<1>2. UNCHANGED <<input, index, batches>> /\ ending = "running"
  BY DEF Fold
<1>3. Contiguous' /\ Covered' /\ FitsTheLimit'
  BY <1>2 DEF BatchesInv, Contiguous, Covered, FitsTheLimit, Count, MaxPerBatch, Bytes
<1>4. Head1 = folded + 1 /\ Head1 \in 1..Len(batches) /\ batches[Head1].code \in SUBSET Bits
  <2>1. Head1 = folded + 1 /\ Head1 \in 1..Len(batches)
    BY <1>1 DEF Head1
  <2>2. batches[Head1] \in Batch
    BY <1>1, <2>1
  <2> QED BY <2>1, <2>2 DEF Batch
<1>5. CASE /\ batches[Head1].state = "done"
           /\ folded' = Head1
           /\ exit' = Combined(batches[Head1].code)
           /\ UNCHANGED ending
  <2>1. BatchesTyped'
    <3>1. folded' \in 0..Len(batches')
      BY <1>1, <1>2, <1>4, <1>5
    <3>2. exit' \in SUBSET Bits
      BY <1>1, <1>4, <1>5 DEF Combined
    <3> QED BY <1>2, <1>5, <3>1, <3>2 DEF BatchesInv, BatchesTyped
  <2>2. Collected'
    <3>1. \A i \in 1..folded' : i \in 1..folded \/ i = Head1
      BY <1>1, <1>4, <1>5
    <3>2. 1..folded \subseteq 1..folded' /\ Head1 \in 1..folded'
      BY <1>1, <1>4, <1>5
    <3>3. exit' = {} <=> exit = {} /\ batches[Head1].code = {}
      BY <1>5 DEF Combined
    <3>4. \A i \in 1..folded' : batches[i].state = "done"
      BY <1>5, <3>1 DEF BatchesInv, Collected
    <3>5. exit' = {} <=> \A i \in 1..folded' : batches[i].code = {}
      BY <3>1, <3>2, <3>3 DEF BatchesInv, Collected
    <3>6. Len(batches) <= folded' + input.concurrency
      <4>1. input.concurrency \in Nat
        BY InputsAssumption DEF BatchesInv, BatchesTyped
      <4> QED BY <1>1, <1>4, <1>5, <4>1 DEF BatchesInv, Collected
    <3> QED BY <1>2, <3>4, <3>5, <3>6 DEF Collected
  <2>3. BatchesStarted'
    BY <1>2, <1>5 DEF BatchesInv, BatchesStarted, ArgLimit
  <2> QED BY <1>3, <2>1, <2>2, <2>3 DEF BatchesInv
<1>6. CASE ending' = "error" /\ UNCHANGED <<folded, exit>>
  <2>1. BatchesTyped'
    BY <1>2, <1>6 DEF BatchesInv, BatchesTyped, Endings
  <2>2. Collected' /\ BatchesStarted'
    BY <1>2, <1>6 DEF BatchesInv, Collected, BatchesStarted
  <2> QED BY <1>3, <2>1, <2>2 DEF BatchesInv
<1> QED BY <1>5, <1>6 DEF Fold

LEMMA FinishKeeps == BatchesInv /\ BatchesEnd => BatchesInv'
<1> SUFFICES ASSUME BatchesInv, BatchesEnd PROVE BatchesInv'
  OBVIOUS
<1>1. UNCHANGED <<input, index, batches, folded, exit>> /\ ending' = "ok"
  BY DEF BatchesEnd
<1>2. BatchesTyped'
  BY <1>1 DEF BatchesInv, BatchesTyped, Endings
<1>3. Contiguous' /\ Covered' /\ Collected' /\ FitsTheLimit'
  BY <1>1 DEF BatchesInv, Contiguous, Covered, Collected, FitsTheLimit, Count,
     MaxPerBatch, Bytes
<1>4. BatchesStarted'
  BY <1>1 DEF BatchesEnd, BatchesStarted, Exhausted, Count
<1> QED BY <1>2, <1>3, <1>4 DEF BatchesInv

LEMMA Unchanging == BatchesInv /\ UNCHANGED batchesVars => BatchesInv'
BY DEF batchesVars, BatchesInv, BatchesTyped, Contiguous, Covered, Collected, BatchesStarted,
   FitsTheLimit, Count, MaxPerBatch, Bytes, ArgLimit, Exhausted

LEMMA Invariance == BatchesSpec => []BatchesInv
<1>1. BatchesInv /\ [BatchesNext]_batchesVars => BatchesInv'
  <2> SUFFICES ASSUME BatchesInv, [BatchesNext]_batchesVars PROVE BatchesInv'
    OBVIOUS
  <2>1. CASE Call
    BY <2>1, SplitKeeps, NextKeeps, TooLongKeeps, FoldKeeps, FinishKeeps DEF Call
  <2>2. CASE \E i \in 1..Len(batches) : BatchEnds(i)
    BY <2>2, BatchEndsKeeps
  <2>3. CASE UNCHANGED batchesVars
    BY <2>3, Unchanging
  <2> QED BY <2>1, <2>2, <2>3 DEF BatchesNext, BatchesReturned
<1> QED BY <1>1, BatchesInitially, PTL DEF BatchesSpec

(***************************************************************************)
(* Every variable keeps its type.                                          *)
(***************************************************************************)
THEOREM BatchesTyping == BatchesSpec => []BatchesTyped
BY Invariance, PTL DEF BatchesInv

(***************************************************************************)
(* Every file of a hook is an argument of exactly one of its commands:     *)
(* the batches are contiguous and, when the hook returns, reach its last   *)
(* file (Partitions::next, run_by_batch).                                  *)
(***************************************************************************)
THEOREM EveryFileOnce == BatchesSpec => []AllFilesOnce
<1>1. BatchesInv => AllFilesOnce
  <2> SUFFICES ASSUME BatchesInv, ending = "ok"
               PROVE  /\ Contiguous
                      /\ batches # <<>>
                      /\ batches[Len(batches)].to = Count
                      /\ Count = 0 => Len(batches) = 1
    BY DEF AllFilesOnce
  <2>1. Count \in Nat /\ index \in Nat /\ Contiguous /\ Covered /\ Exhausted
    BY InputsAssumption DEF BatchesInv, BatchesTyped, BatchesStarted, Count
  <2>2. CASE Count = 0
    <3>1. index = 1 /\ Len(batches) = 1
      BY <2>1, <2>2 DEF Exhausted, Covered
    <3>2. batches # <<>>
      BY <2>1, <3>1 DEF Covered
    <3> QED BY <2>1, <2>2, <3>1, <3>2 DEF Covered
  <2>3. CASE Count > 0
    <3>1. index = Count
      BY <2>1, <2>3 DEF Exhausted, Covered
    <3>2. batches # <<>>
      BY <2>1, <2>3, <3>1 DEF Covered
    <3> QED BY <2>1, <2>3, <3>1, <3>2 DEF Covered
  <2> QED BY <2>1, <2>2, <2>3
<1> QED BY <1>1, Invariance, PTL

(***************************************************************************)
(* A command that fails makes its hook fail (HookRunOutput::append).       *)
(***************************************************************************)
THEOREM NoFailureLost == BatchesSpec => []FailureShows
<1>1. BatchesInv => FailureShows
  BY DEF BatchesInv, Collected, BatchesStarted, FailureShows
<1> QED BY <1>1, Invariance, PTL

(***************************************************************************)
(* However the files of a hook are cut and its commands end, its result is *)
(* that of one command on all its files (run_by_batch).                    *)
(***************************************************************************)
THEOREM ResultsAreWhole == BatchesSpec => []BatchedAsOne
BY EveryFileOnce, NoFailureLost, PTL DEF BatchedAsOne

(***************************************************************************)
(* At most `concurrency` commands run at a time (buffered).                *)
(***************************************************************************)
THEOREM BoundedCommands == BatchesSpec => []AtMostConcurrent
<1>1. BatchesInv => AtMostConcurrent
  <2> SUFFICES ASSUME BatchesInv, NEW i \in 1..Len(batches), NEW j \in 1..Len(batches),
                      batches[i].state = "running"
               PROVE  j - i < input.concurrency
    BY DEF AtMostConcurrent
  <2>1. /\ folded \in 0..Len(batches) /\ Len(batches) \in Nat
        /\ input.concurrency \in Nat
    BY InputsAssumption DEF BatchesInv, BatchesTyped
  <2>2. i \notin 1..folded
    BY DEF BatchesInv, Collected
  <2> QED BY <2>1, <2>2 DEF BatchesInv, Collected
<1> QED BY <1>1, Invariance, PTL

(***************************************************************************)
(* No command line exceeds the platform's limit, whatever the sizes of the *)
(* environment, the arguments and the files, as long as the environment    *)
(* alone does not (Partitions::split and next).                            *)
(***************************************************************************)
THEOREM CommandLinesFit == BatchesSpec => []FitsTheLimit
BY Invariance, PTL DEF BatchesInv
=============================================================================
