------------------------------- MODULE HookRun -------------------------------
(***************************************************************************)
(* The hook scheduler of `prek run`: run_hooks and everything below it in  *)
(* cli/run/run.rs, with the DiffTracker of cli/run/diff.rs.                *)
(*                                                                         *)
(* Projects are taken one depth level at a time, deepest first.  The       *)
(* projects of a level run concurrently; inside a project the hooks run    *)
(* one priority group after the other and the hooks of a group run         *)
(* concurrently, all of them under one semaphore per level.  After a group *)
(* prek decides whether the group modified files, either because a built-  *)
(* in hook said so or by comparing `git diff` with a baseline.             *)
(***************************************************************************)
EXTENDS Integers, FiniteSets

CONSTANTS
  Projects,         \* projects of the workspace; also the file areas they own
  Hooks,            \* the scheduled hooks
  ProjectOf,        \* [Hooks -> Projects]
  Priority,         \* [Hooks -> Nat], lower runs first
  Depth,            \* [Projects -> Nat], path components below the root
  Nested,           \* [Projects -> SUBSET Projects], areas under a project's path
  Kind,             \* [Hooks -> HookKinds]
  HookFailFast,     \* hooks configured with fail_fast
  ProjectFailFast,  \* projects whose config sets fail_fast
  Writes,           \* [Hooks -> SUBSET Projects], areas a hook's command may edit
  HookConcurrency,  \* permits of the per-level semaphore
  Content,          \* contents of an area relative to the index
  Indexed,          \* the content equal to the index: nothing to diff
  Unknown           \* DiffBaseline::Unknown

(***************************************************************************)
(* skip      HookPlan::Skip, excluded by a selector but still reported     *)
(* builtin   hooks written in Rust; they report Modified or Unchanged      *)
(* readonly  languages that cannot modify files (fail, pygrep)             *)
(* external  any other command: FileChanges::Unknown, found by `git diff`  *)
(***************************************************************************)
HookKinds == {"skip", "builtin", "readonly", "external"}

ASSUME HookAssumption ==
  /\ ProjectOf \in [Hooks -> Projects]
  /\ Priority \in [Hooks -> Nat]
  /\ Kind \in [Hooks -> HookKinds]
  /\ HookFailFast \subseteq Hooks
  /\ Writes \in [Hooks -> SUBSET Projects]
  /\ IsFiniteSet(Hooks)
  /\ Hooks # {}

ASSUME ProjectAssumption ==
  /\ Depth \in [Projects -> Nat]
  /\ Nested \in [Projects -> SUBSET Projects]
  /\ ProjectFailFast \subseteq Projects
  /\ \A p \in Projects : p \in Nested[p]
  /\ \A p, q \in Projects :
       p # q /\ Depth[p] = Depth[q] => Nested[p] \cap Nested[q] = {}

ASSUME ValueAssumption ==
  /\ HookConcurrency \in Nat \ {0}
  /\ Indexed \in Content
  /\ \A p \in Projects : Unknown \notin [Nested[p] -> Content]

VARIABLES
  args,           \* the options of this run that the scheduler reads
  worktree,       \* content of every area
  origin,         \* history: the worktree when run_hooks was entered
  remaining,      \* projects whose level has not been reached
  level,          \* projects of the running level
  permits,        \* free permits of the level's semaphore
  group,          \* [Projects -> SUBSET Hooks], the priority group being run
  status,         \* [Hooks -> Status]
  wrote,          \* hooks that edited a file
  baseline,       \* DiffTracker.baseline of every project
  flagged,        \* hooks of groups found to have modified files
  stopped,        \* projects whose run ended with stop_after_level
  failed,         \* HookRunSession.failed
  modifiedFiles,  \* HookRunSession.modified_files
  outcome         \* what run_hooks returned

vars == <<args, worktree, origin, remaining, level, permits, group, status,
          wrote, baseline, flagged, stopped, failed, modifiedFiles, outcome>>

session == <<failed, modifiedFiles>>

Executed == {"passed", "failed"}
Finished == Executed \cup {"skipped", "no-files", "dry-run"}

(***************************************************************************)
(* A hook whose future is dropped is "dropped"; its external command is    *)
(* not killed (no kill_on_drop) and lives on as an "orphan".               *)
(***************************************************************************)
Status == Finished \cup {"pending", "queued", "running", "dropped", "orphan"}

Outcomes == {"none", "Success", "Failure", "Error"}

Args == [dryRun : BOOLEAN, cleaned : BOOLEAN, failFast : {"unset", "on", "off"}]

HooksOf(p) == {h \in Hooks : ProjectOf[h] = p}
Pending(p) == {h \in HooksOf(p) : status[h] = "pending"}

(***************************************************************************)
(* git::diff_worktree(project path).  Only changes relative to the index   *)
(* under the project's own path are seen.                                  *)
(***************************************************************************)
Diff(p) == [a \in Nested[p] |-> worktree[a]]
EmptyDiff(p) == [a \in Nested[p] |-> Indexed]
Diffs == UNION {[Nested[p] -> Content] : p \in Projects}

\* Faulty: hooks of all priorities in one group.
FirstGroupAnyPriority(p) == Pending(p)

\* Faulty: the iterator does not drain the hooks it has yielded.
FirstGroupUndrained(p) ==
  {h \in HooksOf(p) : \A g \in HooksOf(p) : Priority[h] <= Priority[g]}

(***************************************************************************)
(* PriorityGroups::next on hooks sorted by priority.                       *)
(***************************************************************************)
FirstGroup(p) ==
  {h \in Pending(p) : \A g \in Pending(p) : Priority[h] <= Priority[g]}

(***************************************************************************)
(* fail_fast.or(project config).unwrap_or(false) in run_hooks.             *)
(***************************************************************************)
StopsOnFailure(p) ==
  \/ args.failFast = "on"
  \/ args.failFast = "unset" /\ p \in ProjectFailFast

RequiresDiffTracking(h) == Kind[h] = "external"

(***************************************************************************)
(* group_requires_diff_tracking in run_project.                            *)
(***************************************************************************)
GroupRequiresDiffTracking(hooks) ==
  ~args.dryRun /\ \E h \in hooks : RequiresDiffTracking(h)

(***************************************************************************)
(* semaphore.acquire(1).await completes.                                   *)
(***************************************************************************)
PermitFree == permits > 0

(***************************************************************************)
(* run_hook drops its permit when the command is over.                     *)
(***************************************************************************)
PermitsAfterRun == permits + 1


-----------------------------------------------------------------------------
Init ==
  /\ args \in Args
  /\ worktree \in [Projects -> Content]
  /\ args.cleaned => worktree = [a \in Projects |-> Indexed]
  /\ origin = worktree
  /\ remaining = {ProjectOf[h] : h \in Hooks}
  /\ level = {}
  /\ permits = HookConcurrency
  /\ group = [p \in Projects |-> {}]
  /\ status = [h \in Hooks |-> "pending"]
  /\ wrote = {}
  /\ baseline = [p \in Projects |-> Unknown]
  /\ flagged = {}
  /\ stopped = {}
  /\ failed = FALSE
  /\ modifiedFiles = FALSE
  /\ outcome = "none"

(***************************************************************************)
(* One turn of the loop of run_hooks: the deepest remaining projects get a *)
(* fresh semaphore and, while the worktree is believed clean, an empty     *)
(* baseline.                                                               *)
(***************************************************************************)
StartLevel ==
  /\ outcome = "none"
  /\ level = {}
  /\ remaining # {}
  /\ level' = {p \in remaining : \A q \in remaining : Depth[q] <= Depth[p]}
  /\ remaining' = remaining \ level'
  /\ permits' = HookConcurrency
  /\ baseline' = [p \in Projects |->
                    IF p \in level' /\ args.cleaned /\ ~modifiedFiles
                    THEN EmptyDiff(p) ELSE Unknown]
  /\ UNCHANGED <<args, worktree, origin, group, status, wrote, flagged,
                 stopped, session, outcome>>

(***************************************************************************)
(* run_project takes its next group: DiffTracker::prepare_for_group, then  *)
(* the futures of the group are created.  Skipped hooks return at their    *)
(* first poll, without a permit.                                           *)
(***************************************************************************)
StartGroup(p) ==
  LET hooks == FirstGroup(p)
  IN  /\ outcome = "none"
      /\ p \in level \ stopped
      /\ group[p] = {}
      /\ hooks # {}
      /\ group' = [group EXCEPT ![p] = hooks]
      /\ status' = [h \in Hooks |->
                      IF h \notin hooks THEN status[h]
                      ELSE IF Kind[h] = "skip" THEN "skipped" ELSE "queued"]
      /\ baseline' = IF GroupRequiresDiffTracking(hooks) /\ baseline[p] = Unknown
                     THEN [baseline EXCEPT ![p] = Diff(p)] ELSE baseline
      /\ UNCHANGED <<args, worktree, origin, remaining, level, permits, wrote,
                     flagged, stopped, session, outcome>>

(***************************************************************************)
(* run_hook once its turn comes: a permit, and files (or always_run), are  *)
(* needed to run the command.                                              *)
(***************************************************************************)
StartHook(h) ==
  /\ outcome = "none"
  /\ status[h] = "queued"
  /\ ~args.dryRun
  /\ PermitFree
  /\ permits' = permits - 1
  /\ status' = [status EXCEPT ![h] = "running"]
  /\ UNCHANGED <<args, worktree, origin, remaining, level, group, wrote,
                 baseline, flagged, stopped, session, outcome>>

(***************************************************************************)
(* A hook without files takes its permit and gives it back in one poll; a  *)
(* dry run takes no permit.                                                *)
(***************************************************************************)
ReportWithoutRunning(h) ==
  /\ outcome = "none"
  /\ status[h] = "queued"
  /\ \/ /\ args.dryRun
        /\ status' = [status EXCEPT ![h] = "dry-run"]
     \/ /\ PermitFree
        /\ status' = [status EXCEPT ![h] = "no-files"]
  /\ UNCHANGED <<args, worktree, origin, remaining, level, permits, group,
                 wrote, baseline, flagged, stopped, session, outcome>>

(***************************************************************************)
(* The command of a running hook, or of one whose future was dropped,      *)
(* changes files.                                                          *)
(***************************************************************************)
EditFiles(h) ==
  /\ status[h] \in {"running", "orphan"}
  /\ Kind[h] \in {"builtin", "external"}
  /\ \E a \in Writes[h], c \in Content :
       /\ c # worktree[a]
       /\ worktree' = [worktree EXCEPT ![a] = c]
  /\ wrote' = wrote \cup {h}
  /\ UNCHANGED <<args, origin, remaining, level, permits, group, status,
                 baseline, flagged, stopped, session, outcome>>

FinishHook(h) ==
  /\ outcome = "none"
  /\ status[h] = "running"
  /\ \E result \in Executed : status' = [status EXCEPT ![h] = result]
  /\ permits' = PermitsAfterRun
  /\ UNCHANGED <<args, worktree, origin, remaining, level, group, wrote,
                 baseline, flagged, stopped, session, outcome>>

(***************************************************************************)
(* An error leaves both try_collect calls at once: every other future of   *)
(* the level is dropped, and run_hooks returns the error.                  *)
(***************************************************************************)
Abort(erring) ==
  /\ outcome' = "Error"
  /\ status' = [h \in Hooks |->
                  CASE h \in erring -> "dropped"
                    [] h \notin erring /\ status[h] = "running" ->
                         IF Kind[h] = "external" THEN "orphan" ELSE "dropped"
                    [] h \notin erring /\ status[h] = "queued" -> "dropped"
                    [] OTHER -> status[h]]
  /\ UNCHANGED <<args, worktree, origin, remaining, level, permits, group,
                 wrote, baseline, flagged, stopped, session>>

(***************************************************************************)
(* Language::run returned an error, for example the command was not found. *)
(***************************************************************************)
HookError(h) ==
  /\ outcome = "none"
  /\ status[h] = "running"
  /\ Abort({h})

-----------------------------------------------------------------------------
ExecutedIn(hooks) == {h \in hooks : status[h] \in Executed}

(***************************************************************************)
(* FileChanges::Modified from a hook of the group, and otherwise whether   *)
(* some hook left it to `git diff`.                                        *)
(***************************************************************************)
KnownModified(hooks) ==
  \E h \in ExecutedIn(hooks) : Kind[h] = "builtin" /\ h \in wrote

\* Faulty: only failed commands are suspected of editing.
NeedsDiffIfFailed(hooks) ==
  /\ ~KnownModified(hooks)
  /\ \E h \in hooks : status[h] = "failed" /\ Kind[h] = "external"

NeedsDiff(hooks) ==
  /\ ~KnownModified(hooks)
  /\ \E h \in ExecutedIn(hooks) : Kind[h] = "external"

(***************************************************************************)
(* DiffTracker::changed_after_group reached with an unknown baseline is    *)
(* `unreachable!`: the run goes no further.                                *)
(***************************************************************************)
TrackerPanics(p) == NeedsDiff(group[p]) /\ baseline[p] = Unknown

GroupModified(p) ==
  \/ KnownModified(group[p])
  \/ NeedsDiff(group[p]) /\ baseline[p] # Diff(p)

\* Faulty: no invalidate after a reported modification.
NextBaselineKept(p) == IF NeedsDiff(group[p]) THEN Diff(p) ELSE baseline[p]

(***************************************************************************)
(* DiffTracker::changed_after_group advances the baseline, invalidate      *)
(* drops it.                                                               *)
(***************************************************************************)
NextBaseline(p) ==
  IF KnownModified(group[p]) THEN Unknown
  ELSE IF NeedsDiff(group[p]) THEN Diff(p) ELSE baseline[p]

(***************************************************************************)
(* ModificationScope::from_results: a modification by the only executed    *)
(* hook makes that hook fail.                                              *)
(***************************************************************************)
Blamed(p) ==
  {h \in ExecutedIn(group[p]) :
     GroupModified(p) /\ ExecutedIn(group[p]) = {h}}

FailedIn(p) == {h \in group[p] : status[h] = "failed"} \cup Blamed(p)

GroupFailed(p) == GroupModified(p) \/ FailedIn(p) # {}

\* Faulty: a modified group does not count as a failure of its hooks.
HookStopsOnExitCode(p) ==
  ExecutedIn(group[p]) \cap HookFailFast \cap FailedIn(p) # {}

HookStops(p) ==
  \E h \in ExecutedIn(group[p]) \cap HookFailFast :
    GroupModified(p) \/ h \in FailedIn(p)

ShouldStopProject(p) == GroupFailed(p) /\ (StopsOnFailure(p) \/ HookStops(p))

(***************************************************************************)
(* The rest of the loop body of run_project, once every hook of the group  *)
(* has a result.                                                           *)
(***************************************************************************)
CompleteGroup(p) ==
  /\ outcome = "none"
  /\ p \in level
  /\ group[p] # {}
  /\ \A h \in group[p] : status[h] \in Finished
  /\ ~TrackerPanics(p)
  /\ status' = [h \in Hooks |-> IF h \in Blamed(p) THEN "failed" ELSE status[h]]
  /\ flagged' = IF GroupModified(p) THEN flagged \cup group[p] ELSE flagged
  /\ baseline' = [baseline EXCEPT ![p] = NextBaseline(p)]
  /\ stopped' = IF ShouldStopProject(p) THEN stopped \cup {p} ELSE stopped
  /\ group' = [group EXCEPT ![p] = {}]
  /\ UNCHANGED <<args, worktree, origin, remaining, level, permits, wrote,
                 session, outcome>>

(***************************************************************************)
(* `git diff` could not be started before or after a group.                *)
(***************************************************************************)
DiffError(p) ==
  /\ outcome = "none"
  /\ p \in level \ stopped
  /\ \A h \in group[p] : status[h] \in Finished
  /\ \/ /\ group[p] = {}
        /\ baseline[p] = Unknown
        /\ GroupRequiresDiffTracking(FirstGroup(p))
     \/ NeedsDiff(group[p])
  /\ Abort({})

ProjectDone(p) == group[p] = {} /\ (p \in stopped \/ Pending(p) = {})

(***************************************************************************)
(* PriorityGroupResult::failed over the groups of the level.               *)
(***************************************************************************)
LevelFailed ==
  \E p \in level : \E h \in HooksOf(p) : status[h] = "failed" \/ h \in flagged

(***************************************************************************)
(* run_project_level returned: finish_priority_group for every result of   *)
(* the level, then stop_after_level ends the loop.                         *)
(***************************************************************************)
FinishLevel ==
  /\ outcome = "none"
  /\ level # {}
  /\ \A p \in level : ProjectDone(p)
  /\ failed' = (failed \/ LevelFailed)
  /\ modifiedFiles' = (modifiedFiles \/ \E p \in level : HooksOf(p) \cap flagged # {})
  /\ remaining' = IF level \cap stopped # {} THEN {} ELSE remaining
  /\ level' = {}
  /\ UNCHANGED <<args, worktree, origin, permits, group, status, wrote,
                 baseline, flagged, stopped, outcome>>

(***************************************************************************)
(* HookRunSession::finish.                                                 *)
(***************************************************************************)
Finish ==
  /\ outcome = "none"
  /\ level = {}
  /\ remaining = {}
  /\ outcome' = IF failed THEN "Failure" ELSE "Success"
  /\ UNCHANGED <<args, worktree, origin, remaining, level, permits, group,
                 status, wrote, baseline, flagged, stopped, session>>

(***************************************************************************)
(* An orphan command exits by itself.                                      *)
(***************************************************************************)
OrphanExits(h) ==
  /\ status[h] = "orphan"
  /\ status' = [status EXCEPT ![h] = "dropped"]
  /\ UNCHANGED <<args, worktree, origin, remaining, level, permits, group,
                 wrote, baseline, flagged, stopped, session, outcome>>

Returned ==
  /\ outcome # "none"
  /\ UNCHANGED vars

Next ==
  \/ StartLevel
  \/ \E p \in Projects : StartGroup(p)
  \/ \E h \in Hooks : StartHook(h)
  \/ \E h \in Hooks : ReportWithoutRunning(h)
  \/ \E h \in Hooks : EditFiles(h)
  \/ \E h \in Hooks : FinishHook(h)
  \/ \E h \in Hooks : HookError(h)
  \/ \E p \in Projects : DiffError(p)
  \/ \E p \in Projects : CompleteGroup(p)
  \/ FinishLevel
  \/ Finish
  \/ \E h \in Hooks : OrphanExits(h)
  \/ Returned

Spec == Init /\ [][Next]_vars

(***************************************************************************)
(* The runtime polls every ready future, and a hook's command ends.        *)
(***************************************************************************)
Fairness ==
  /\ WF_vars(StartLevel)
  /\ \A p \in Projects : WF_vars(StartGroup(p)) /\ WF_vars(CompleteGroup(p))
  /\ \A h \in Hooks : WF_vars(StartHook(h) \/ ReportWithoutRunning(h))
  /\ \A h \in Hooks : WF_vars(FinishHook(h))
  /\ WF_vars(FinishLevel)
  /\ WF_vars(Finish)

FairSpec == Spec /\ Fairness

-----------------------------------------------------------------------------
(***************************************************************************)
(* Types.  The permits never go below zero: no hook takes one that is not  *)
(* free (run_hook awaits the semaphore).                                   *)
(***************************************************************************)
TypeOK ==
  /\ args \in Args
  /\ worktree \in [Projects -> Content]
  /\ origin \in [Projects -> Content]
  /\ remaining \subseteq Projects
  /\ level \subseteq Projects
  /\ permits \in Nat
  /\ group \in [Projects -> SUBSET Hooks]
  /\ status \in [Hooks -> Status]
  /\ wrote \subseteq Hooks
  /\ baseline \in [Projects -> Diffs \cup {Unknown}]
  /\ \A p \in Projects : baseline[p] \in [Nested[p] -> Content] \cup {Unknown}
  /\ flagged \subseteq Hooks
  /\ stopped \subseteq Projects
  /\ failed \in BOOLEAN
  /\ modifiedFiles \in BOOLEAN
  /\ outcome \in Outcomes

Started(h) == status[h] # "pending"

(***************************************************************************)
(* g belongs to a deeper project than h, or to an earlier priority group   *)
(* of the same project.                                                    *)
(***************************************************************************)
Precedes(g, h) ==
  \/ Depth[ProjectOf[g]] > Depth[ProjectOf[h]]
  \/ ProjectOf[g] = ProjectOf[h] /\ Priority[g] < Priority[h]

SameGroup(g, h) ==
  ProjectOf[g] = ProjectOf[h] /\ Priority[g] = Priority[h]

(***************************************************************************)
(* Every priority group and every depth level is a barrier: when a hook    *)
(* has been started, every hook that precedes it has its final result, so  *)
(* it sees all of their file changes.                                      *)
(***************************************************************************)
GroupsAreBarriers ==
  \A g, h \in Hooks : Started(h) /\ Precedes(g, h) => status[g] \in Finished

(***************************************************************************)
(* The semaphore of a level loses no permit and invents none, and bounds   *)
(* the commands that run at once, over all projects of the level.          *)
(***************************************************************************)
PermitsAccounted ==
  outcome = "none" =>
    permits + Cardinality({h \in Hooks : status[h] = "running"}) = HookConcurrency

(***************************************************************************)
(* The `unreachable!` of changed_after_group is unreachable: whenever some *)
(* hook of the group needs a diff, a baseline was captured before it ran.  *)
(***************************************************************************)
BaselineCaptured ==
  \A p \in Projects : outcome = "none" => ~TrackerPanics(p)

(***************************************************************************)
(* A successful run left every file as it found it: no edit of a hook      *)
(* escapes the built-in reports and the diffs together.                    *)
(***************************************************************************)
SuccessMeansUnchanged == outcome = "Success" => worktree = origin

(***************************************************************************)
(* A group is said to have modified files only if one of its own hooks     *)
(* did: a diff left behind by someone else is part of the baseline.        *)
(***************************************************************************)
BlamedForOwnEdits ==
  \A h \in flagged : \E g \in wrote : SameGroup(g, h)

(***************************************************************************)
(* A successful run has a result, and no failure, for every scheduled      *)
(* hook: stopping early or dropping a hook is never reported as success.   *)
(***************************************************************************)
SuccessMeansAllRan ==
  outcome = "Success" =>
    flagged = {} /\ \A h \in Hooks : status[h] \in Finished \ {"failed"}

(***************************************************************************)
(* A failed run names a culprit: a hook that failed, or a group that       *)
(* modified files.                                                         *)
(***************************************************************************)
FailureHasCulprit ==
  outcome = "Failure" => flagged # {} \/ \E h \in Hooks : status[h] = "failed"

(***************************************************************************)
(* What makes run_project stop: a failure under the project's fail_fast,   *)
(* or of an executed hook with its own fail_fast.                          *)
(***************************************************************************)
Halts(h) ==
  /\ status[h] = "failed" \/ h \in flagged
  /\ \/ StopsOnFailure(ProjectOf[h])
     \/ h \in HookFailFast /\ status[h] \in Executed

(***************************************************************************)
(* Fail-fast as implemented: once a halting hook's group is over, no later *)
(* group of its project and no shallower level starts a hook.              *)
(***************************************************************************)
FailFastHonoured ==
  \A g, h \in Hooks : Halts(g) /\ Precedes(g, h) => ~Started(h)

(***************************************************************************)
(* The scheduler implements the abstract run of OrderedRun, with the       *)
(* barriers of groups and levels as the order.                             *)
(***************************************************************************)
PhaseOf(s) ==
  CASE s \in {"pending", "queued"} -> "idle"
    [] s = "running" -> "active"
    [] s \in Finished -> "over"
    [] OTHER -> "lost"

VerdictOf(result) ==
  CASE result = "none" -> "open"
    [] result = "Success" -> "success"
    [] result = "Failure" -> "failure"
    [] OTHER -> "error"

Abstract ==
  INSTANCE OrderedRun WITH
    MustPrecede <- Precedes,
    phase <- [h \in Hooks |-> PhaseOf(status[h])],
    verdict <- VerdictOf(outcome)

(***************************************************************************)
(* Every step of run_hooks and below is a step of OrderedRun or none: no   *)
(* hook starts twice or early, and a return leaves nothing running.        *)
(***************************************************************************)
ImplementsOrderedRun == Abstract!Spec

(***************************************************************************)
(* Every run returns.                                                      *)
(***************************************************************************)
Termination == <>(outcome # "none")

=============================================================================
