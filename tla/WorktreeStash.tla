---------------------------- MODULE WorktreeStash ----------------------------
(***************************************************************************)
(* Unstaged changes during `prek run`: WorktreeStash of cli/run/stash.rs,  *)
(* the cleanup list of cleanup.rs and the exit paths of main.rs.           *)
(*                                                                         *)
(* The main thread writes the unstaged changes to a patch, checks out the  *)
(* index, runs the hooks and applies the patch again.  A Ctrl-C starts a   *)
(* handler thread, which restores the changes and exits the process while  *)
(* the main thread goes on.  Every git command may fail, hook commands     *)
(* edit and stage files as long as they live, and the process may be       *)
(* killed at any moment.                                                   *)
(*                                                                         *)
(* Contents are followed hunk by hunk: a patch applies when every one of   *)
(* its hunks finds the text it was made against.                           *)
(***************************************************************************)
EXTENDS Naturals

CONSTANTS
  Hunks,     \* places in tracked files under the workspace root
  Intents    \* files that may be intent-to-add (`git add -N`)

VARIABLES
  user,         \* history: hunks with unstaged changes when the stash is made
  intent,       \* the intent-to-add files read by git::worktree_status
  work,         \* [Hunks -> Texts], the worktree
  index,        \* [Hunks -> Texts], the git index
  marker,       \* [Intents -> Markers], their entries in the index
  patch,        \* hunks of the patch file on disk
  saved,        \* PendingChanges.patch is Some
  state,        \* WorktreeStash.state
  stateLock,    \* holder of the mutex around state
  registered,   \* the closure of add_cleanup is in CLEANUP_HOOKS
  listLock,     \* holder of the mutex of CLEANUP_HOOKS
  exitLock,     \* holder of EXIT_LOCK
  interrupted,  \* INTERRUPTED
  pc,           \* [Threads -> Places]
  result,       \* what run() is about to return
  report,       \* [Threads -> Reports], what the thread's restore returned
  live,         \* some hook command is alive
  late,         \* history: what hooks changed after a restore began
  attempts,     \* history: restores that were started
  exit          \* how the process ended

vars == <<user, intent, work, index, marker, patch, saved, state, stateLock,
          registered, listLock, exitLock, interrupted, pc, result, report,
          live, late, attempts, exit>>

history == <<user, intent>>
files == <<work, index, marker>>
stash == <<patch, saved, state, attempts>>
exiting == <<registered, listLock, exitLock, interrupted>>
hooks == <<live, late>>

Threads == {"main", "handler"}
Texts == {"staged", "user", "hook"}
Markers == {"intent", "untracked", "added"}
Reports == {"none", "Restored", "Reverted", "Error"}
Results == {"none", "success", "failure", "error"}

RestorePlaces == {"apply", "reset", "recheckout", "reapply", "mark"}
PreparePlaces == {"rm", "patch", "checkout", "leave"}
Places == {"idle", "save", "enter", "hooks", "take", "returned", "return",
           "exit-lock", "drain", "exit"} \cup RestorePlaces \cup PreparePlaces

-----------------------------------------------------------------------------
(***************************************************************************)
(* WorktreeStash::save is only called when something is unstaged.          *)
(***************************************************************************)
Init ==
  /\ user \in SUBSET Hunks
  /\ intent \in SUBSET Intents
  /\ user # {} \/ intent # {}
  /\ work = [h \in Hunks |-> IF h \in user THEN "user" ELSE "staged"]
  /\ index = [h \in Hunks |-> "staged"]
  /\ marker = [f \in Intents |-> IF f \in intent THEN "intent" ELSE "untracked"]
  /\ patch = {}
  /\ saved = FALSE
  /\ state = "absent"
  /\ stateLock = "free"
  /\ registered = FALSE
  /\ listLock = "free"
  /\ exitLock = "free"
  /\ interrupted = FALSE
  /\ pc = [t \in Threads |-> IF t = "main" THEN "save" ELSE "idle"]
  /\ result = "none"
  /\ report = [t \in Threads |-> "none"]
  /\ live = FALSE
  /\ late = {}
  /\ attempts = 0
  /\ exit = "none"

At(t, place) == exit = "none" /\ pc[t] = place
Go(t, place) == pc' = [pc EXCEPT ![t] = place]

(***************************************************************************)
(* save: the state and its cleanup closure exist before anything is done.  *)
(***************************************************************************)
Register ==
  /\ At("main", "save")
  /\ listLock = "free"
  /\ state' = "pending"
  /\ registered' = TRUE
  /\ Go("main", "enter")
  /\ UNCHANGED <<history, files, patch, saved, attempts, stateLock, listLock,
                 exitLock, interrupted, result, report, hooks, exit>>

(***************************************************************************)
(* save takes the mutex; a state already taken means that the cleanup was  *)
(* faster ("Worktree cleanup was interrupted").                            *)
(***************************************************************************)
Enter ==
  /\ At("main", "enter")
  /\ stateLock = "free"
  /\ IF state = "taken"
     THEN result' = "error" /\ Go("main", "take") /\ UNCHANGED stateLock
     ELSE stateLock' = "main" /\ Go("main", "rm") /\ UNCHANGED result
  /\ UNCHANGED <<history, files, stash, exiting, report, hooks, exit>>

(***************************************************************************)
(* prepare: `git rm --cached` of the intent-to-add files.                  *)
(***************************************************************************)
ClearIntent ==
  /\ At("main", "rm")
  /\ \/ /\ marker' = [f \in Intents |-> IF f \in intent THEN "untracked" ELSE marker[f]]
        /\ Go("main", "patch")
        /\ UNCHANGED result
     \/ /\ intent # {}
        /\ result' = "error"
        /\ Go("main", "leave")
        /\ UNCHANGED marker
  /\ UNCHANGED <<history, work, index, stash, stateLock, exiting, report, hooks, exit>>

Dirty == {h \in Hunks : work[h] # index[h]}

\* Faulty: an error while the patch is written is only logged.
SavePatchUnchecked ==
  /\ At("main", "patch")
  /\ saved' = TRUE
  /\ patch' \in {Dirty, {}}
  /\ Go("main", "checkout")
  /\ UNCHANGED <<history, files, state, attempts, stateLock, exiting, result,
                 report, hooks, exit>>

(***************************************************************************)
(* SavedPatch::save: write-tree, diff-index and the patch file.  The saved *)
(* tree is the index of this moment.                                       *)
(***************************************************************************)
SavePatch ==
  /\ At("main", "patch")
  /\ \/ /\ Dirty # {}
        /\ patch' = Dirty
        /\ saved' = TRUE
        /\ Go("main", "checkout")
        /\ UNCHANGED result
     \/ /\ Dirty = {}
        /\ Go("main", "leave")
        /\ UNCHANGED <<patch, saved, result>>
     \/ /\ result' = "error"
        /\ Go("main", "leave")
        /\ UNCHANGED <<patch, saved>>
  /\ UNCHANGED <<history, files, state, attempts, stateLock, exiting, report, hooks, exit>>

CheckedOut(hunks) == [h \in Hunks |-> IF h \in hunks THEN index[h] ELSE work[h]]

\* Faulty: the patch is recorded only when the checkout has worked.
SavedAfterCheckout(done) == done

(***************************************************************************)
(* The patch is recorded before the checkout, which may fail halfway.      *)
(***************************************************************************)
SavedAcrossCheckout(done) == saved

Checkout ==
  /\ At("main", "checkout")
  /\ \/ /\ work' = CheckedOut(Hunks)
        /\ saved' = SavedAcrossCheckout(TRUE)
        /\ UNCHANGED result
     \/ /\ \E hunks \in SUBSET Hunks : work' = CheckedOut(hunks)
        /\ saved' = SavedAcrossCheckout(FALSE)
        /\ result' = "error"
  /\ Go("main", "leave")
  /\ UNCHANGED <<history, index, marker, patch, state, attempts, stateLock,
                 exiting, report, hooks, exit>>

\* Faulty: the guard is still held when a failed preparation is undone.
LockAfterPrepare == IF result = "error" THEN stateLock ELSE "free"

\* The guard of save goes out of scope.
LockAfterSave == "free"

(***************************************************************************)
(* A failed preparation is undone at once; otherwise the hooks start.      *)
(***************************************************************************)
LeavePrepare ==
  /\ At("main", "leave")
  /\ stateLock' = LockAfterSave
  /\ Go("main", IF result = "error" THEN "take" ELSE "hooks")
  /\ live' = (result # "error")
  /\ UNCHANGED <<history, files, stash, exiting, result, report, late, exit>>

(***************************************************************************)
(* run_hooks returns.  After an error some commands may live on.           *)
(***************************************************************************)
HooksReturn ==
  /\ At("main", "hooks")
  /\ \/ result' \in {"success", "failure"} /\ live' = FALSE
     \/ result' = "error" /\ live' \in BOOLEAN
  /\ Go("main", "take")
  /\ UNCHANGED <<history, files, stash, stateLock, exiting, report, late, exit>>

Late(thing) == IF state = "taken" THEN late \cup {thing} ELSE late

(***************************************************************************)
(* A hook command edits a tracked file, stages a hunk or an untracked      *)
(* file, or ends.  Commands outlive the process.                           *)
(***************************************************************************)
HookWrites ==
  /\ live
  /\ \/ \E h \in Hunks :
          /\ late' = Late(h)
          /\ \/ work' = [work EXCEPT ![h] = "hook"] /\ UNCHANGED index
             \/ index' = [index EXCEPT ![h] = work[h]] /\ UNCHANGED work
          /\ UNCHANGED <<marker, live>>
     \/ \E f \in intent :
          /\ late' = Late(f)
          /\ marker' = [marker EXCEPT ![f] = "added"]
          /\ UNCHANGED <<work, index, live>>
     \/ live' = FALSE /\ UNCHANGED <<files, late>>
  /\ UNCHANGED <<history, stash, stateLock, exiting, pc, result, report, exit>>

-----------------------------------------------------------------------------
\* Where a thread goes on after restore_once: cleanup() holds listLock.
After(t) == IF listLock = t THEN "exit" ELSE "returned"
ListLockAfter(t) == IF listLock = t THEN "free" ELSE listLock

Report(t, what) == report' = [report EXCEPT ![t] = what]

\* guard.take()
StateTaken == "taken"

(***************************************************************************)
(* restore_once: whoever takes the state restores, everyone else is done.  *)
(***************************************************************************)
TakeState(t) ==
  /\ At(t, "take")
  /\ stateLock = "free"
  /\ \/ /\ state = "pending"
        /\ state' = StateTaken
        /\ stateLock' = t
        /\ attempts' = attempts + 1
        /\ Go(t, IF saved THEN "apply" ELSE "mark")
        /\ UNCHANGED <<report, listLock>>
     \/ /\ state # "pending"
        /\ Report(t, IF report[t] = "none" THEN "Restored" ELSE report[t])
        /\ listLock' = ListLockAfter(t)
        /\ Go(t, After(t))
        /\ UNCHANGED <<state, stateLock, attempts>>
  /\ UNCHANGED <<history, files, patch, saved, registered, exitLock,
                 interrupted, result, hooks, exit>>

Applies == \A h \in patch : work[h] = "staged"
Patched == [h \in Hunks |-> IF h \in patch THEN "user" ELSE work[h]]

(***************************************************************************)
(* SavedPatch::restore: git applies all hunks of the patch or none.        *)
(***************************************************************************)
Apply(t) ==
  /\ At(t, "apply")
  /\ \/ /\ Applies
        /\ work' = Patched
        /\ Report(t, "Restored")
        /\ Go(t, "mark")
     \/ /\ Go(t, "reset")
        /\ UNCHANGED <<work, report>>
  /\ UNCHANGED <<history, index, marker, stash, stateLock, exiting, result, hooks, exit>>

\* `git reset <tree>`: the index as it was before the hooks ran.
IndexReset == [h \in Hunks |-> "staged"]

(***************************************************************************)
(* restore_from_tree after a conflict: the index, the worktree, the patch. *)
(***************************************************************************)
Reset(t) ==
  /\ At(t, "reset")
  /\ \/ /\ index' = IndexReset
        /\ marker' = [f \in Intents |-> IF marker[f] = "added" THEN "untracked" ELSE marker[f]]
        /\ Go(t, "recheckout")
        /\ UNCHANGED report
     \/ /\ Report(t, "Error")
        /\ Go(t, "mark")
        /\ UNCHANGED <<index, marker>>
  /\ UNCHANGED <<history, work, stash, stateLock, exiting, result, hooks, exit>>

Recheckout(t) ==
  /\ At(t, "recheckout")
  /\ \/ /\ work' = CheckedOut(Hunks)
        /\ Go(t, "reapply")
        /\ UNCHANGED report
     \/ /\ \E hunks \in SUBSET Hunks : work' = CheckedOut(hunks)
        /\ Report(t, "Error")
        /\ Go(t, "mark")
  /\ UNCHANGED <<history, index, marker, stash, stateLock, exiting, result, hooks, exit>>

Reapply(t) ==
  /\ At(t, "reapply")
  /\ \/ /\ Applies
        /\ work' = Patched
        /\ Report(t, "Reverted")
     \/ /\ Report(t, "Error")
        /\ UNCHANGED work
  /\ Go(t, "mark")
  /\ UNCHANGED <<history, index, marker, stash, stateLock, exiting, result, hooks, exit>>

(***************************************************************************)
(* restore_intent, attempted even if the patch was not restored, and the   *)
(* end of restore_once.                                                    *)
(***************************************************************************)
RestoreIntent(t) ==
  /\ At(t, "mark")
  /\ \/ /\ marker' = [f \in Intents |-> IF f \in intent /\ marker[f] = "untracked"
                                        THEN "intent" ELSE marker[f]]
        /\ Report(t, IF report[t] = "none" THEN "Restored" ELSE report[t])
     \/ /\ intent # {}
        /\ Report(t, "Error")
        /\ UNCHANGED marker
  /\ stateLock' = "free"
  /\ listLock' = ListLockAfter(t)
  /\ Go(t, After(t))
  /\ UNCHANGED <<history, work, index, stash, registered, exitLock, interrupted,
                 result, hooks, exit>>

\* Faulty: a restore that reverted the hooks does not change the result.
ResultIgnoringRevert == IF report["main"] = "Error" THEN "error" ELSE result

(***************************************************************************)
(* The last lines of run(): what the restore does to the result.           *)
(***************************************************************************)
FinalResult ==
  IF report["main"] = "Error" \/ result = "error" THEN "error"
  ELSE IF report["main"] = "Reverted" THEN "failure"
  ELSE result

-----------------------------------------------------------------------------
(***************************************************************************)
(* main() looks at INTERRUPTED once the runtime is done.                   *)
(***************************************************************************)
Returned ==
  /\ At("main", "returned")
  /\ Go("main", IF interrupted THEN "exit-lock" ELSE "return")
  /\ result' = FinalResult
  /\ UNCHANGED <<history, files, stash, stateLock, exiting, report, hooks, exit>>

Return ==
  /\ At("main", "return")
  /\ exit' = result
  /\ UNCHANGED <<history, files, stash, stateLock, exiting, pc, result, report, hooks>>

(***************************************************************************)
(* Ctrl-C wakes the handler thread; later signals change nothing.          *)
(***************************************************************************)
Interrupt ==
  /\ At("handler", "idle")
  /\ interrupted' = TRUE
  /\ Go("handler", "exit-lock")
  /\ UNCHANGED <<history, files, stash, stateLock, registered, listLock,
                 exitLock, result, report, hooks, exit>>

(***************************************************************************)
(* exit_interrupted keeps EXIT_LOCK for good.                              *)
(***************************************************************************)
LockExit(t) ==
  /\ At(t, "exit-lock")
  /\ exitLock = "free"
  /\ exitLock' = t
  /\ Go(t, "drain")
  /\ UNCHANGED <<history, files, stash, stateLock, registered, listLock,
                 interrupted, result, report, hooks, exit>>

(***************************************************************************)
(* cleanup() holds the list while it runs the closures it drains.          *)
(***************************************************************************)
Drain(t) ==
  /\ At(t, "drain")
  /\ listLock = "free"
  /\ registered' = FALSE
  /\ listLock' = IF registered THEN t ELSE "free"
  /\ Go(t, IF registered THEN "take" ELSE "exit")
  /\ UNCHANGED <<history, files, stash, stateLock, exitLock, interrupted,
                 result, report, hooks, exit>>

Exit(t) ==
  /\ At(t, "exit")
  /\ exit' = "interrupted"
  /\ UNCHANGED <<history, files, stash, stateLock, exiting, pc, result, report, hooks>>

(***************************************************************************)
(* SIGKILL, or a panic: release builds abort on one.                       *)
(***************************************************************************)
Kill ==
  /\ exit = "none"
  /\ exit' = "killed"
  /\ UNCHANGED <<history, files, stash, stateLock, exiting, pc, result, report, hooks>>

Ended == exit # "none" /\ UNCHANGED vars

Restore(t) ==
  TakeState(t) \/ Apply(t) \/ Reset(t) \/ Recheckout(t) \/ Reapply(t) \/ RestoreIntent(t)

Main ==
  \/ Register
  \/ Enter
  \/ ClearIntent
  \/ SavePatch
  \/ Checkout
  \/ LeavePrepare
  \/ HooksReturn
  \/ Returned
  \/ Return

Next ==
  \/ Main
  \/ \E t \in Threads : Restore(t)
  \/ \E t \in Threads : LockExit(t) \/ Drain(t) \/ Exit(t)
  \/ Interrupt
  \/ HookWrites
  \/ Kill
  \/ Ended

Spec == Init /\ [][Next]_vars

(***************************************************************************)
(* Threads are scheduled, git commands end and run_hooks returns.          *)
(***************************************************************************)
FairSpec ==
  /\ Spec
  /\ WF_vars(Main)
  /\ \A t \in Threads : WF_vars(Restore(t)) /\ WF_vars(LockExit(t) \/ Drain(t) \/ Exit(t))

-----------------------------------------------------------------------------
(***************************************************************************)
(* Types.  The places are those of save, restore and the two exit paths;   *)
(* a thread is at one of them and a lock has one holder.                   *)
(***************************************************************************)
TypeOK ==
  /\ user \subseteq Hunks
  /\ intent \subseteq Intents
  /\ work \in [Hunks -> Texts]
  /\ index \in [Hunks -> Texts]
  /\ marker \in [Intents -> Markers]
  /\ patch \subseteq Hunks
  /\ saved \in BOOLEAN
  /\ state \in {"absent", "pending", "taken"}
  /\ stateLock \in Threads \cup {"free"}
  /\ registered \in BOOLEAN
  /\ listLock \in Threads \cup {"free"}
  /\ exitLock \in Threads \cup {"free"}
  /\ interrupted \in BOOLEAN
  /\ pc \in [Threads -> Places]
  /\ result \in Results
  /\ report \in [Threads -> Reports]
  /\ live \in BOOLEAN
  /\ late \subseteq Hunks \cup Intents
  /\ attempts \in Nat
  /\ exit \in Results \cup {"interrupted", "killed"}

(***************************************************************************)
(* Nothing is ever lost: at any moment, even when the process is killed,   *)
(* every unstaged change is in the worktree or in the patch file.          *)
(***************************************************************************)
Recoverable == \A h \in user : work[h] = "user" \/ h \in patch

(***************************************************************************)
(* stash.rs: "Preparation and restoration share the lock so cleanup cannot *)
(* race a Git mutation."  At most one thread is between two git commands.  *)
(***************************************************************************)
MutationsExclusive ==
  \A t, u \in Threads :
    /\ pc[t] \in PreparePlaces \cup RestorePlaces
    /\ pc[u] \in PreparePlaces \cup RestorePlaces
    => t = u

(***************************************************************************)
(* The patch is restored by one of the explicit restore, the drop and the  *)
(* interrupt, and never by a second one.                                   *)
(***************************************************************************)
RestoredOnce == attempts <= 1

RestoreFailed == \E t \in Threads : report[t] = "Error"

ChangesBack ==
  /\ \A h \in user \ late : work[h] = "user"
  /\ \A f \in intent \ late : marker[f] \in {"intent", "added"}

(***************************************************************************)
(* When the process ends in an orderly way and reported no failed restore, *)
(* the unstaged changes and the intent-to-add entries are back, unless a   *)
(* hook command overwrote them after the restore had begun, or the stash   *)
(* was registered when the interrupt had already drained the list.         *)
(***************************************************************************)
RestoredAtExit ==
  /\ exit \in {"success", "failure", "error", "interrupted"}
  /\ ~RestoreFailed
  /\ ~(exit = "interrupted" /\ registered)
  => ChangesBack

(***************************************************************************)
(* cleanup.rs on add_cleanup: "Add a cleanup function to be run when the   *)
(* program is interrupted."  An interrupted process restores the changes.  *)
(***************************************************************************)
InterruptRestores ==
  exit = "interrupted" /\ ~RestoreFailed => ChangesBack

(***************************************************************************)
(* A restore that throws the hooks' fixes away, on whichever thread, is    *)
(* never followed by exit status 0: the commit must not go through.        *)
(***************************************************************************)
RevertNeverSucceeds ==
  exit = "success" => \A t \in Threads : report[t] \notin {"Reverted", "Error"}

(***************************************************************************)
(* A reverted run keeps nothing of what the hooks did before the restore   *)
(* began, neither in the worktree nor in the index.                        *)
(***************************************************************************)
RevertIsComplete ==
  (\E t \in Threads : report[t] = "Reverted") =>
    \A h \in Hunks \ late :
      /\ index[h] = "staged"
      /\ work[h] = IF h \in patch THEN "user" ELSE "staged"

(***************************************************************************)
(* The three mutexes never stop the process from ending.                   *)
(***************************************************************************)
ProcessEnds == <>(exit # "none")
=============================================================================
