----------------------------- MODULE HookRunInv -----------------------------
(***************************************************************************)
(* The inductive invariant behind the safety properties of HookRun.        *)
(***************************************************************************)
EXTENDS HookRun

(***************************************************************************)
(* Where a hook's status says its future is: unfinished hooks of an open   *)
(* run are in the group of a project of the running level, and a run that  *)
(* returned normally has left no future behind.                            *)
(***************************************************************************)
Shape ==
  /\ \A p \in Projects : group[p] \subseteq HooksOf(p)
  /\ \A p \in Projects : group[p] # {} => p \in level
  /\ \A p \in Projects : \A h \in group[p] : status[h] # "pending"
  /\ outcome = "none" =>
       \A h \in Hooks : status[h] \in {"queued", "running"} =>
                          h \in group[ProjectOf[h]]
  /\ outcome # "Error" => \A h \in Hooks : status[h] \notin {"dropped", "orphan"}
  /\ outcome \in {"Success", "Failure"} =>
       \A h \in Hooks : status[h] \notin {"queued", "running"}

(***************************************************************************)
(* The levels go from the deepest projects outward, and as long as some    *)
(* are left, or nothing failed, every project already left has a final     *)
(* result for each of its hooks.                                           *)
(***************************************************************************)
Order ==
  /\ \A p, q \in level : Depth[p] = Depth[q]
  /\ \A p \in level : \A q \in remaining : Depth[q] < Depth[p]
  /\ \A h \in Hooks : ProjectOf[h] \in remaining => status[h] = "pending"
  /\ \A h \in Hooks :
       /\ ProjectOf[h] \notin level \cup remaining
       /\ level \cup remaining # {} \/ ~failed
       => status[h] \in Finished

(***************************************************************************)
(* A failure or modification outside the running level is in the session's *)
(* failed flag, and a project only stops because of one.                   *)
(***************************************************************************)
Failures ==
  /\ \A p \in stopped : \E h \in HooksOf(p) : status[h] = "failed" \/ h \in flagged
  /\ \A h \in Hooks :
       (status[h] = "failed" \/ h \in flagged) /\ ProjectOf[h] \notin level => failed
  /\ outcome = "Success" => ~failed
  /\ outcome \in {"Success", "Failure"} => level = {} /\ remaining = {}

(***************************************************************************)
(* The hooks that may have changed an area and are not yet accounted for.  *)
(***************************************************************************)
Suspects(a) ==
  {h \in wrote : /\ h \in group[ProjectOf[h]]
                 /\ a \in Nested[ProjectOf[h]]
                 /\ status[h] \in Executed \cup {"running"}
                 /\ Kind[h] \in {"builtin", "external"}}

(***************************************************************************)
(* What is true of the baselines whatever the hooks write.                 *)
(***************************************************************************)
Captures ==
  /\ args.cleaned => \A a \in Projects : origin[a] = Indexed
  /\ args.dryRun => \A h \in Hooks : status[h] \notin Executed \cup {"running", "orphan"}
  /\ \A p \in Projects : \A h \in group[p] :
       Kind[h] = "external" /\ ~args.dryRun => baseline[p] # Unknown

(***************************************************************************)
(* While no group was flagged, every changed area has a suspect, and every *)
(* known baseline is the diff of the untouched worktree.                   *)
(***************************************************************************)
Tracking ==
  outcome \in {"none", "Success"} /\ flagged = {} =>
    /\ \A a \in Projects : worktree[a] # origin[a] => Suspects(a) # {}
    /\ \A p \in level : baseline[p] # Unknown =>
                          baseline[p] = [a \in Nested[p] |-> origin[a]]

(***************************************************************************)
(* Hooks only edit files of the project they belong to.                    *)
(***************************************************************************)
Confined == \A h \in Hooks : Writes[h] \subseteq Nested[ProjectOf[h]]

(***************************************************************************)
(* Only hooks that may edit have written, and not before they started; the *)
(* session knows of every modification of a finished level; and a known    *)
(* baseline of a running level is the project's diff, up to what the       *)
(* running group itself has written.                                       *)
(***************************************************************************)
Attribution ==
  /\ \A p \in Projects : \A g, h \in group[p] : Priority[g] = Priority[h]
  /\ \A h \in wrote : /\ Kind[h] \in {"builtin", "external"}
                       /\ status[h] \in Executed \cup {"running", "dropped", "orphan"}
  /\ \A h \in flagged : ProjectOf[h] \notin level => modifiedFiles
  /\ outcome = "none" =>
       \A p \in level : baseline[p] \in {Unknown, Diff(p)} \/ group[p] \cap wrote # {}
  /\ BlamedForOwnEdits

Structure ==
  /\ TypeOK
  /\ Shape
  /\ Order
  /\ Failures
  /\ GroupsAreBarriers
  /\ Captures
=============================================================================
