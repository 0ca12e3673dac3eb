------------------------------- MODULE GitShim -------------------------------
(***************************************************************************)
(* The script prek puts in a repository's hooks directory for one type of  *)
(* hook, and the hook it preserves beside it as `<hook>.legacy`:           *)
(* `prek install` and `prek uninstall` (cli/install.rs), and what happens  *)
(* when git runs the hook (cli/hook_impl.rs).                              *)
(*                                                                         *)
(* The commands take no lock and may be killed between any two steps.      *)
(* Users and other hook managers change the same two files.  Files are     *)
(* shared with running commands, so a file that a command has opened may   *)
(* be renamed before it is written.                                        *)
(***************************************************************************)
EXTENDS PrePush

CONSTANTS
  Foreign,      \* scripts prek did not generate
  Migrating,    \* those of hook managers that run the `.legacy` hook themselves
  Unreadable,   \* those that cannot be read as text
  Inert,        \* those without the executable bit
  Commands,     \* processes of prek
  Pushes,       \* what git may ask to push; {} for hooks of other types
  MaxCommands,  \* bound on commands started
  MaxOutside,   \* bound on changes made by others and kills
  MaxCalls      \* bound on times git runs the hook

ASSUME ForeignAssumption ==
  /\ Migrating \subseteq Foreign /\ Unreadable \subseteq Foreign /\ Inert \subseteq Foreign
  /\ {"shim", "torn", "none", "prek"} \cap Foreign = {}
ASSUME CommandsAssumption == "other" \notin Commands
ASSUME PushesAssumption == \A h \in Pushes : IsPush(h)
ASSUME BoundsAssumption == MaxCommands \in Nat /\ MaxOutside \in Nat /\ MaxCalls \in Nat

VARIABLES
  hook,      \* the file `<hook>`
  legacy,    \* the file `<hook>.legacy`
  external,  \* core.hooksPath is set outside the repository
  pc,        \* [Commands -> Places]
  forced,    \* [Commands -> BOOLEAN], the --force flag
  fd,        \* [Commands -> Handles], where the file that is being written is now
  start,     \* history: the files when the command began, while nobody else changed them
  stack,     \* the scripts that run because git runs the hook, innermost last
  push,      \* what git pushes
  chosen,    \* what hook_run_options gave for it
  outcome,   \* what git does: "accept" or "reject", "none" while the hook runs
  failed,    \* history: a script that this call of the hook ran has failed
  started, outside, calls  \* how often each has happened

NoFile == [script |-> "none", exec |-> FALSE]
Scripts == Foreign \cup {"shim", "torn"}
FileStates == [script : Scripts, exec : BOOLEAN] \cup {NoFile}

\* torn: the file was truncated and not yet written.
Shim == [script |-> "shim", exec |-> TRUE]
Original(s) == [script |-> s, exec |-> s \notin Inert]
Exists(f) == f.script # "none"
Ours(f) == f.script = "shim"

Handles == {"hook", "legacy", "gone"}
InstallPlaces == {"move", "clear", "open", "write", "chmod"}
RemovePlaces == {"unlegacy", "inspect", "remove", "restore"}
Places == {"idle", "look", "installed", "uninstalled", "skipped", "error"}
            \cup InstallPlaces \cup RemovePlaces
Resting == {"idle", "installed", "uninstalled", "skipped", "error"}

\* How a process ends; a shim ends with an exit code.
Ends == {"zero", "nonzero", "signal"}
Frames == [script : Scripts, env : SUBSET (Migrating \cup {"prek"}),
           at : {"start", "checks", "run"}, code : Ends]

NoStart == [known |-> FALSE, hook |-> NoFile, legacy |-> NoFile]
Starts == [known : BOOLEAN, hook : FileStates, legacy : FileStates]
NoPush == [refs |-> <<>>]
Undecided == [Skip EXCEPT !.kind = "undecided"]

scripts == <<hook, legacy>>
command == <<pc, forced, fd, start>>
call == <<stack, push, chosen, outcome, failed>>
vars == <<scripts, external, command, call, started, outside, calls>>

Init ==
  /\ hook \in {Original(s) : s \in Foreign} \cup {NoFile}
  /\ legacy \in {Original(s) : s \in Foreign} \cup {NoFile}
  /\ external \in BOOLEAN
  /\ pc = [p \in Commands |-> "idle"]
  /\ forced = [p \in Commands |-> FALSE]
  /\ fd = [p \in Commands |-> "gone"]
  /\ start = [p \in Commands |-> NoStart]
  /\ stack = <<>> /\ push = NoPush /\ chosen = Undecided
  /\ outcome = "none" /\ failed = FALSE
  /\ started = 0 /\ outside = 0 /\ calls = 0

-----------------------------------------------------------------------------
(***************************************************************************)
(* Changes of the two files.                                               *)
(***************************************************************************)
Go(p, place) == pc' = [pc EXCEPT ![p] = place]

\* The process w (a command, or "other") has changed a file: what any other
\* command knows of the beginning is no longer the whole story.
ChangedBy(w) ==
  start' = [q \in Commands |-> IF q = w THEN start[q] ELSE NoStart]

\* An open file follows its name.
HandlesFollow(move) == fd' = [q \in Commands |-> move[fd[q]]]

RenameToLegacy ==
  /\ legacy' = hook /\ hook' = NoFile
  /\ HandlesFollow([hook |-> "legacy", legacy |-> "gone", gone |-> "gone"])
RenameToHook ==
  /\ hook' = legacy /\ legacy' = NoFile
  /\ HandlesFollow([hook |-> "gone", legacy |-> "hook", gone |-> "gone"])
ReplaceHook(f) ==
  /\ hook' = f /\ UNCHANGED legacy
  /\ HandlesFollow([hook |-> "gone", legacy |-> "legacy", gone |-> "gone"])
RemoveLegacy ==
  /\ legacy' = NoFile /\ UNCHANGED hook
  /\ HandlesFollow([hook |-> "hook", legacy |-> "gone", gone |-> "gone"])

NotCalled == UNCHANGED <<call, external, started, outside, calls>>
FilesKept == UNCHANGED <<scripts, fd, start>>


(***************************************************************************)
(* A command begins: install refuses an external core.hooksPath unless it  *)
(* is forced, uninstall always.                                            *)
(***************************************************************************)
Begin(p) ==
  /\ pc[p] \in Resting
  /\ started < MaxCommands /\ started' = started + 1
  /\ \E force \in BOOLEAN :
       /\ forced' = [forced EXCEPT ![p] = force]
       /\ \/ Go(p, IF external /\ ~force THEN "error" ELSE "look")
          \/ ~force /\ Go(p, IF external THEN "error" ELSE "unlegacy")
  /\ start' = [start EXCEPT ![p] = [known |-> TRUE, hook |-> hook, legacy |-> legacy]]
  /\ fd' = [fd EXCEPT ![p] = "gone"]
  /\ UNCHANGED <<scripts, external, call, outside, calls>>


-----------------------------------------------------------------------------
(***************************************************************************)
(* install_hook_script.                                                    *)
(***************************************************************************)
Look(p) ==
  /\ pc[p] = "look"
  /\ Go(p, CASE ~Exists(hook) \/ forced[p] \/ Ours(hook) -> "clear"
             [] Exists(hook) /\ ~forced[p] /\ hook.script \in Unreadable -> "error"
             [] OTHER -> "move")
  /\ UNCHANGED forced /\ FilesKept /\ NotCalled

\* rename_with_retry(hook, legacy)
Move(p) ==
  /\ pc[p] = "move"
  /\ \/ Exists(hook) /\ Go(p, "clear") /\ RenameToLegacy /\ ChangedBy(p)
     \/ ~Exists(hook) /\ Go(p, "error") /\ FilesKept
  /\ UNCHANGED forced /\ NotCalled

\* Faulty: the legacy hook survives a forced install.
ClearNothing(p) ==
  /\ pc[p] = "clear" /\ Go(p, "open")
  /\ UNCHANGED forced /\ FilesKept /\ NotCalled

\* A forced install removes the legacy hook too.
Clear(p) ==
  /\ pc[p] = "clear"
  /\ Go(p, "open")
  /\ IF forced[p] /\ Exists(legacy) THEN RemoveLegacy /\ ChangedBy(p) ELSE FilesKept
  /\ UNCHANGED forced /\ NotCalled

\* create(true).truncate(true): a file that exists keeps its mode.
Open(p) ==
  /\ pc[p] = "open"
  /\ Go(p, "write")
  /\ hook' = [script |-> "torn", exec |-> hook.exec] /\ UNCHANGED legacy
  /\ fd' = [fd EXCEPT ![p] = "hook"]
  /\ ChangedBy(p)
  /\ UNCHANGED forced /\ NotCalled

\* write_all goes to the opened file, whatever its name is now.
Write(p) ==
  /\ pc[p] = "write"
  /\ Go(p, "chmod")
  /\ CASE fd[p] = "hook" -> hook' = [hook EXCEPT !.script = "shim"] /\ UNCHANGED legacy
       [] fd[p] = "legacy" -> legacy' = [legacy EXCEPT !.script = "shim"] /\ UNCHANGED hook
       [] fd[p] = "gone" -> UNCHANGED scripts
  /\ ChangedBy(p)
  /\ UNCHANGED <<forced, fd>> /\ NotCalled

\* metadata and set_permissions go by the name.
Chmod(p) ==
  /\ pc[p] = "chmod"
  /\ \/ Exists(hook) /\ Go(p, "installed") /\ hook' = [hook EXCEPT !.exec = TRUE]
        /\ UNCHANGED <<legacy, fd>> /\ ChangedBy(p)
     \/ ~Exists(hook) /\ Go(p, "error") /\ FilesKept
  /\ UNCHANGED forced /\ NotCalled

-----------------------------------------------------------------------------
(***************************************************************************)
(* uninstall, for one type of hook.                                        *)
(***************************************************************************)
Unlegacy(p) ==
  /\ pc[p] = "unlegacy"
  /\ Go(p, "inspect")
  /\ IF Ours(legacy) THEN RemoveLegacy /\ ChangedBy(p) ELSE FilesKept
  /\ UNCHANGED forced /\ NotCalled

Inspect(p) ==
  /\ pc[p] = "inspect"
  /\ Go(p, CASE Ours(hook) -> "remove"
             [] hook.script \in Unreadable -> "error"
             [] OTHER -> "skipped")
  /\ UNCHANGED forced /\ FilesKept /\ NotCalled

Remove(p) ==
  /\ pc[p] = "remove"
  /\ \/ Exists(hook) /\ Go(p, "restore") /\ ReplaceHook(NoFile) /\ ChangedBy(p)
     \/ ~Exists(hook) /\ Go(p, "error") /\ FilesKept
  /\ UNCHANGED forced /\ NotCalled

\* Faulty: the shim is removed and the legacy hook left.
RestoreNothing(p) ==
  /\ pc[p] = "restore" /\ Go(p, "uninstalled")
  /\ UNCHANGED forced /\ FilesKept /\ NotCalled

Restore(p) ==
  /\ pc[p] = "restore"
  /\ Go(p, "uninstalled")
  /\ IF Exists(legacy) THEN RenameToHook /\ ChangedBy(p) ELSE FilesKept
  /\ UNCHANGED forced /\ NotCalled

-----------------------------------------------------------------------------
(***************************************************************************)
(* Others.                                                                 *)
(***************************************************************************)
Outside ==
  /\ outside < MaxOutside /\ outside' = outside + 1
  /\ UNCHANGED <<pc, forced, call, started, calls>>

\* A user or a tool replaces the hook.
ForeignWrites ==
  /\ Outside /\ \E s \in Foreign : ReplaceHook(Original(s))
  /\ ChangedBy("other") /\ UNCHANGED external

\* Another hook manager installs itself the way prek does.
ForeignMigrates ==
  /\ Outside
  /\ \E s \in Migrating :
       /\ hook' = Original(s)
       /\ legacy' = IF Exists(hook) THEN hook ELSE legacy
  /\ IF Exists(hook) THEN HandlesFollow([hook |-> "legacy", legacy |-> "gone", gone |-> "gone"])
     ELSE UNCHANGED fd
  /\ ChangedBy("other") /\ UNCHANGED external

UserDeletes ==
  /\ Outside
  /\ \/ Exists(hook) /\ ReplaceHook(NoFile)
     \/ Exists(legacy) /\ RemoveLegacy
  /\ ChangedBy("other") /\ UNCHANGED external

UserSetsHooksPath == Outside /\ external' = ~external /\ UNCHANGED <<scripts, fd, start>>

\* A command is killed.  What it has done stays.
Kill(p) ==
  /\ pc[p] \notin Resting
  /\ outside < MaxOutside /\ outside' = outside + 1
  /\ Go(p, "error")
  /\ FilesKept /\ UNCHANGED <<external, forced, call, started, calls>>

-----------------------------------------------------------------------------
(***************************************************************************)
(* Git runs the hook.                                                      *)
(***************************************************************************)
Depth == Len(stack)
Top == stack[Depth]
Below == SubSeq(stack, 1, Depth - 1)
CallOnly == UNCHANGED <<scripts, external, command, started, outside>>

Frame(s, env) == [script |-> s, env |-> env, at |-> "start", code |-> "zero"]

Git ==
  /\ stack = <<>> /\ ~external /\ hook.exec
  /\ calls < MaxCalls /\ calls' = calls + 1
  /\ stack' = <<Frame(hook.script, {})>>
  /\ outcome' = "none" /\ failed' = FALSE
  /\ UNCHANGED <<push, chosen>>
  /\ CallOnly

Ended == IF Depth = 1 THEN Undecided ELSE chosen

\* The innermost script ends.  A caller reads the code of a signal as 1.
Return(end) ==
  /\ failed' = (failed \/ end # "zero")
  /\ IF Depth = 1 THEN stack' = <<>> /\ outcome' = IF end = "zero" THEN "accept" ELSE "reject"
     ELSE /\ stack' = [Below EXCEPT ![Depth - 1].code = IF end = "zero" THEN "zero" ELSE "nonzero",
                                   ![Depth - 1].at = "checks"]
          /\ UNCHANGED outcome
  /\ push' = IF Depth = 1 THEN NoPush ELSE push

\* A shell that executes a file truncated to nothing ends with 0; another caller
\* may fail to execute it.
RunsTorn ==
  /\ stack # <<>> /\ Top.script = "torn"
  /\ \/ Return("zero")
     \/ Depth > 1 /\ Return("nonzero")
  /\ chosen' = Ended /\ UNCHANGED calls /\ CallOnly

PlainRuns ==
  /\ stack # <<>> /\ Top.script \in Foreign \ Migrating
  /\ \E end \in Ends : Return(end)
  /\ chosen' = Ended /\ UNCHANGED calls /\ CallOnly

\* The caller `who` runs the legacy hook, if there is one to run.
CallsLegacy(who) ==
  /\ stack' = IF legacy.exec
              THEN Append([stack EXCEPT ![Depth].at = "checks"], Frame(legacy.script, Top.env \cup {who}))
              ELSE [stack EXCEPT ![Depth].at = "checks"]
  /\ UNCHANGED <<push, chosen, outcome, failed, calls>>

\* Another hook manager runs the legacy hook, unless it is running it already,
\* and then its own checks.
MigratingStarts ==
  /\ stack # <<>> /\ Top.script \in Migrating /\ Top.at = "start"
  /\ IF Top.script \in Top.env THEN Return("nonzero") /\ chosen' = Ended /\ UNCHANGED calls
     ELSE CallsLegacy(Top.script)
  /\ CallOnly
MigratingChecks ==
  /\ stack # <<>> /\ Top.script \in Migrating /\ Top.at = "checks"
  /\ \E end \in Ends : Return(IF Top.code = "zero" THEN end ELSE "nonzero")
  /\ chosen' = Ended /\ UNCHANGED calls /\ CallOnly

\* Faulty: the variable is never looked at.
NeverInLegacyMode(frame) == FALSE

\* PREK_RUNNING_LEGACY is set.
InLegacyMode(frame) == "prek" \in frame.env

\* run_legacy, with --hook-dir of the generated script.
ShimStarts ==
  /\ stack # <<>> /\ Top.script = "shim" /\ Top.at = "start"
  /\ IF InLegacyMode(Top) THEN Return("nonzero") /\ chosen' = Ended /\ UNCHANGED calls
     ELSE CallsLegacy("prek")
  /\ CallOnly

\* Faulty: the legacy hook's code is dropped.
StatusOnly(status, code) == status

\* The end of hook_impl when cli::run ends with `status`.
Combined(status, code) == IF status # "zero" THEN status ELSE code

(***************************************************************************)
(* The configuration is missing, which may be allowed, or does not load,   *)
(* or git gives a wrong number of arguments, or the push has nothing to    *)
(* check; else the hooks are run.  No other script of the call reads what  *)
(* is pushed, so that is left open until here.                             *)
(***************************************************************************)
ShimChecks ==
  /\ stack # <<>> /\ Top.script = "shim" /\ Top.at = "checks"
  /\ \/ \E allowed \in BOOLEAN :
          Return(IF allowed THEN Top.code ELSE "nonzero") /\ chosen' = Ended
     \/ /\ \/ Pushes = {} /\ UNCHANGED <<push, chosen>>
           \/ push' \in Pushes /\ chosen' \in Options(push')
        /\ stack' = [stack EXCEPT ![Depth].at = "run"]
        /\ UNCHANGED <<outcome, failed>>
  /\ UNCHANGED calls /\ CallOnly

ShimRuns ==
  /\ stack # <<>> /\ Top.script = "shim" /\ Top.at = "run"
  /\ IF chosen = Skip THEN Return(Top.code)
     ELSE \E status \in {"zero", "nonzero"} : Return(Combined(status, Top.code))
  /\ chosen' = Ended
  /\ UNCHANGED calls /\ CallOnly

-----------------------------------------------------------------------------
Install(p) == Look(p) \/ Move(p) \/ Clear(p) \/ Open(p) \/ Write(p) \/ Chmod(p)
Uninstall(p) == Unlegacy(p) \/ Inspect(p) \/ Remove(p) \/ Restore(p)
Prek(p) == Begin(p) \/ Install(p) \/ Uninstall(p) \/ Kill(p)
Others == ForeignWrites \/ ForeignMigrates \/ UserDeletes \/ UserSetsHooksPath
Hook == \/ Git \/ RunsTorn \/ PlainRuns \/ MigratingStarts \/ MigratingChecks
        \/ ShimStarts \/ ShimChecks \/ ShimRuns

Next == (\E p \in Commands : Prek(p)) \/ Others \/ Hook

Spec == Init /\ [][Next]_vars

-----------------------------------------------------------------------------
(***************************************************************************)
(* Properties.                                                             *)
(***************************************************************************)

\* Every variable has its type.
TypeOK ==
  /\ hook \in FileStates /\ legacy \in FileStates /\ external \in BOOLEAN
  /\ pc \in [Commands -> Places] /\ forced \in [Commands -> BOOLEAN]
  /\ fd \in [Commands -> Handles] /\ start \in [Commands -> Starts]
  /\ stack \in Seq(Frames)
  /\ push \in Pushes \cup {NoPush}
  /\ outcome \in {"none", "accept", "reject"} /\ failed \in BOOLEAN
  /\ started \in Nat /\ outside \in Nat /\ calls \in Nat

Alone(p) == start[p].known

\* An install that nobody interfered with leaves prek's script, executable, as
\* the hook; it preserves the hook it found as the legacy hook, keeps the legacy
\* hook if it found none or its own script, and when forced leaves none.
InstallKeepsPromise ==
  \A p \in Commands : pc[p] = "installed" /\ Alone(p) =>
    /\ hook = Shim
    /\ legacy = IF forced[p] THEN NoFile
                ELSE IF Exists(start[p].hook) /\ ~Ours(start[p].hook) THEN start[p].hook
                ELSE start[p].legacy

\* An uninstall that nobody interfered with puts the legacy hook back, with its
\* mode, unless that is a script of prek; it leaves a hook that is not prek's alone.
UninstallKeepsPromise ==
  \A p \in Commands : Alone(p) =>
    LET kept == IF Ours(start[p].legacy) THEN NoFile ELSE start[p].legacy
    IN /\ pc[p] = "uninstalled" => Ours(start[p].hook) /\ hook = kept /\ legacy = NoFile
       /\ pc[p] = "skipped" => hook = start[p].hook /\ legacy = kept

\* What an install or an uninstall leaves is what it is for, if nobody interfered.
PromiseKept == InstallKeepsPromise /\ UninstallKeepsPromise

Lost(s) == s \in {hook.script, legacy.script} /\ s \notin {hook'.script, legacy'.script}

\* A command loses a script of the user only if it was forced, if others changed
\* the files meanwhile, or if it preserves another script, or one that a kill left
\* torn, in its place: installing twice never does.
ScriptsKept ==
  [][\A p \in Commands : pc'[p] # pc[p] =>
       \A s \in Foreign : Lost(s) =>
         \/ forced[p]
         \/ ~Alone(p)
         \/ legacy.script = s /\ legacy' = hook /\ hook.script \in Foreign \cup {"torn"}]_vars

Shims == {i \in DOMAIN stack : stack[i].script = "shim"}

\* Whatever installs what, prek's script is entered at most twice in one call of the
\* hook: it finds that it runs as its own legacy hook and ends.
NoEndlessShims == \A i, j, k \in Shims : i = j \/ j = k \/ i = k

\* Git goes on only if no script that was run for it has failed: neither prek nor a
\* legacy hook, by its code or by a signal, at any depth.
AcceptedMeansPassed == outcome = "accept" => ~failed

\* Before a push the hooks get every file whose contents the remote does not have, of
\* the first update that brings any; they are skipped only if none does.  Of an update
\* that brings a root they get those that the index has: all_files lists the index,
\* also when another branch is pushed.
PushCovered == chosen.kind # "undecided" => Covered(push, chosen)

=============================================================================
