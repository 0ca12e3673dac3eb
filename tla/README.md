# Verification of prek

prek runs the git hooks of a repository: it reads the hook configurations of a
workspace, prepares the tool environments in a store shared by all of a user's
prek processes, hides the unstaged changes of the worktree, runs the hooks and
restores the changes. This directory holds TLA+ models of the parts whose
correctness depends on order, concurrency and failure, the TLC runs that check
them on small instances, and TLAPS proofs of the properties that matter most.
Paths below are relative to `src/crates/prek/src/` unless they begin with `src/`.

To check a run: `tlc -config MCHookRun.cfg MCHookRun`. To check the proofs of a
module: `tlapm HookRunProofs.tla`. `PROJECT.json` names the runs, the lines of
code each definition stands for, the hazards and the disagreements found.

## 1. The system's parts

`prek run` discovers the projects of a workspace, selects hooks and files,
prepares the store, hides the unstaged changes, runs the hooks level by level
and restores the changes. `prek install` makes git call it; `prek update` writes
new revisions into the configurations; `prek cache gc` collects the store.

**Hook scheduler** (`cli/run/run.rs`, `cli/run/diff.rs`). State: the projects not
yet run, the projects of the current depth level, a semaphore per level, the
priority group each project is running, a diff baseline per project, and the
session's `failed` and `modified_files`. Operations: take the next level, take
the next priority group, run one hook, evaluate a finished group, finish a level,
finish the run. Hard: hooks of a group and projects of a level run concurrently
while diffs are taken; fail-fast is decided per group and applied per level; an
error drops the futures of everything else while the commands live on. Correct
when groups and levels are barriers, no permit is lost, a modification is found
and blamed on the group that made it, and success is never reported wrongly.

**Worktree stash and interrupt** (`cli/run/stash.rs`, `cleanup.rs`, `main.rs`).
State: worktree, index and intent-to-add entries, the patch file, the pending
changes behind a mutex, the list of cleanup closures behind another, the exit
lock and the interrupt flag. Operations: save, restore (with its second attempt
from the index), the drop, Ctrl-C, the two ways to exit. Hard: two threads,
every git command can fail halfway, hooks still edit files, and the process can
be killed anywhere. Correct when no change of the user is ever lost, only one
thread changes the repository at a time, a restore happens once, and a restore
that threw the hooks' fixes away never ends in exit status 0.

**Store and cache gc** (`store.rs`, `fs.rs`, `cli/cache_gc.rs`,
`cli/run/install.rs`, `cli/exec.rs`, and the parts of `cli/run/run.rs`,
`cli/list.rs`, `cli/install.rs` and `hook.rs` that use the store). State: the file
lock, the tracking file, repositories and environments with their markers, tool
versions, the scratch directory. Operations: track, clone (concurrently, with a
second round for repositories that need credentials), install or reuse an
environment, and the collector's mark and sweep. Hard: several processes, a lock
held in two separate sections of a run and not at all while hooks use what was
prepared, crashes between a rename and its marker, configurations edited at any
time. Correct when changes are made under the lock only, a tracked configuration
stays tracked, and what a running command prepared is not collected.

**Command batches** (`run.rs`). State: the next file, the batches handed out, how
many are combined, the exit code so far. Operations: size the command line, cut
the next batch, a command ends, combine the next output. Hard: boundaries of
sizes and numbers, an empty list that still means one command, outputs that end
in another order, arithmetic that wraps in release builds. Correct when every
file is passed exactly once, no failure is lost, and limits hold.

**Git shims** (`cli/install.rs`, `cli/hook_impl.rs`, `git.rs`). State: the script
of one type of hook, the `.legacy` file beside it, git's hooks path, the calls in
progress. Operations: install, forced install, uninstall, a call of the hook by
git with its legacy hook, the choice of what a push checks. Hard: no lock, kills
between any two file operations, other hook managers that rewrite the same
files, scripts that call each other, histories with merges and rebased branches.
Correct when a script of the user is lost only if asked, a call ends and never
hides a failure, and every file that a push brings is checked, as far as the
branch checked out has it.

**Workspace discovery and its cache** (`workspace.rs`, `cli/init.rs`). State: the
configuration files, one cache file per root, what each command found.
Operations: find the root, load and check the cache, the walk, the write, `prek
init`. Hard: the cache is read and written without a lock, truncated in place,
and lists projects but not what may have appeared. Correct when it never shows,
up to what the comment in `is_valid` excludes.

**Selection of hooks and files** (`cli/run/selector.rs`, `cli/run/filter.rs`,
`hooks/meta_hooks.rs`). Functions of a workspace and a request: selectors and
groups, stages, the files that are collected, which project owns a file. Hard:
projects and repositories are dropped before their hooks are known, several
decisions are made twice in different ways. Correct when the documented hooks
get the documented files, and the meta hooks and the reports of unused selectors
say what is so.

**Update** (`cli/update/`). State: the configurations, the remote repositories, what
was fetched, the plans. Hard: each repository is fetched once for all projects,
whose options differ; users edit and push meanwhile; files are written one after
the other. Correct when each entry gets what its own options allow and files are
written as planned or left alone.

**Built-in hooks** (`hooks/`). Functions from bytes to bytes or to complaints, run
one file after the other or in parallel, and checks that ask git. Correct when
each hook keeps what its documentation promises, its report is true (the
scheduler takes no diff for built-in hooks), and a second run finds nothing.

**Toolchains** (`languages/*/installer.rs` and the versions). State: a directory of
the store per language, the lock in it, an entry per version. Hard: a download, its
digest and a sequence of file operations, of which any may fail or be the last
before a kill, seen by the next run. Correct when what runs is what the
configuration asked for, unaltered, and only what is missing is fetched.

**Environments and language backends** (`cli/run/install.rs`, `hook.rs`,
`hook_entry.rs`, `languages/`). State: the environments, their markers and records,
the machine's tools. Hard: environments are shared between hooks and runs, judged
by what was recorded, while the machine changes and the collector passes. Correct
when nothing is built twice or in vain, and a hook runs its own program with a
toolchain it asked for.

How they interact. `prek run` loads the workspace, takes the store's lock,
tracks the configurations and clones; takes the lock again, installs; without
the lock it saves the unstaged changes (stash), schedules hooks (scheduler), each
of which runs its command on batches of files (batches), and restores. The
interrupt thread shares the stash and the cleanup list. Other processes share
the store. In the models these interfaces are: `HookWrites` and `result` of
`WorktreeStash` stand for the scheduler; `args.cleaned` of `HookRun` says whether
a stash or a commit left the worktree equal to the index; `FinishHook` and
`HookError` of `HookRun` stand for the end of `run_by_batch`, which `Batches`
refines into commands; `HooksEnd` of `Store` stands for the whole execution;
`Toolchains` runs under the store's lock, and an installation step of `Environments`
stands for one whole task of it; `Selection` and `RunInputs` give the hooks and
files that `HookRun` and `Batches` take as input; a call of prek's script in
`GitShim` stands for a run, and `PrePush` for the range it is asked for.


Components that are not modelled, or only in part, are listed with the reason
under `components` in `PROJECT.json`; section 6 says more.

## 2. Modules

| Module | What it is |
|---|---|
| `HookRun` | the scheduler: `run_hooks` and everything below it |
| `OrderedRun` | what a run promises about the order of hooks, without projects, permits, diffs or fail-fast |
| `HookRunInv`, `HookRunProofs` | the inductive invariant of `HookRun`; proofs of it, and of `Batches` |
| `WorktreeStash`, `WorktreeStashProofs` | save, restore, interrupt and exit on two threads; proofs |
| `Store`, `StoreProofs` | processes on one store, with the collector; proofs |
| `Batches` | the commands of one hook; proofs in `HookRunProofs` |
| `PrePush`, `GitShim`, `GitShimProofs` | the range a push checks; one type of git hook, its legacy script, installs and calls; proofs of both |
| `Selection`, `RunInputs`, `Workspace`, `WorkspaceProofs` | selectors, groups and stages; files and their owners; discovery with its cache; proofs of the three |
| `Revisions`, `Update`, `UpdateProofs` | which revision an entry gets; the command; proofs of both |
| `TextFixers`, `TextChecks`, `RepositoryChecks`, `BuiltinHooks` | the built-in hooks as functions, and runs of them |
| `Toolchains`, `ToolchainsProofs` | looking for and installing a language's toolchain, for eleven installers; proofs |
| `Versions`, `HookSpecs`, `ToolBackends`, `SystemBackends`, `Environments`, `EnvironmentsProofs` | version requests; the hooks a configuration makes; what each language's backend does; environments over several runs; proofs of all |
| `MC...` | instances for TLC |

Each module of a row extends those before it, and `BuiltinHooks` and `Environments`
so reach all of theirs; `OrderedRun` is instantiated by `HookRun`. Definitions with a
comment that begins with "Faulty:" are plausible mistakes. No behaviour uses them;
they show that the properties can fail.

### HookRun

| Code | Model |
|---|---|
| `ProjectDepthGroups`, `Semaphore::new` per level | `StartLevel`, `remaining`, `level`, `permits` |
| `PriorityGroups::next`, baseline capture in `run_project` | `StartGroup(p)`, `group`, `baseline` |
| `semaphore.acquire` and `run_hook` | `StartHook`, `EditFiles`, `FinishHook`, `ReportWithoutRunning` |
| an `Err` of a hook or of git, and the futures it drops | `HookError`, `DiffError`, `OrphanExits` |
| `DiffTracker::changed_after_group`, `should_stop_project` | `CompleteGroup`, `NextBaseline`, `HookStops` |
| the end of `run_project_level` and of `run_hooks` | `FinishLevel`, `Finish` |

A project is also the area of files directly under it, and `Nested[p]` the areas a
diff of p's path sees. The content of an area is a small value; `Indexed` is the
one equal to the index. `Writes[h]` bounds what the command of h may edit: any
project, except where a property needs hooks to keep to their own. `EditFiles`
can happen at any moment while a command lives, also after its future was
dropped, because children are spawned without `kill_on_drop`.

### WorktreeStash

One action per git command or lock operation. `pc[t]` is the place of thread t:
`save`, `enter` (waiting for the state's mutex), `rm`, `patch`, `checkout`,
`leave` of `prepare`; `take`, `apply`, `reset`, `recheckout`, `reapply`, `mark` of
`restore_once`; `exit-lock`, `drain`, `exit` of `exit_interrupted`. Contents are
followed hunk by hunk, as `staged`, `user` or `hook`; a patch applies when each of
its hunks finds the staged text. Failing commands are disjuncts of their action,
with the partial effects git can leave (a checkout stops between hunks). `Kill` is
SIGKILL and also a panic, since release builds set `panic = "abort"` and skip the
destructor. It leaves the files as the system has them: a power cut is not meant, as
the patch is not synced to the disk (`cli/run/stash.rs:101`).

### Store

One action per step between which another process can be seen to act: loading
the configuration, taking the lock, truncating the tracking file, writing it,
cloning into scratch, the rename into place, the marker, building an environment,
its marker, and the collector's steps in their order. `plan[p]` is the
configuration as p loaded it, which a later edit does not change. `repo[r]` tells a
complete directory without a marker (`partial`), a marked one, and one whose
removal was interrupted after the manifest went (`gutted`). `Fail` is any error
return, `Kill` a process that dies; both release the lock, as the operating
system does. A remote repository at a revision and its environment requirement
are one value; an environment directory has a random name.

### Batches

`input` is what `run_by_batch` was called with: the prefix sums of the sizes of the
files' arguments, the limits, and the sizes of environment and fixed arguments.
`Next1` is `Partitions::next`, `Split` the sizing, `Fold` the `try_fold` that takes
outputs in order; `Filled` says that `buffered` fills its buffer before it looks at
outputs. Subtraction wraps at `Word`, as in release builds. Its names differ from
those of `HookRun` (`BatchesInit`, `BatchesSpec`), so that one module can extend both.

### GitShim and PrePush

`hook` and `legacy` are the two files of one type of hook: a script of the user, of
another manager, prek's own, or one that prek has created and not written yet.
A command of prek (`pc`, `forced`) takes one file operation per step and keeps
the file it opened (`fd`), which another may have renamed since. `Others` are users
and managers that write the same two files or set git's hooks path; `Kill` ends a
command anywhere. `stack` is the chain of scripts that call each other inside one call by
git: a script of prek marks its callees with `PREK_RUNNING_LEGACY`, and `outcome`
and `failed` are what each said. `PrePush` defines the ancestors of a commit as a
least fixed point, and from them the range of a push and the files it brings. A push
also has the `index`, which is of the branch checked out: when an update has no base
`all_files` lists the index, whatever commit is pushed.

### Selection, RunInputs and Workspace

`Selection` is pure: what a list of selectors, groups and a stage choose of the
hooks of projects and repositories, before and after repositories are cloned, and
which selectors are reported as unused. A path selector is the set of directories
below it, a pattern the set of files it matches. `RunInputs` is pure as well: the
files a command collects for each kind of input, the project that owns a file
(`from`, a recursive function up its path as `visit_for_project`, with orphan
projects), what each hook gets, which hooks need an environment and which run.
`Workspace` has the steps of a command: `FindRoot`, `Load` of the cache, `Restore`
of what it lists, `Walk`, `Truncate` and `Write` of the cache, `Select`; and those
of others: `Kill`, `UserEdits`, `UserIgnores`, `TimePasses`, `InitProject`.

### Update and Revisions

`Revisions` says what one repository's selection allows (tags, versions, filters,
cooldown, freeze, stale comments) for a history of commits. `Update` has the
configurations `config`, the `remote` repositories and the time `now`; a command
reads (`read`), groups the entries by `target`, fetches `Jobs` repositories at
once, evaluates each target on what was fetched, plans and writes one
configuration after the other (`writing`, `buffer`). `Outside` is a push, an edit
or the clock, `Kill` the end of the process at any step.

### BuiltinHooks

Each hook is a function: the fixers in `TextFixers` from a sequence of bytes to a
sequence of bytes, by the blocks, lanes and fast paths the code has; the checks of
text in `TextChecks` and those that ask git in `RepositoryChecks`. `BuiltinHooks`
runs a list of them: files named in the arguments one after the other, the
selected ones in any order, `output` merged from their results, and the run is
repeated as a user would. The parsers of TOML, YAML, XML and JSON are external.

### Toolchains

One task per environment that needs a toolchain of the language. `Search` looks in
one source of the policy, `Decide` ends the search, `Acquire` waits for the lock,
`Resolve` and `Fetch` choose and download a version, `Put` is one file operation of
putting it in place (the list of them depends on the installer), `Delegate` an
installer that is another program. `Stumble` is any failure, also of a search where
that is the installation's (`Brittle`); in a search that asks what is installed for its
version, `Overlook` passes over one that runs and could not be asked, and `blind`
remembers the task. `Kill` is the end of the process; a new one finds what is on
disk. `env` never changes: the language, the levels of the configuration, the checksum
policy, what is published and what is on the PATH. A request is the set of versions it
accepts.

### Environments

`HookSpecs` merges a hook's manifest with the entries of the configuration and
reads the requests of its own files (PEP 723, `go.mod`, `package.json` ...);
`Versions` are requests; the backends say, per language, what an installation puts
into an environment and records, when `check_health` takes it, and which file is
executed with which PATH. `Environments` has the store's directories and one
process at a time: `Begin` finds the environments there are and partitions the hooks
that have none; `parts` has an installation for each first hook of a partition,
which shares an environment with the hook whose `Turn` it is, or makes, persists
and marks one; `Fail` and `Die`; then `Run`, and between runs `Alter` (the machine)
and `Collect`. The hooks never change: they are built from the project at the start.

## 3. The runs

| Run | Checks | Result |
|---|---|---|
| `schedule` | `HookRun` on a root with two sibling projects, two permits, hooks of all kinds: `SuccessMeansUnchanged`, `BlamedForOwnEdits`, `FailFastHonoured`, implements `OrderedRun`, `Termination` | holds |
| `errant` | a chain of three projects, one command edits outside its project: `BlamedForOwnEdits` | violated |
| `stash` | `WorktreeStash`: `Recoverable`, `RestoredAtExit`, `RevertNeverSucceeds`, `ProcessEnds` | holds |
| `stash_interrupt` | an interrupted process restores the changes | violated |
| `store` | `Store`, a run, an `install --prepare-hooks`, a collector: `TrackingKept`, `UsedIsPresent`, `ProcessesEnd` | holds |
| `batches` | `Batches` on 52 calls: `BatchedAsOne`, `FitsTheLimit` | holds |
| `git_shim` | `GitShim` and `PrePush`: `PromiseKept`, `NoEndlessShims`, `AcceptedMeansPassed`, `PushCovered` | holds |
| `workspace` | `Workspace`, `Selection`, `RunInputs`: `CacheIsTransparent`, `SelectionIsExact`, `FilesByOwnership` | holds |
| `update` | `Update` and `Revisions`: `OwnSelection`, `NeverDowngrades`, `WritesAsPlanned`, `SuccessMeansCurrent` | holds |
| `builtin_hooks` | the 32 built-in hooks: `PromisesKept`, `ReportIsTrue`, `SettlesAtOnce` | holds |
| `toolchains` | `Toolchains`, eleven installers: `GivenToolchainRuns`, `AlteredOnlyIfAllowed`, `FetchesOnlyWhatIsMissing`, `ConfigurationHonoured`, `InstalledStays`, `TasksEnd` | holds |
| `environments` | `Environments`, 25 languages: `Served`, `Settled`, `HonoursRequest`, `BuiltOnce`, `RunsItsOwn`, `InstallsEnd` | holds |

The violated runs are the disagreements between the code and its comments:

- `errant`: the next level starts from an empty baseline unless `modified_files` is
  set, and that flag only sees changes under the project's own path. A hook that
  edits a file outside its project makes a hook of a parent project fail.
- `stash_interrupt`: `exit_interrupted` drains the cleanup list once; a stash
  registered afterwards, while the process exits, is not restored. The patch file
  remains (`Recoverable` holds).

Two more are of rust hooks that share an environment. They are kept beside the runs, as
configurations of `MCEnvironments` that TLC finds violated:

- `EnvironmentsChannel.cfg` (`RustChannelHonoured`): `install` records the channel of the
  toolchain it found, and `stable` when it has none (`languages/rust/rust.rs:481`). An
  environment made with an exact release for a hook that asks for nothing then satisfies
  a hook of the stable channel, which `RustRequest::matches` would refuse (its test,
  `languages/rust/version.rs:293`).
- `EnvironmentsMembers.cfg` (`RustEntryInstalled`): `install` builds only the package of
  the workspace that has the program of the hook's entry, and the entry is not compared
  when an environment is shared. The program of a second hook of the repository was
  never built, where `src/docs/internals.md:149` says that the entry of a remote hook
  identifies one built from the hook's package.

Smaller disagreements with the docs, which the models follow the code in:
`fail_fast` "stops the run immediately" (`src/docs/reference/configuration.md:1523`) takes
effect after the priority group and, for sibling projects, after the level;
`--no-fail-fast` does not override a hook's own `fail_fast`; scratch data is created
before the store's lock is taken and removed under it, so that a command that
waited behind a collector finds it gone; a collector that recognises no version
of a tool removes them all, where a comment says that they are kept; a push whose
update has no base "checks the full tracked tree" (a comment at
`cli/hook_impl.rs:348`), which is that of the branch checked out: the files of another
branch that is pushed are missed, where the index does not have them.

### What the properties say

`HookRun`: `SuccessMeansUnchanged` (no edit escapes the reports and diffs together),
`BlamedForOwnEdits`, `FailFastHonoured` (fail-fast as the code means it),
`ImplementsOrderedRun`, `Termination`.

`WorktreeStash`: `Recoverable` (each change is in the worktree or the patch file at
every moment), `RestoredAtExit`, `RevertNeverSucceeds`, `ProcessEnds` (three mutexes,
two threads, no deadlock).

`Store`: `TrackingKept`, `UsedIsPresent`, `ProcessesEnd`. `UsedIsPresent` is
conditional on the configuration being what the command loaded and on tracking
not having been lost: after an edit a collector marks what the file says now and
may remove what a running command still uses. Environments of languages whose
`check_health` checks nothing (`Unchecked`) are promised without their toolchain.

`Batches`: `BatchedAsOne` (`AllFilesOnce` and `FailureShows`), `FitsTheLimit`. The last assumes that the
environment alone is below the limit; otherwise `arg_max -= env_size` wraps and
everything fits. It counts what the code counts, the entry before it is
resolved; the difference is left to the code's headroom.

`GitShim`: `PromiseKept` (an install that nobody interfered with leaves prek's script
and what was there before it as the legacy script, an uninstall gives that back,
and a script of the user goes only by a forced overwrite), `NoEndlessShims`,
`AcceptedMeansPassed` (when git's call passes, every script it ran has passed),
`PushCovered` (the hooks get every file whose content the remote lacks, of the
first update of a push that brings any; of an update that brings a root only those
that the index has, see above).

`Workspace`: `CacheIsTransparent` (an undisturbed command finds what a walk would
find, up to what the comment in `is_valid` excludes, and sees what `prek init`
made), `SelectionIsExact`, `FilesByOwnership`.

`Update`: `OwnSelection`, `NeverDowngrades`, `WritesAsPlanned`, and
`SuccessMeansCurrent` (selection is idempotent). A project edited by its user
during the update is exempt from those about revisions: its entries are matched by
their position, and only their number is compared (`cli/update/config.rs:133`), so that a
revision may go to another repository's entry.

`BuiltinHooks`: `PromisesKept` (per hook, what its documentation says of the text it
leaves, and that it changes nothing else), `ReportIsTrue` (modified means changed),
`SettlesAtOnce` (a second run finds nothing, but for the exceptions below).

`Toolchains`: `GivenToolchainRuns`, `AlteredOnlyIfAllowed`, `FetchesOnlyWhatIsMissing`,
`ConfigurationHonoured` (no level's ban is lost in a merge), `InstalledStays` (no task
removes or replaces what runs), `TasksEnd`. What runs but cannot be asked for its
version is taken for broken: mise and uv then put another in its place, also while a
hook uses it, so those tasks (`blind`) are exempt from three of them.

`Environments`: `Served` (no hook is run in an environment that does not satisfy it or
is not healthy), `Settled` (after a run that ended the next builds nothing, unless the
machine is altered or the collector takes what the configuration does not ask for),
`BuiltOnce` (no run builds what one of its earlier environments would have served),
`HonoursRequest` (whichever hook an environment was made for, a hook runs with a
toolchain that its own request accepts, also after the machine has changed and the
collector has passed; left out are a toolchain of the machine, once that has changed,
where the backend does not look at it again, `NotRechecked`, and rust toolchains
`TakenForStable`), `RunsItsOwn` (a hook whose entry names a program of its package or
dependencies runs that one, also in an environment made for another hook, unless their
programs are in several packages of a rust workspace, `OnePackage`), `InstallsEnd`.

Barriers, permits, exclusion of the lock and the mutexes, and the bound on parallel
commands are proved (section 4) and not run again.

### Bounds, and why they are enough

- `schedule`: three projects give siblings and a parent; two permits for three waiting
  hooks give contention. Two contents per area are enough for a baseline that is
  stale; contents are only compared, so only one area begins with either. Seven
  hooks cover each kind, a group of two, a second group and a later level.
- `stash`: two hunks, so that a patch can apply in one place and conflict in
  another and a checkout can stop between them; one intent-to-add file. The
  threads are the two the process has.
- `store`: a run, a preparing install of another configuration that was tracked
  before, a collector; one repository, two environments, one tool version. `MaxEdits`
  is 1: an edit may change the file and its references in any way. The proofs cover
  every kind and number of commands.
- `batches`: up to five files cross the minimum of four files per batch; sizes are
  chosen so that a batch ends by number, by size, exactly at the limit, and not
  at all; `Word` is 32 and the limit 12, so that the wrap can happen.
- `git_shim`: two commands at once, three in all, since an install, another and an
  uninstall are the longest sequence a promise is about; one act of others, one
  call of the hook. Three scripts: plain, of a manager that runs legacy scripts, and
  one that is neither text nor executable. Ten pushes over histories with a merge,
  a rebase, a deletion and a first branch, checked out or not.
- `workspace`: the root, a directory and one below it, so that a project can be nested
  in another and an ignored or broken directory can lie between; two commands, two
  starts, one edit. The last command meets every configuration and request; others
  only those that differ in what is discovered (`Bound`).
- `update`: two projects that share a repository, one with a second; one fetch at a
  time, one run, edit and tick, since a second run starts from nothing but the
  files, which are arbitrary already; configurations of two entries, so that they can
  be swapped.
- `builtin_hooks`: all texts of up to four to seven of the bytes that a hook tells apart,
  with blocks of two bytes, so that endings and keys cross boundaries; one error,
  three runs.
- `toolchains`: one task that accepts both versions and one that needs the newer; two
  faults, so that one install can fail and the repair of it as well, or one fail and
  the next not see what another has installed.
- `environments`: two runs and a change of the machine between them, two installations
  at a time and up to three that wait; each language has a remote and a local hook,
  scenarios of their own share environments and toolchains; 250 combinations of
  requests and preferences; rust hooks that share an environment with and without a
  channel, and with programs in one and in two packages of a workspace.

Deadlock is checked in `schedule`, `stash`, `store`, `batches` and `toolchains`, where a
finished run, process or call has an explicit stuttering action. In the others the
users may stop asking, which is no error (`CHECK_DEADLOCK FALSE`).

### Fairness

`HookRun`: the runtime polls every ready future and a hook's command ends (a hook
that hangs hangs prek too: there is no timeout). Hooks waiting for a permit need
no strong fairness, since each of the finitely many hooks takes a permit at most
once.
`WorktreeStash`: both threads are scheduled and git commands and `run_hooks` end;
nothing makes an interrupt, a kill or a hook's write happen. `Store`: each process
is scheduled, clones, installations and hooks end; failing and dying are steps
without a fairness of their own. `Toolchains`: each task is polled and what it waits
for ends. `Environments`: partitions are polled and installations end, with a failure
where none can succeed. The other modules state no liveness: their commands are
finite sequences of steps without waiting for one another.

## 4. What is proved

`tlapm` checks these for every value of the constants that satisfies the
assumptions of the modules. Each safety property that a passing run checks is among
them, but for those of `BuiltinHooks`; where no run is named in section 3 for a
property, the theorem alone establishes it.

| Theorem | Property | Argument |
|---|---|---|
| `HookRunProofs!Typing` | `TypeOK` | inductive as it stands |
| `HookRunProofs!Barriers` | `GroupsAreBarriers` | `Structure`: unfinished hooks are in the group of a project of the running level (`Shape`), levels go outward and leave final results (`Order`), a project stops only because of a failure that reaches `failed` (`Failures`) |
| `HookRunProofs!Captured` | `BaselineCaptured` | `Captures`, part of `Structure`: a group with an external hook has a known baseline |
| `HookRunProofs!SuccessIsComplete` | `SuccessMeansAllRan` | `Order` and `Failures` |
| `HookRunProofs!SuccessIsPure` | `SuccessMeansUnchanged` | `Tracking`: while nothing is flagged, each changed area has a suspect in a running group, and each known baseline is the diff of the untouched worktree. It assumes `Confined`: hooks edit their own project only |
| `HookRunProofs!BlameIsDeserved` | `BlamedForOwnEdits` | `Attribution`: what differs from a group's baseline has been edited by that group. It assumes `Confined`; without it the statement is false (`errant`) |
| `HookRunProofs!PermitsAdd` | `PermitsAccounted` | free permits and running hooks of a level add up; cardinalities of finite sets |
| `HookRunProofs!FailureIsExplained` | `FailureHasCulprit` | `Culprits`: a failure is a hook's, a modification's or an error's |
| `HookRunProofs!StopsWhenAsked` | `FailFastHonoured` | what stops a project or a level is recorded before the next group or level can start |
| `HookRunProofs!RunsInOrder` | `ImplementsOrderedRun` | the mapping is `PhaseOf` and `VerdictOf`; each action of `HookRun` is a step of `OrderedRun` or leaves the mapping alone |
| `WorktreeStashProofs!StashTyping` | `TypeOK` | inductive |
| `WorktreeStashProofs!Exclusive` | `MutationsExclusive` | `LockInv`: the places between git commands are those of the holder of the state's mutex |
| `WorktreeStashProofs!Once` | `RestoredOnce` | `OnceInv`: a restore takes the state, and only a state not yet taken allows an attempt |
| `WorktreeStashProofs!NothingLost` | `Recoverable` | `SafeInv`: until the patch file holds all of the user's hunks, no checkout, hook or restore has touched them (`Untouched`) |
| `WorktreeStashProofs!ChangesReturn` | `RestoredAtExit` | `FlowInv`: who may still restore is known from the mutexes, the list and the state; `ReportInv`: what was reported is what happened |
| `WorktreeStashProofs!NoSuccessAfterRevert` | `RevertNeverSucceeds` | `FlowInv` and `RevertInv`: the main thread learns of a revert before it returns |
| `WorktreeStashProofs!NothingKept` | `RevertIsComplete` | `ContentInv`: the text of each hunk at each place of a restore |
| `StoreProofs!StoreTyping` | `TypeOK` | inductive |
| `StoreProofs!OneWriter` | `StoreExclusive` | inductive with `TypeOK` |
| `StoreProofs!TrackingStays` | `TrackingKept` | `TrackingInv`: what a command promises is a file that exists, and a writer writes at least what was known |
| `StoreProofs!PreparedStays` | `UsedIsPresent` | `UsedInv`, eight parts: a command that is not stale has the configuration that a collector would read, which is registered and tracked when it can be collected, so that the collector marks what the command uses; who is building has the lock |
| `HookRunProofs!BatchesTyping` | `BatchesTyped` | inductive with the rest of `BatchesInv` |
| `HookRunProofs!EveryFileOnce` | `AllFilesOnce` | `Covered`: the next file is the one after the last batch |
| `HookRunProofs!NoFailureLost`, `BoundedCommands` | `FailureShows`, `AtMostConcurrent` | `Collected`: the combined batches are done, their codes are in the exit code, and no more than `concurrency` are not combined |
| `HookRunProofs!ResultsAreWhole` | `BatchedAsOne` | the two together |
| `HookRunProofs!CommandLinesFit` | `FitsTheLimit` | with the lemma that subtracting words without a borrow is subtracting numbers |
| `GitShimProofs!ShimTyping` | `TypeOK` | inductive |
| `GitShimProofs!PromisesHold` | `PromiseKept` | `WorkInv`: what a command has done so far of its promise, as long as it is `Alone`; a step of another command is one of a bystander, which has ended or disturbs |
| `GitShimProofs!ScriptsStay` | `ScriptsKept` | `FilesOK` and `WorkInv` |
| `GitShimProofs!ShimsEnd` | `NoEndlessShims` | `StackInv`: what a shim calls carries its mark, through any scripts in between |
| `GitShimProofs!FailuresReachGit` | `AcceptedMeansPassed` | `FailureInv`: a failure is on the stack, in the status above it or in the outcome |
| `GitShimProofs!PushesAreCovered` | `PushCovered` | ancestors are a least fixed point; a file that the range leaves out but the remote lacks leads to a commit without predecessor, by well-founded induction over the history; of an update that brings a root the statement is about the index |
| `WorkspaceProofs!WorkspaceTyping` | `TypeOK` | inductive |
| `WorkspaceProofs!CacheNeverShows` | `CacheIsTransparent` | `WorkspaceInv`, below |
| `WorkspaceProofs!SelectionsAgree` | `SelectionIsExact` | the names known before cloning are among those after it; a path match is necessary for every hook selection, so that dropping a project early loses no hook; a case for each kind of unused selector |
| `WorkspaceProofs!OwnersAgree` | `FilesByOwnership` | the walk up a path (`from`) exists as a recursive function and takes the file to the documented owners, by a smallest counterexample; installation and execution see inputs alike, and so do the meta hooks |
| `UpdateProofs!UpdateTyping` | `TypeOK` | `Typed` |
| `UpdateProofs!PlansAreWritten` | `WritesAsPlanned` | `Written`: a configuration is as read, as planned, or (of a killed process) empty |
| `UpdateProofs!SelectionsAreOwn` | `OwnSelection` | `Judged`: each answer is that of its own target, on what was fetched of its repository; `Recording`: the plan is what the answers say |
| `UpdateProofs!NothingIsDowngraded` | `NeverDowngrades` | the same, with the order of the tags |
| `UpdateProofs!SuccessIsCurrent` | `SuccessMeansCurrent` | the same, with `SameAgain`: an entry that a selection wrote is a selection of the same target again |
| `ToolchainsProofs!InstallTyping` | `TypeOK` | `InstallInv`: types, plans that belong to places, one holder of the lock |
| `ToolchainsProofs!RunningStays` | `InstalledStays` | `Looked`: who puts something in place has the lock and saw that nothing usable was there, or is `blind` |
| `ToolchainsProofs!NothingIsFetchedTwice` | `FetchesOnlyWhatIsMissing` | `Looked` and `Placing` |
| `ToolchainsProofs!OnlyWhatIsAllowed` | `AlteredOnlyIfAllowed` | `AlteredInv`: what a lenient policy has not let in is as published |
| `ToolchainsProofs!GivenRuns` | `GivenToolchainRuns` | `GivenInv`: what the search trusts by its name is complete, unless the language builds it in place; only a `blind` task of mise or uv replaces what was given |
| `ToolchainsProofs!LevelsAreHonoured` | `ConfigurationHonoured` | `FromPolicy`, and what the policy says of each level (`PolicySays`) |
| `EnvironmentsProofs!EnvironmentsTyping` | `TypeOK` | inductive with `EnvironmentsInv`, below |
| `EnvironmentsProofs!HooksAreServed` | `Served` | `UsedServe`, and `InstallServes` for each of the 21 languages that install |
| `EnvironmentsProofs!NothingIsBuiltTwice` | `BuiltOnce` | `Apart` and `MadeFor`: an environment satisfies hooks of one partition only, whose steps are in order |
| `EnvironmentsProofs!RunsSettle` | `Settled` | `Served` at the end of a run, and `HealthKept`: what the collector leaves keeps its toolchain |
| `EnvironmentsProofs!RequestsAreHonoured` | `HonoursRequest` | `RunsInv`, below: `Toolchained`, and the first program of a name on the PATH of each language |
| `EnvironmentsProofs!HooksRunTheirOwn` | `RunsItsOwn` | `RunsInv`: `EquippedFor`, and the same lemmas about paths |

**The cache of a workspace** is the invariant that is furthest from its property. The
property speaks of a command at its end; caches are written by any command at
any time, with a walk that is old by then. `WorkspaceInv` says of every cache and
of every copy that some command is about to read or write that it is `Sound`: it
`Covers` the free directories (no ignore file and no broken project outside the
list lies above them) that have a configuration, and lists no other, unless it is
`outgrown`, which is what the comment in `is_valid` excludes; and it `KnowsMade`,
that is, it lists what `prek init` made or will not be used. A disturbed command
may write any cache, but then the change that disturbed it has made that copy
outgrown or unusable. Beside that, `StepInv` says what an undisturbed command
knows at each place. TLC checked the invariant on instances of two commands with
two changes and of one with three before it was proved. It also showed a
mistake: a version of the property promised that a command sees what `prek init`
made even after the user ignored and un-ignored a directory; the history `made`
is now reset by such changes, as the cache is not obliged to notice them.

**Selection of an update.** The first version of `OwnSelection` said that a revision
that changes is one whose tag the project's cooldown allows. The proof failed where
the cooldown skips a downgrade and the entry is pinned as well: the commit stays,
which is newer than the cooldown allows, but its revision is written anew
(`cli/update/source.rs:317`). The property now says what the code promises there,
and the run has a request with both options.

**Environments.** The proof has two halves. The lemmas about the backends say, language by
language, that whatever `Install` gives satisfies the requirement of its hook and is
healthy once the machine has the toolchains it brought (`InstallServes`), and that
health lasts as long as the recorded toolchain does (`HealthKept`). They hold for hooks
that can be built (`HookStated`): a hook whose language takes no version request has
none, which `SpecValid` sees to through manifest, entry and defaults
(`BuiltHooksStated`). `EnvironmentsInv` then says what an installation has done so far:
it is the only one for its partition (`Apart`), its directory is a number larger than
all it has made (`Progress`), and what this run built before would not have served the
hook it is at (`MadeFor`). Two properties had to be corrected. `BuiltOnce` compared the
directories of two hooks without regard to which came first: a hook that asks for any
version comes after one that asks for 3.13 and shares its environment; in the other
order the environment of the first may not serve the second, and building two is right.
`Settled` promised that the collector leaves the environment of every configured hook. It
compares what the configuration states, and a script whose own metadata asks for another
version than the configuration has an environment that the configuration does not
describe; the property now says which hooks it is about (`Configured`).

A second invariant, `RunsInv`, says what the environments hold and thereby what a hook
finds when it is run. `Served` alone does not say it: the backends compare what an
environment has *recorded*, while a hook runs what stands on the PATH. `Toolchained` ties
the two: at the place that is recorded stands, until the machine changes, the recorded
version, with the label (channel, variant) that is recorded. `Furnished` says that nothing
else in an environment is a toolchain, and `EquippedFor` that it has the programs of the
packages of *every* hook that may come to share it, and no others of their names. Beside
it are `HooksAgree` (hooks of one repository see one tree) and `WorldStays` (what a change
of the machine leaves as it is). Lemmas per language then say what its PATH finds
(`FindIn`, `FindFront`, `PathsAre`, `FoundToolchain`), and `LabelSatisfies` that a
toolchain of the recorded version and label is one the request accepts. TLC checked the
parts of `RunsInv` on the instance of the run `environments`.

Both properties had to be corrected for this. The proof of `HonoursRequest` failed for
rust, whose recorded channel is not always the toolchain's, and that of `RunsItsOwn` for
rust workspaces, whose environments depend on the first hook's entry; both are
disagreements of the code with what is said of it, which section 3 describes, and the
properties name what they leave out (`TakenForStable`, `OnePackage`). In the other direction, `HonoursRequest` left out every
toolchain of the languages in `NotRechecked` after a change of the machine, and the proof
needs that only for those of the machine itself.

Assumed are the named `ASSUME`s of the modules and nothing else: types of the
configuration; for `HookRun` that projects of one depth do not contain each other;
for `Selection` that finitely many directories are above each, with those above
them among them; for `PrePush` that histories are finite and parents come before
their children; for `Revisions` that finitely many tags are fetched and that no two
of them rank alike; for `Toolchains` that sets of versions have a newest, and what
earlier processes have left of them (`StoreAssumption`: nothing altered that the
checksum policy bans, and where a search trusts a name, something that runs); for
`Environments` (`ScenariosAssumption`) what a project can state (dependencies are lists,
versions are of the forms of `Versions`, entries of one repository have one tree), that on
a machine every rust release is at least 1.0, at one place stands one tool and the other
programs of the PATH are no toolchains, and that a change of the machine leaves the
registries and, but for rust, the label of a version as they were. TLC evaluates each in the run of
its module.

## 5. What is only model-checked

Liveness (`Termination`, `ProcessEnds`, `ProcessesEnd`, `TasksEnd`, `InstallsEnd`) is
beyond the prover, as is `ENABLED`, on which it rests. The properties of
`BuiltinHooks` are about functions over bytes that are folds and recursive
operators: what they do for every text needs induction over data, which the
installed provers cannot use. So `PromisesKept` and `SettlesAtOnce` stay with TLC, and
`ReportIsTrue` too: a file that is named and selected is fixed twice, and the report is
true of it only because no fixer takes back what it has done itself, for any text.

## 6. What is not modelled

Parts that are left out, or left to their users' assumptions:

- *Scheduler, stash, batches*: reports and their order; what git prints; timings; how a
  single command is spawned and read; an error of the diff that is shown after a
  failure, which changes the code of a run that has failed anyway; files other than
  tracked ones and intent-to-add entries, which `stash.rs` leaves alone.
- *Store*: `cache clean`, which removes everything without a lock, and `try-repo`, which
  has a store of its own.
- *Discovery and selection*: `--config`, which bypasses discovery; the identity hook,
  which prints its arguments; how selectors are parsed. The models follow the code
  where it may surprise: a merge conflict's selection lists deleted paths, which
  have no tags; an explicit empty `stages` runs in groups only;
  `check-useless-excludes` reads the configuration's options only; meta hooks count
  the files of nested projects.
- *Update*: what is printed; an old git without `--no-lazy-fetch`; a failure of
  `collect_frozen_mismatches`, which is swallowed and leaves a stale comment as it is
  (`cli/update/source.rs:282`). `src/docs/reference/configuration.md:57` promises that a
  cooldown never takes a `rev` back that is newer than the tags it allows. The code keeps
  it only if it has a tag: a newer commit without one is taken back, so
  `NeverDowngrades` speaks of tags. `#frozen:` is read, but only `# frozen:` is removed.
- *Built-in hooks*: parsers; renames, pushes, links and submodules, and
  `core.fileMode=false`, are exempt where the hook's documentation exempts them; a
  conflict marker has one character instead of seven, the marker of an egg one byte;
  invalid UTF-8 is a read error. A continuation at the end of a requirements file
  changes its meaning when sorted; of several byte order marks each run removes one; the usual hooks in a
  wrong order need one run more, which `SettlesAtOnce` grants them.
- *Toolchains*: rustup, uv, pip and the dotnet script are external and deliver what was
  published; other processes, which the store's lock keeps away. What is on the PATH but
  cannot be asked for its version is as good as not there, so `system` does not have it;
  the look of uv and rustup before the lock only decides whether to wait. Bun and Deno
  make the directory that later runs trust before the executable is in it, so
  `GivenToolchainRuns` exempts them after a fault.
- *Environments*: container options and mounts; package registries, which deliver;
  `hook.env`, which is not part of an environment's key. Go, rust and dotnet never look
  again at the version of a toolchain of the machine (`NotRechecked`): after a change of
  the machine `HonoursRequest` says nothing of it. Local hooks of two projects may share
  an environment that was built from the sources of one. PEP 723 environments are
  collected (`src/docs/reference/cli.md:695`: the collector removes unused ones). The pythons
  in the store work: pygrep takes any directory it finds there without a check
  (`languages/pygrep/pygrep.rs:73`). A dotnet of the machine is on the hook's PATH by the
  place it was found at, where the code takes the directory behind its links
  (`languages/dotnet/dotnet.rs:29`).

Process and terminal handling, git commands, output, self-update, the command
line, file identification, small commands and wrappers are components without a
module; parsing of the configuration is left out, its merging and requests are in
`HookSpecs` and `Versions`. Everything is listed in `PROJECT.json`.

## 7. Plan

Every part of section 1 has its model and run, and the safety properties of all but
the built-in hooks are proved. Left:

1. Lemmas of `TextFixers` that need no induction: what a fixed text ends with, and which
   endings are left.
2. A composition of `HookRun` with `WorktreeStash`: hooks of a dropped future that edit
   files while the stash restores.
3. A composition of `Toolchains` with `Store`'s collector, which sweeps versions that no
   record refers to.
4. `try-repo` and `cache clean`.
