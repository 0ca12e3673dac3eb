-------------------------------- MODULE Store --------------------------------
(***************************************************************************)
(* The store shared by all prek processes of a user: store.rs, the lock of *)
(* fs.rs, the commands that fill it (cli/run/run.rs, cli/exec.rs,          *)
(* cli/list.rs, cli/install.rs with cli/run/install.rs) and `prek cache    *)
(* gc` (cli/cache_gc.rs).                                                  *)
(*                                                                         *)
(* A command loads its configuration without the lock, clones and installs *)
(* under it, and uses what it has prepared without it.  A collector marks  *)
(* what the tracked configurations refer to and removes the rest.          *)
(*                                                                         *)
(* A remote repository at a revision is one member of Repos.  Its hooks    *)
(* share one environment requirement; environments have directories of     *)
(* their own with random names, members of Envs.                           *)
(***************************************************************************)
EXTENDS Naturals

CONSTANTS
  Commands,    \* processes that run a command
  Collectors,  \* processes that run `prek cache gc`
  Configs,     \* configuration files
  Repos,       \* remote repositories, each at one revision
  Envs,        \* names of environment directories
  Tools,       \* versions of a toolchain that prek can download
  Kind,        \* [Commands -> Kinds]
  ConfigOf,    \* [Commands -> Configs]
  Unchecked,   \* repositories in a language whose check_health checks nothing
  MaxEdits     \* bound on the user's changes of configuration files

Processes == Commands \cup Collectors
Kinds == {"run", "exec", "list", "prepare"}

ASSUME KindAssumption == Kind \in [Commands -> Kinds]
ASSUME ConfigOfAssumption == ConfigOf \in [Commands -> Configs]
ASSUME DisjointAssumption == Commands \cap Collectors = {}
ASSUME UncheckedAssumption == Unchecked \subseteq Repos
ASSUME NamesAssumption == "free" \notin Processes /\ "system" \notin Tools
ASSUME MaxEditsAssumption == MaxEdits \in Nat

VARIABLES
  file,      \* [Configs -> Files], what loading the file gives
  refs,      \* [Configs -> SUBSET Repos], the repositories it refers to
  tracked,   \* config-tracking.json
  torn,      \* that file was truncated and its new text is not yet written
  scratch,   \* the scratch directory exists
  repo,      \* [Repos -> RepoDirs]
  env,       \* [Envs -> EnvDirs]
  purpose,   \* [Envs -> Repos], InstallInfo: the requirement it satisfies
  toolchain, \* [Envs -> Toolchains], InstallInfo.toolchain
  tools,     \* versions in the tools directory
  lock,      \* the process that holds the file lock
  pc,        \* [Processes -> Places]
  plan,      \* [Commands -> SUBSET Repos], the loaded configuration
  clone,     \* [Commands -> [Repos -> Progress]]
  building,  \* [Commands -> SUBSET Envs], environments being installed
  using,     \* [Commands -> SUBSET Envs], environments resolved
  keep,      \* [Collectors -> Marks]
  edits,     \* changes made by the user
  stale,     \* history: commands whose configuration is not what they loaded
  known      \* history: configurations whose tracking was promised

vars == <<file, refs, tracked, torn, scratch, repo, env, purpose, toolchain,
          tools, lock, pc, plan, clone, building, using, keep, edits, stale, known>>

configs == <<file, refs, edits>>
tracking == <<tracked, torn, known>>
envs == <<env, purpose, toolchain, tools>>
command == <<plan, clone, building, using>>

Files == {"good", "missing", "broken"}

\* partial: no marker; gutted: a marker, but the manifest has been removed.
RepoDirs == {"absent", "partial", "marked", "gutted"}
EnvDirs == {"absent", "partial", "marked"}
Toolchains == Tools \cup {"system"}
Progress == {"none", "temp", "auth", "placed"}
Marks == [repos : SUBSET Repos, envs : SUBSET Envs, tools : SUBSET Tools]

Locked == {"track", "tracking", "clone", "install", "mark", "retrack",
           "repos", "envs", "tools", "scratch"}
Places == {"start", "load", "lock", "relock", "hooks", "ended"} \cup Locked

\* The repository has a directory with a manifest.
Readable == {r \in Repos : repo[r] \in {"partial", "marked"}}

NothingYet == [r \in Repos |-> "none"]

-----------------------------------------------------------------------------
(***************************************************************************)
(* The store as earlier commands may have left it.                         *)
(***************************************************************************)
Init ==
  /\ file \in [Configs -> Files]
  /\ refs \in [Configs -> SUBSET Repos]
  /\ tracked \in SUBSET Configs
  /\ torn = FALSE
  /\ scratch \in BOOLEAN
  /\ repo \in [Repos -> RepoDirs]
  /\ env \in [Envs -> EnvDirs]
  /\ purpose \in [Envs -> Repos]
  /\ toolchain \in [Envs -> Toolchains]
  /\ tools \in SUBSET Tools
  /\ lock = "free"
  /\ pc = [p \in Processes |-> "start"]
  /\ plan = [p \in Commands |-> {}]
  /\ clone = [p \in Commands |-> NothingYet]
  /\ building = [p \in Commands |-> {}]
  /\ using = [p \in Commands |-> {}]
  /\ keep = [g \in Collectors |-> [repos |-> {}, envs |-> {}, tools |-> {}]]
  /\ edits = 0
  /\ stale = {}
  /\ known = {c \in tracked : file[c] # "missing"}

Go(p, place) == pc' = [pc EXCEPT ![p] = place]

\* The process is over, done or failed or killed; its memory is gone.
End(p) ==
  /\ Go(p, "ended")
  /\ plan' = [q \in Commands |-> IF q = p THEN {} ELSE plan[q]]
  /\ clone' = [q \in Commands |-> IF q = p THEN NothingYet ELSE clone[q]]
  /\ building' = [q \in Commands |-> IF q = p THEN {} ELSE building[q]]
  /\ using' = [q \in Commands |-> IF q = p THEN {} ELSE using[q]]

(***************************************************************************)
(* Store::init, before any command and without the lock.                   *)
(***************************************************************************)
Start(p) ==
  /\ pc[p] = "start"
  /\ scratch' = TRUE
  /\ Go(p, IF p \in Commands THEN "load" ELSE "lock")
  /\ UNCHANGED <<configs, tracking, repo, envs, lock, command, keep, stale>>

(***************************************************************************)
(* Workspace::discover: a missing or broken configuration ends the command.*)
(* Selectors leave some of its repositories.                               *)
(***************************************************************************)
Load(p) ==
  /\ pc[p] = "load"
  /\ \/ /\ file[ConfigOf[p]] = "good"
        /\ \E selected \in SUBSET refs[ConfigOf[p]] : plan' = [plan EXCEPT ![p] = selected]
        /\ Go(p, "lock")
        /\ UNCHANGED <<clone, building, using>>
     \/ file[ConfigOf[p]] # "good" /\ End(p)
  /\ UNCHANGED <<configs, tracking, scratch, repo, envs, lock, keep, stale>>

Tracks(p) == Kind[p] \in {"run", "exec"}

(***************************************************************************)
(* LockedFile::acquire returns.                                            *)
(***************************************************************************)
Lock(p) ==
  /\ lock = "free"
  /\ lock' = p
  /\ \/ pc[p] = "relock" /\ Go(p, "install")
     \/ /\ pc[p] = "lock"
        /\ Go(p, IF p \in Collectors THEN "mark"
                 ELSE IF Tracks(p) THEN "track" ELSE "clone")
  /\ UNCHANGED <<configs, tracking, scratch, repo, envs, command, keep, stale>>

\* tracked_configs: a file that cannot be parsed counts as empty.
TrackedConfigs == IF torn THEN {} ELSE tracked

\* Faulty: the file is written with the new configuration only.
Overwriting(c) == {c}

\* History: a configuration that exists will stay tracked.
Promise(p) == known' = IF file[ConfigOf[p]] = "missing" THEN known ELSE known \cup {ConfigOf[p]}

\* What track_configs writes.
Extended(c) == TrackedConfigs \cup {c}

(***************************************************************************)
(* track_configs writes only when something is new; fs::write truncates    *)
(* the file first.                                                         *)
(***************************************************************************)
Track(p) ==
  /\ pc[p] = "track"
  /\ \/ /\ ConfigOf[p] \in TrackedConfigs
        /\ Go(p, "clone")
        /\ Promise(p)
        /\ UNCHANGED <<tracked, torn>>
     \/ /\ ConfigOf[p] \notin TrackedConfigs
        /\ tracked' = Extended(ConfigOf[p])
        /\ torn' = TRUE
        /\ Go(p, "tracking")
        /\ UNCHANGED known
  /\ UNCHANGED <<configs, scratch, repo, envs, lock, command, keep, stale>>

Tracked(p) ==
  /\ pc[p] = "tracking"
  /\ torn' = FALSE
  /\ Promise(p)
  /\ Go(p, "clone")
  /\ UNCHANGED <<configs, tracked, scratch, repo, envs, lock, command, keep, stale>>

-----------------------------------------------------------------------------
\* Repositories with a marker are not cloned again.
Missing(p) == {r \in plan[p] : repo[r] \notin {"marked", "gutted"}}

Persisting(p) == \E r \in Repos : clone[p][r] = "placed"

SetClone(p, r, what) == clone' = [clone EXCEPT ![p][r] = what]

(***************************************************************************)
(* clone_repo_to_temp: first without terminal prompts, all repositories    *)
(* concurrently; the ones that need credentials again, one by one, when    *)
(* all the others are in place.                                            *)
(***************************************************************************)
Clone(p, r) ==
  /\ pc[p] = "clone"
  /\ r \in Missing(p)
  /\ scratch
  /\ ~Persisting(p)
  /\ \/ clone[p][r] = "none" /\ \E what \in {"temp", "auth"} : SetClone(p, r, what)
     \/ /\ clone[p][r] = "auth"
        /\ \A other \in Missing(p) : clone[p][other] = "auth"
        /\ SetClone(p, r, "temp")
  /\ UNCHANGED <<configs, tracking, scratch, repo, envs, lock, pc, plan,
                 building, using, keep, stale>>

(***************************************************************************)
(* persist_cloned_repo replaces the target by the clone ...                *)
(***************************************************************************)
Place(p, r) ==
  /\ pc[p] = "clone"
  /\ clone[p][r] = "temp"
  /\ ~Persisting(p)
  /\ SetClone(p, r, "placed")
  /\ repo' = [repo EXCEPT ![r] = "partial"]
  /\ UNCHANGED <<configs, tracking, scratch, envs, lock, pc, plan, building,
                 using, keep, stale>>

(***************************************************************************)
(* ... and writes the marker last.                                         *)
(***************************************************************************)
MarkRepo(p, r) ==
  /\ pc[p] = "clone"
  /\ clone[p][r] = "placed"
  /\ SetClone(p, r, "none")
  /\ repo' = [repo EXCEPT ![r] = "marked"]
  /\ UNCHANGED <<configs, tracking, scratch, envs, lock, pc, plan, building,
                 using, keep, stale>>

\* Faulty: run keeps its first lock until it wants it again.
LockKept(p) == p

\* The guard goes out of scope.
LockDropped(p) == "free"

(***************************************************************************)
(* init_hooks has read every manifest.  run drops the lock, even when no   *)
(* hook needs an environment or none is selected; list is done; exec and   *)
(* prepare_hooks go on to install.                                         *)
(***************************************************************************)
HooksInitialised(p) ==
  /\ pc[p] = "clone"
  /\ \A r \in plan[p] : repo[r] = "marked"
  /\ \/ /\ Kind[p] = "run"
        /\ lock' = LockDropped(p)
        /\ \E place \in {"relock", "hooks"} : Go(p, place)
        /\ UNCHANGED command
     \/ /\ Kind[p] \in {"run", "list"}
        /\ lock' = LockDropped(p)
        /\ End(p)
     \/ /\ Kind[p] \in {"exec", "prepare"}
        /\ Go(p, "install")
        /\ UNCHANGED <<lock, command>>
  /\ UNCHANGED <<configs, tracking, scratch, repo, envs, keep, stale>>

-----------------------------------------------------------------------------
Resolved(p) == {purpose[e] : e \in using[p]}
Unresolved(p) == plan[p] \ (Resolved(p) \cup {purpose[e] : e \in building[p]})

\* check_health runs the toolchain, in most languages.
Healthy(e) == toolchain[e] \in tools \cup {"system"} \/ purpose[e] \in Unchecked

(***************************************************************************)
(* partition_installed_hooks: a healthy environment with a marker that     *)
(* satisfies the requirement is used.                                      *)
(***************************************************************************)
Reuse(p, e) ==
  /\ pc[p] = "install"
  /\ env[e] = "marked"
  /\ Healthy(e)
  /\ purpose[e] \in Unresolved(p)
  /\ using' = [using EXCEPT ![p] = @ \cup {e}]
  /\ UNCHANGED <<configs, tracking, scratch, repo, envs, lock, pc, plan, clone,
                 building, keep, stale>>

(***************************************************************************)
(* Language::install: a new directory and a toolchain, which is the        *)
(* system's, or one in the store, or downloaded through scratch.  Nothing  *)
(* usable was found for the requirement; what has a marker may be          *)
(* unhealthy.  Partitions install concurrently.                            *)
(***************************************************************************)
Build(p, e) ==
  /\ pc[p] = "install"
  /\ env[e] = "absent"
  /\ \E r \in Unresolved(p) : purpose' = [purpose EXCEPT ![e] = r]
  /\ \E t \in Toolchains :
       /\ t \in tools \cup {"system"} \/ scratch
       /\ toolchain' = [toolchain EXCEPT ![e] = t]
       /\ tools' = (tools \cup {t}) \ {"system"}
  /\ env' = [env EXCEPT ![e] = "partial"]
  /\ building' = [building EXCEPT ![p] = @ \cup {e}]
  /\ UNCHANGED <<configs, tracking, scratch, repo, lock, pc, plan, clone, using,
                 keep, stale>>

(***************************************************************************)
(* mark_as_installed                                                       *)
(***************************************************************************)
MarkEnv(p, e) ==
  /\ pc[p] = "install"
  /\ e \in building[p]
  /\ env' = [env EXCEPT ![e] = "marked"]
  /\ building' = [building EXCEPT ![p] = @ \ {e}]
  /\ using' = [using EXCEPT ![p] = @ \cup {e}]
  /\ UNCHANGED <<configs, tracking, scratch, repo, purpose, toolchain, tools,
                 lock, pc, plan, clone, keep, stale>>

(***************************************************************************)
(* install_hooks returns and the lock is dropped.  run has only looked for *)
(* the environments of hooks that match its files.                         *)
(***************************************************************************)
Installed(p) ==
  /\ pc[p] = "install"
  /\ building[p] = {}
  /\ Kind[p] = "run" \/ Unresolved(p) = {}
  /\ lock' = LockDropped(p)
  /\ \/ Kind[p] = "prepare" /\ End(p)
     \/ Kind[p] # "prepare" /\ Go(p, "hooks") /\ UNCHANGED command
  /\ UNCHANGED <<configs, tracking, scratch, repo, envs, keep, stale>>

(***************************************************************************)
(* The hooks run without the lock.                                         *)
(***************************************************************************)
HooksEnd(p) ==
  /\ pc[p] = "hooks"
  /\ End(p)
  /\ UNCHANGED <<configs, tracking, scratch, repo, envs, lock, keep, stale>>

Unlocked(p) == IF lock = p THEN "free" ELSE lock

\* Losing the tracking file breaks the promise made to those who wrote it.
LoseTracking(p) ==
  IF pc[p] \in {"tracking", "retrack"}
  THEN /\ stale' = stale \cup {q \in Commands : pc[q] \notin {"start", "load", "lock", "track"}}
       /\ known' = {}
  ELSE UNCHANGED <<stale, known>>

(***************************************************************************)
(* Any step under the lock may fail: cloning, reading a manifest, writing  *)
(* the tracking file, installing.  The temporary directories and the lock  *)
(* are dropped; environments whose path was persisted stay.                *)
(***************************************************************************)
Fail(p) ==
  /\ pc[p] \in {"track", "tracking", "clone", "install"}
  /\ End(p)
  /\ lock' = LockDropped(p)
  /\ \E left \in SUBSET building[p] :
       env' = [e \in Envs |-> IF e \in building[p] \ left THEN "absent" ELSE env[e]]
  /\ LoseTracking(p)
  /\ UNCHANGED <<configs, tracked, torn, scratch, repo, purpose, toolchain,
                 tools, keep>>

(***************************************************************************)
(* The process is killed; the system releases its lock.                    *)
(***************************************************************************)
Kill(p) ==
  /\ pc[p] # "ended"
  /\ End(p)
  /\ lock' = Unlocked(p)
  /\ LoseTracking(p)
  /\ UNCHANGED <<configs, tracked, torn, scratch, repo, envs, keep>>

-----------------------------------------------------------------------------
\* kept_configs: what is missing is dropped, what is broken is not.
KeptConfigs == {c \in TrackedConfigs : file[c] # "missing"}

UsedRepos == UNION {refs[c] : c \in {c \in TrackedConfigs : file[c] = "good"}}

\* Faulty: only the first environment that satisfies a requirement.
FirstMatch(required) ==
  {e \in Envs : /\ env[e] = "marked" /\ purpose[e] \in required
                /\ e = CHOOSE d \in Envs : env[d] = "marked" /\ purpose[d] = purpose[e]}

\* Every environment that satisfies a requirement.
Matching(required) == {e \in Envs : env[e] = "marked" /\ purpose[e] \in required}

\* tool_version_dir_name: a toolchain outside of the store is no version.
UsedTools(kept) == {toolchain[e] : e \in kept} \cap Tools

(***************************************************************************)
(* Requirements come from the manifests of the used repositories; a        *)
(* directory without a marker may or may not have one.                     *)
(***************************************************************************)
MarksOf(readable) ==
  LET kept == Matching(UsedRepos \cap readable)
  IN  [repos |-> UsedRepos,
       envs |-> kept,
       tools |-> UsedTools(kept)]

(***************************************************************************)
(* cache_gc: nothing is tracked, or a dry run; otherwise it marks, and     *)
(* rewrites the tracking file if a configuration is gone.                  *)
(***************************************************************************)
Nothing(g) ==
  /\ pc[g] = "mark"
  /\ lock' = LockDropped(g)
  /\ End(g)
  /\ UNCHANGED <<configs, tracking, scratch, repo, envs, keep, stale>>

Mark(g) ==
  /\ pc[g] = "mark"
  /\ TrackedConfigs # {}
  /\ \E readable \in SUBSET Readable :
       /\ \A r \in Repos : repo[r] = "marked" => r \in readable
       /\ keep' = [keep EXCEPT ![g] = MarksOf(readable)]
  /\ IF KeptConfigs = TrackedConfigs
     THEN Go(g, "repos") /\ UNCHANGED <<tracked, torn>>
     ELSE Go(g, "retrack") /\ tracked' = KeptConfigs /\ torn' = TRUE
  /\ UNCHANGED <<configs, known, scratch, repo, envs, lock, command, stale>>

Retracked(g) ==
  /\ pc[g] = "retrack"
  /\ torn' = FALSE
  /\ Go(g, "repos")
  /\ UNCHANGED <<configs, tracked, known, scratch, repo, envs, lock, command,
                 keep, stale>>

\* What a removal may leave: it removes files in any order and may fail.
Remains(dir) == IF dir \in {"marked", "gutted"} THEN {dir, "gutted", "partial", "absent"}
                ELSE {dir, "absent"}

(***************************************************************************)
(* sweep_dir_by_name over the repositories, the environments and the       *)
(* tools; removals that fail are logged.                                   *)
(***************************************************************************)
SweepRepos(g) ==
  /\ pc[g] = "repos"
  /\ repo' \in {f \in [Repos -> RepoDirs] :
                  \A r \in Repos : f[r] \in IF r \in keep[g].repos THEN {repo[r]}
                                            ELSE Remains(repo[r])}
  /\ Go(g, "envs")
  /\ UNCHANGED <<configs, tracking, scratch, envs, lock, command, keep, stale>>

SweepEnvs(g) ==
  /\ pc[g] = "envs"
  /\ env' \in {f \in [Envs -> EnvDirs] :
                 \A e \in Envs : f[e] \in IF e \in keep[g].envs THEN {env[e]}
                                          ELSE Remains(env[e])}
  /\ Go(g, "tools")
  /\ UNCHANGED <<configs, tracking, scratch, repo, purpose, toolchain, tools,
                 lock, command, keep, stale>>

SweepTools(g) ==
  /\ pc[g] = "tools"
  /\ tools' \in {s \in SUBSET tools : tools \cap keep[g].tools \subseteq s}
  /\ Go(g, "scratch")
  /\ UNCHANGED <<configs, tracking, scratch, repo, env, purpose, toolchain,
                 lock, command, keep, stale>>

SweepScratch(g) ==
  /\ pc[g] = "scratch"
  /\ scratch' = FALSE
  /\ lock' = LockDropped(g)
  /\ End(g)
  /\ UNCHANGED <<configs, tracking, repo, envs, keep, stale>>

\* Updating the tracking file fails: cache_gc returns the error.
GiveUp(g) ==
  /\ pc[g] = "retrack"
  /\ End(g)
  /\ lock' = LockDropped(g)
  /\ LoseTracking(g)
  /\ UNCHANGED <<configs, tracked, torn, scratch, repo, envs, keep>>

-----------------------------------------------------------------------------
(***************************************************************************)
(* The user edits, deletes, restores or breaks a configuration file.       *)
(***************************************************************************)
Edit(c) ==
  /\ edits < MaxEdits
  /\ edits' = edits + 1
  /\ \E what \in Files : file' = [file EXCEPT ![c] = what]
  /\ \E what \in SUBSET Repos : refs' = [refs EXCEPT ![c] = what]
  /\ stale' = stale \cup {p \in Commands : ConfigOf[p] = c /\ pc[p] \notin {"start", "load"}}
  /\ known' = IF file'[c] = "missing" THEN known \ {c} ELSE known
  /\ UNCHANGED <<tracked, torn, scratch, repo, envs, lock, pc, command, keep>>

Command(p) ==
  \/ Load(p)
  \/ Track(p) \/ Tracked(p)
  \/ \E r \in Repos : Clone(p, r) \/ Place(p, r) \/ MarkRepo(p, r)
  \/ HooksInitialised(p)
  \/ \E e \in Envs : Reuse(p, e) \/ Build(p, e) \/ MarkEnv(p, e)
  \/ Installed(p)
  \/ HooksEnd(p)
  \/ Fail(p)

Collect(g) ==
  \/ Nothing(g) \/ Mark(g) \/ Retracked(g)
  \/ SweepRepos(g) \/ SweepEnvs(g) \/ SweepTools(g) \/ SweepScratch(g)
  \/ GiveUp(g)

Step(p) ==
  \/ Start(p) \/ Lock(p)
  \/ p \in Commands /\ Command(p)
  \/ p \in Collectors /\ Collect(p)

AllEnded == (\A p \in Processes : pc[p] = "ended") /\ UNCHANGED vars

Next ==
  \/ \E p \in Processes : Step(p) \/ Kill(p)
  \/ \E c \in Configs : Edit(c)
  \/ AllEnded

Spec == Init /\ [][Next]_vars

(***************************************************************************)
(* Each process is scheduled; clones, installations and hooks end.         *)
(***************************************************************************)
FairSpec == Spec /\ \A p \in Processes : WF_vars(Step(p))

-----------------------------------------------------------------------------
(***************************************************************************)
(* Types.  The tool versions a collector keeps are versions that prek can  *)
(* download, never the toolchain of the system.                            *)
(***************************************************************************)
TypeOK ==
  /\ file \in [Configs -> Files]
  /\ refs \in [Configs -> SUBSET Repos]
  /\ tracked \subseteq Configs
  /\ torn \in BOOLEAN
  /\ scratch \in BOOLEAN
  /\ repo \in [Repos -> RepoDirs]
  /\ env \in [Envs -> EnvDirs]
  /\ purpose \in [Envs -> Repos]
  /\ toolchain \in [Envs -> Toolchains]
  /\ tools \subseteq Tools
  /\ lock \in Processes \cup {"free"}
  /\ pc \in [Processes -> Places]
  /\ plan \in [Commands -> SUBSET Repos]
  /\ clone \in [Commands -> [Repos -> Progress]]
  /\ building \in [Commands -> SUBSET Envs]
  /\ using \in [Commands -> SUBSET Envs]
  /\ keep \in [Collectors -> Marks]
  /\ edits \in 0..MaxEdits
  /\ stale \subseteq Commands
  /\ known \subseteq Configs

(***************************************************************************)
(* Whoever changes the store holds the lock, also when steps fail and      *)
(* processes are killed; whoever has stopped changing it does not.         *)
(***************************************************************************)
StoreExclusive == \A p \in Processes : pc[p] \in Locked <=> lock = p

(***************************************************************************)
(* A configuration that a command has tracked stays tracked, broken or     *)
(* not, until it is missing, whatever other commands and collectors write; *)
(* only a process that dies while it writes the file loses it.             *)
(***************************************************************************)
TrackingKept ==
  /\ known \subseteq tracked
  /\ torn /\ known # {} => \E p \in Processes : pc[p] \in {"tracking", "retrack"}

Prepared == {"relock", "install", "hooks"}

RepoPresent(p) == \A r \in plan[p] : repo[r] = "marked"

EnvPresent(p) ==
  \A e \in using[p] :
    /\ env[e] = "marked"
    /\ purpose[e] \in plan[p] \ Unchecked => toolchain[e] \in tools \cup {"system"}

(***************************************************************************)
(* What a command has cloned and installed stays in the store while it     *)
(* uses it without the lock: no collector, no other command and no failure *)
(* takes it away, as long as the command's configuration is as it loaded   *)
(* it and the tracking file was not lost.                                  *)
(***************************************************************************)
UsedIsPresent ==
  \A p \in Commands :
    Tracks(p) /\ p \notin stale /\ pc[p] \in Prepared => RepoPresent(p) /\ EnvPresent(p)

(***************************************************************************)
(* Every process ends: whoever waits for the lock gets it, since failing   *)
(* and dying processes give it back.                                       *)
(***************************************************************************)
ProcessesEnd == \A p \in Processes : <>(pc[p] = "ended")
=============================================================================
