---------------------------- MODULE Environments ----------------------------
(***************************************************************************)
(* The environments of the hooks of a project over several runs: found     *)
(* again or built before the hooks are run (cli/run/install.rs), used by   *)
(* them, and collected (cli/cache_gc.rs).  The installations that do not   *)
(* share an environment go on at the same time; one may fail, which ends   *)
(* the run, and the process may die at any moment.  Between runs the       *)
(* machine changes once and the collector passes.                          *)
(*                                                                         *)
(* The store's directories of environments are numbered.  A directory is   *)
(* temporary while its hook is installed, then kept, and used again only   *)
(* when the marker has been written into it.                               *)
(***************************************************************************)
EXTENDS SystemBackends

CONSTANTS
    Scenarios,      \* records [project, machine, altered]: a project, the machine it
                    \* is on, and what the machine may change into
    Predefined,     \* the options of prek's own hooks: [meta, builtin], by name
    Permits,        \* how many installations go on at the same time
    MaxRuns         \* bound: runs

ASSUME EnvironmentBounds == Permits \in Nat \ {0} /\ MaxRuns \in Nat

\* What a file says of a version: nothing, "default" or "system", or a request.
VersionStated(lv) ==
    /\ lv = LanguageVersion(lv.request, lv.text, lv.preference, lv.downloads)
    /\ lv.request # "explicit" => lv.text = NoText
    /\ lv.preference \in {"none", "only-managed", "managed", "system", "only-system"}

\* Dependencies are a list.
OptionsStated(options) ==
    /\ options = [f \in OptionFields |-> options[f]]
    /\ \A list \in options["dependencies"] : list \in Seq(Range(list))
    /\ \A lv \in options["language_version"] : VersionStated(lv)

ProjectStated(p) ==
    /\ DOMAIN Entries(p) \subseteq Nat
    /\ \A l \in DOMAIN p.config.language_version : VersionStated(p.config.language_version[l])
    /\ \A i \in DOMAIN Entries(p) :
          LET entry == Entries(p)[i]
          IN  /\ OptionsStated(entry.wire.options)
              /\ entry.repo.kind \in {"remote", "local", "meta", "builtin"}
              /\ entry.repo.kind = "remote" =>
                     \A m \in DOMAIN entry.repo.manifest : OptionsStated(entry.repo.manifest[m].options)
    /\ \A i, j \in DOMAIN Entries(p) :
          Entries(p)[i].repo.identity = Entries(p)[j].repo.identity =>
              /\ Entries(p)[i].repo.kind = Entries(p)[j].repo.kind
              /\ Entries(p)[i].repo.tree = Entries(p)[j].repo.tree

\* Every release of rust is at least 1.0; at one place stands one tool; the other programs
\* of the PATH are no toolchains.
MachineStated(m) ==
    /\ m = [f \in {"system", "managed", "published", "programs", "registry", "vars", "settings"} |-> m[f]]
    /\ \A t \in m.system \cup m.managed \cup m.published : t.tool = "rust" => t.version[1] > 0
    /\ \A t, u \in m.system : OnSystem(t) = OnSystem(u) => t = u
    /\ \A p \in m.programs : p.from.place = "package"

\* What a package installs stays the same, and so does what a version of node is called.
SameWorld(m, n) ==
    /\ n.registry = m.registry
    /\ \A t \in m.system, u \in n.system :
          t.tool = u.tool /\ t.tool # "rust" /\ t.version = u.version => t.label = u.label

ASSUME ScenariosAssumption ==
    /\ \A s \in Scenarios :
          /\ ProjectStated(s.project) /\ MachineStated(s.machine)
          /\ \A m \in s.altered : MachineStated(m) /\ SameWorld(s.machine, m)
    /\ \A kind \in {"meta", "builtin"} : \A id \in DOMAIN Predefined[kind] : OptionsStated(Predefined[kind][id])

VARIABLES
    project,        \* the project
    machine,        \* the machine
    altered,        \* what the machine may still become: a set of machines
    hooks,          \* the hooks of the project, as they were built
    dirs,           \* the store's directories: number -> [state, env, hook]
    command,        \* "none", "installing", "running", "ended", "failed", "died"
    runs,           \* runs begun
    using,          \* the directory each hook uses in this run, 0 for none
    parts,          \* the installations, by their first hooks: records [todo, dir, done]
    built,          \* the directories made by this run, each with the hook it was made for
    ran             \* what was executed for each hook in this run: sets of executions

vars  == <<project, machine, altered, hooks, dirs, command, runs, using, parts, built, ran>>

NoEnv ==
    Environment([schema |-> 0, language |-> "none", version |-> Unrecorded, repo |-> "none",
                 dependencies |-> <<>>, toolchain |-> Nowhere, label |-> "none"], {}, {})

Init ==
    \E s \in Scenarios : \E hs \in BuildHooks(s.project, Predefined) :
        /\ project = s.project
        /\ machine = s.machine
        /\ altered = s.altered
        /\ hooks = hs
        /\ dirs = <<>>
        /\ command = "none"
        /\ runs = 0
        /\ using = [h \in DOMAIN hs |-> 0]
        /\ parts = <<>>
        /\ built = {}
        /\ ran = [h \in DOMAIN hs |-> {}]

Idle == command \in {"none", "ended", "failed", "died"}

-----------------------------------------------------------------------------
(* Finding the environments there are.                                     *)

\* the environments a run reads from the store: those with a marker
LoadStoreInstalledHooks == {d \in DOMAIN dirs : dirs[d].state = "marked"}

\* an environment for a hook: any that satisfies it and is healthy
InstalledHook(h) ==
    {d \in LoadStoreInstalledHooks :
        IsSatisfiedBy(Requirement(hooks[h]), dirs[d].env.info) /\ CheckHealth(dirs[d].env, machine)}

\* python and pygrep look for a python in the same place
PartitionLanguage(language) == IF language = "pygrep" THEN "python" ELSE language

\* Faulty: every hook is installed apart.
SameHook(g, h) == g = h

SameInstallPartition(g, h) ==
    /\ PartitionLanguage(hooks[g].language) = PartitionLanguage(hooks[h].language)
    /\ hooks[g].repo.identity = hooks[h].repo.identity
    /\ hooks[g].dependencies = hooks[h].dependencies

\* the hooks that may share an environment, together
PartitionHooks(missing) ==
    LET heads == {h \in missing : \A g \in missing : g < h => ~SameInstallPartition(g, h)}
    IN  [p \in heads |->
            [todo |-> {h \in missing : SameInstallPartition(p, h)}, dir |-> 0, done |-> {}]]

\* A run begins: every hook that needs an environment takes one there is, or waits
\* for an installation.
Begin ==
    /\ Idle /\ runs < MaxRuns
    /\ runs' = runs + 1
    /\ \E found \in [DOMAIN hooks -> {0} \cup DOMAIN dirs] :
          LET needs(h) == NeedsInstallEnv(hooks[h])
              missing  == {h \in DOMAIN hooks : needs(h) /\ found[h] = 0}
          IN  /\ \A h \in DOMAIN hooks :
                    IF needs(h) /\ InstalledHook(h) # {} THEN found[h] \in InstalledHook(h)
                    ELSE found[h] = 0
              /\ using' = found
              /\ parts' = PartitionHooks(missing)
    /\ command' = "installing"
    /\ built' = {}
    /\ ran' = [h \in DOMAIN hooks |-> {}]
    /\ UNCHANGED <<project, machine, altered, hooks, dirs>>

-----------------------------------------------------------------------------
(* Installing.                                                             *)

\* the hook an installation has come to
Turn(p) ==
    {h \in parts[p].todo : command = "installing" /\ \A g \in parts[p].todo : h <= g}

\* Faulty: an installation that has ended keeps its permit.
NeverReleased == {p \in DOMAIN parts : parts[p].dir # 0 \/ parts[p].done # {}}

\* the installations that hold a permit
Building == {p \in DOMAIN parts : parts[p].dir # 0}

\* Faulty: what an installation has made is given to every hook of it.
DoneBefore(p, h) == parts[p].done

Shareable(p, h) ==
    {d \in parts[p].done : IsSatisfiedBy(Requirement(hooks[h]), dirs[d].env.info)}

\* An environment made for an earlier hook of the same kind satisfies this one.
Share(p, h) ==
    /\ parts[p].dir = 0
    /\ \E d \in Shareable(p, h) : using' = [using EXCEPT ![h] = d]
    /\ parts' = [parts EXCEPT ![p].todo = @ \ {h}]
    /\ UNCHANGED <<project, machine, altered, hooks, dirs, command, runs, built, ran>>

\* The installation of a hook begins in a directory of its own.
MakeDir(p, h) ==
    /\ parts[p].dir = 0 /\ Shareable(p, h) = {}
    /\ Cardinality(Building) < Permits
    /\ dirs' = Append(dirs, [state |-> "temporary", env |-> NoEnv])
    /\ parts' = [parts EXCEPT ![p].dir = Len(dirs')]
    /\ UNCHANGED <<project, machine, altered, hooks, command, runs, using, built, ran>>

\* The language has installed the hook: the directory is kept from now on.
Persist(p, h) ==
    /\ parts[p].dir # 0 /\ dirs[parts[p].dir].state = "temporary"
    /\ \E env \in Install(hooks[h], machine) :
          /\ dirs' = [dirs EXCEPT ![parts[p].dir] = [state |-> "kept", env |-> env]]
          /\ machine' = [machine EXCEPT !.managed = @ \cup env.managed]
    /\ UNCHANGED <<project, altered, hooks, command, runs, using, parts, built, ran>>

\* The marker is written and the environment belongs to the hook.
MarkAsInstalled(p, h) ==
    /\ parts[p].dir # 0 /\ dirs[parts[p].dir].state = "kept"
    /\ LET d == parts[p].dir
       IN  /\ dirs' = [dirs EXCEPT ![d].state = "marked"]
           /\ using' = [using EXCEPT ![h] = d]
           /\ built' = built \cup {<<d, h>>}
           /\ parts' = [parts EXCEPT ![p] = [todo |-> @.todo \ {h}, dir |-> 0, done |-> @.done \cup {d}]]
    /\ UNCHANGED <<project, machine, altered, hooks, command, runs, ran>>

\* An installation fails, or has nothing it can install: the run ends, and the
\* temporary directories of all installations are removed.
Fail(p) ==
    /\ command = "installing" /\ parts[p].dir # 0
    /\ dirs' = [d \in DOMAIN dirs |->
                   IF dirs[d].state = "temporary" THEN [state |-> "removed", env |-> NoEnv] ELSE dirs[d]]
    /\ command' = "failed"
    /\ parts' = <<>>
    /\ UNCHANGED <<project, machine, altered, hooks, runs, using, built, ran>>

\* The process dies: nothing is removed.
Die ==
    /\ command \in {"installing", "running"}
    /\ command' = "died"
    /\ parts' = <<>>
    /\ UNCHANGED <<project, machine, altered, hooks, dirs, runs, using, built, ran>>

Installed ==
    /\ command = "installing" /\ \A p \in DOMAIN parts : parts[p].todo = {}
    /\ command' = "running"
    /\ UNCHANGED <<project, machine, altered, hooks, dirs, runs, using, parts, built, ran>>

-----------------------------------------------------------------------------
(* Running the hooks.                                                      *)

EnvOf(h) == IF using[h] = 0 THEN NoEnv ELSE dirs[using[h]].env

\* prek's own hooks are no programs
OfPrek(hook) == hook.repo.kind \in {"meta", "builtin"}

Run ==
    /\ command = "running"
    /\ ran' = [h \in DOMAIN hooks |->
                  IF OfPrek(hooks[h]) THEN {} ELSE Execute(hooks[h], EnvOf(h), machine)]
    /\ command' = "ended"
    /\ UNCHANGED <<project, machine, altered, hooks, dirs, runs, using, parts, built>>

-----------------------------------------------------------------------------
(* Between runs.                                                           *)

Alter ==
    /\ Idle
    /\ \E m \in altered : machine' = [m EXCEPT !.managed = machine.managed]
    /\ altered' = {}
    /\ command' = "none"
    /\ UNCHANGED <<project, hooks, dirs, runs, using, parts, built, ran>>

\* what the configuration of a project requires
HookEnvRequirements(p) ==
    LET entries == Entries(p)
    IN  UNION {UNION {RequirementFromSpec(s, p.config, entries[i].repo) :
                          s \in SpecOf(entries[i].repo, entries[i].wire, Predefined)} :
               i \in {j \in DOMAIN entries : entries[j].repo.kind \in {"remote", "local"}}}

\* Faulty: a hook that asks for no version is taken to use nothing.
UsedByVersion ==
    {d \in LoadStoreInstalledHooks :
        \E r \in HookEnvRequirements(project) :
            r.request.version # AnyVersion /\ IsSatisfiedBy(r, dirs[d].env.info)}

Used == {d \in LoadStoreInstalledHooks :
            \E r \in HookEnvRequirements(project) : IsSatisfiedBy(r, dirs[d].env.info)}

\* the toolchains that the environments in use were recorded with; those of rust
\* stand in one directory
KeptTools ==
    {t \in machine.managed :
        \E d \in Used : \/ dirs[d].env.info.toolchain = InStore(t)
                        \/ t.tool = "rust" /\ dirs[d].env.info.language = "rust"
                             /\ dirs[d].env.info.toolchain.place = "managed"}

Collect ==
    /\ Idle /\ LoadStoreInstalledHooks # {}
    /\ dirs' = [d \in DOMAIN dirs |-> IF d \in Used THEN dirs[d] ELSE [state |-> "removed", env |-> NoEnv]]
    /\ machine' = [machine EXCEPT !.managed = KeptTools]
    /\ using' = [h \in DOMAIN hooks |-> 0] /\ built' = {}
    /\ UNCHANGED <<project, altered, hooks, command, runs, parts, ran>>

Step(p) ==
    \E h \in Turn(p) : Share(p, h) \/ MakeDir(p, h) \/ Persist(p, h) \/ MarkAsInstalled(p, h)

Next ==
    \/ Begin \/ Installed \/ Run \/ Die \/ Alter \/ Collect
    \/ \E p \in DOMAIN parts : Step(p) \/ Fail(p)

Spec == Init /\ [][Next]_vars

\* installations that can go on do, and those that cannot fail
Fairness ==
    /\ WF_vars(\E p \in DOMAIN parts : Step(p))
    /\ WF_vars(\E p \in DOMAIN parts : Fail(p) /\ \E h \in Turn(p) : Install(hooks[h], machine) = {})
    /\ WF_vars(Installed) /\ WF_vars(Run)

FairSpec == Spec /\ Fairness

-----------------------------------------------------------------------------
(* Properties.                                                             *)

States == {"temporary", "kept", "marked", "removed"}

Part == [todo : SUBSET DOMAIN hooks, dir : 0 .. Len(dirs), done : SUBSET (1 .. Len(dirs))]

TypeOK ==
    /\ command \in {"none", "installing", "running", "ended", "failed", "died"}
    /\ dirs \in Seq([state : States, env : {dirs[d].env : d \in DOMAIN dirs}])
    /\ runs \in Nat
    /\ using \in [DOMAIN hooks -> 0 .. Len(dirs)]
    /\ DOMAIN parts \subseteq DOMAIN hooks
    /\ parts \in [DOMAIN parts -> Part]
    /\ built \subseteq (1 .. Len(dirs)) \X DOMAIN hooks

\* The hooks are run when each of those that need one has an environment that is kept,
\* satisfies it and is healthy on the machine as it is then: neither what was found, nor
\* what was made for another hook, nor an installation that failed leads to another.
Served ==
    command = "running" =>
        \A h \in DOMAIN hooks : NeedsInstallEnv(hooks[h]) => using[h] \in InstalledHook(h)

\* The configuration itself asks for the hook's dependencies, and for its version if
\* for any: neither was read from a script.
Configured(h) ==
    \E r \in HookEnvRequirements(project) :
        /\ r.language = hooks[h].language /\ r.repo = hooks[h].repo.identity
        /\ r.dependencies = hooks[h].dependencies
        /\ \/ r.request.version = hooks[h].request.version
           \/ r.request.version = AnyVersion /\ hooks[h].language # "rust"

\* After a run that ended, the next one builds nothing, whatever the collector has
\* removed in between: what a hook was recorded with satisfies what it requires,
\* the environment is healthy, and the collector sees that it is used.
\* (The environments of scripts that carry their dependencies, or ask for another
\* version than the configuration does, are collected.)
Settled ==
    command = "ended" =>
        \A h \in DOMAIN hooks :
            NeedsInstallEnv(hooks[h]) /\ (using[h] # 0 \/ Configured(h)) => InstalledHook(h) # {}

\* the toolchain of a language's version requests
ToolOf(language) == IF language = "golang" THEN "go" ELSE language

\* languages that do not look at the version of a toolchain again, or not at all of it
NotRechecked == {"golang", "rust", "dotnet"}

\* the toolchains of its language that a hook was run with, be it as the program of the
\* entry or as the interpreter of that program; one of the machine that was changed and
\* that the language does not check again is left out
RunWith(h) ==
    {t \in machine.system \cup machine.managed :
        \E x \in ran[h] : \E p \in {x.program} \cup x.with :
            /\ t \in At(p.from, machine)
            /\ p.from.tool = ToolOf(hooks[h].language)
            /\ altered = {} /\ p.from.place = "system" => hooks[h].language \notin NotRechecked}

\* a toolchain of no channel is recorded as one of the stable channel when it was
\* installed for a hook that asks for nothing
TakenForStable(h, t) ==
    /\ hooks[h].language = "rust" /\ t.label = "none"
    /\ hooks[h].request.version = [kind |-> "channel", w |-> "stable"]

\* Whichever hook an environment was made for, a hook runs with a toolchain that its own
\* request accepts, also after the machine has changed and the collector has passed.
HonoursRequest ==
    command = "ended" =>
        \A h \in DOMAIN hooks :
            hooks[h].language \in SupportsLanguageVersion /\ "PATH" \notin DOMAIN hooks[h].env =>
                \A t \in RunWith(h) :
                    \/ SatisfiedBy(hooks[h].language, hooks[h].request.version, t)
                    \/ TakenForStable(h, t)

\* A rust hook that asks for a channel runs with a toolchain of that channel, as
\* RustRequest::matches has it.
RustChannelHonoured ==
    command = "ended" =>
        \A h \in DOMAIN hooks :
            hooks[h].language = "rust" /\ "PATH" \notin DOMAIN hooks[h].env =>
                \A t \in RunWith(h) : SatisfiedBy("rust", hooks[h].request.version, t)

\* No run builds an environment for a hook that one it began earlier would have
\* served: hooks that one environment satisfies meet in one installation, whatever
\* the order in which the installations go on.
BuiltOnce ==
    \A a, b \in built :
        a[1] < b[1] => ~IsSatisfiedBy(Requirement(hooks[b[2]]), dirs[a[1]].env.info)

\* the files that declare what a package installs
PackageFiles(language) ==
    CASE language = "python"           -> {"pyproject.toml"}
      [] language \in {"node", "bun"}  -> {"package.json"}
      [] language = "golang"           -> {"go.mod"}
      [] language = "ruby"             -> {"gemspec", "gem"}
      [] language = "dart"             -> {"pubspec.yaml"}
      [] language = "php"              -> {"composer.json"}
      [] language = "lua"              -> {"rockspec"}
      [] language = "perl"             -> {"Makefile.PL"}
      [] language = "haskell"          -> {".cabal"}
      [] language = "conda"            -> {"environment.yml"}
      [] language = "coursier"         -> {".pre-commit-channel"}
      [] language = "swift"            -> {"Package.swift"}
      [] language = "docker"           -> {"Dockerfile"}
      [] OTHER                         -> {}

\* the programs of the package a hook is from: of a local hook only where the language
\* builds what stands in the work tree, of a workspace of rust only one package's
OwnPrograms(hook) ==
    CASE hook.language = "rust" -> IF Remote(hook) THEN FindPackageDir(hook) ELSE {}
      [] hook.language # "rust" /\ (Remote(hook) \/ hook.language \in {"dart", "haskell"}) ->
             UNION {Source(hook)[f].programs : f \in PackageFiles(hook.language) \cap DOMAIN Source(hook)}
      [] OTHER -> {}

\* the programs a dependency of a hook installs; for some languages it is a library
Installs(hook, d) ==
    CASE hook.language \notin SupportsDependency \ {"dart", "julia", "r"} -> {}
      [] hook.language = "rust" /\ ~d.cli    -> {}
      [] hook.language = "deno" /\ d.as # "" -> {d.as}
      [] OTHER                               -> machine.registry[d.package]

\* the packages of a hook that have a program: its own and its dependencies
Owners(hook, name) ==
    {Owner(hook) : n \in OwnPrograms(hook) \cap {name}}
    \cup {Package(d.package) : d \in {e \in Dependencies(hook) : name \in Installs(hook, e)}}

\* the hooks of a rust workspace that share an environment have their programs in one of
\* its packages
OnePackage(h) ==
    hooks[h].language = "rust" /\ Remote(hooks[h]) =>
        \A g \in DOMAIN hooks :
            SameInstallPartition(g, h) => FindPackageDir(hooks[g]) = FindPackageDir(hooks[h])

\* the hooks whose entries name a program that is looked up on the path of an environment
NamesProgram(h) ==
    /\ using[h] # 0 /\ hooks[h].shell = {} /\ Split(hooks[h].entry) # {}
    /\ "PATH" \notin DOMAIN hooks[h].env
    /\ hooks[h].entry[1].at = "path"

\* A hook whose entry names a program of its own package or dependencies runs it, and
\* no other of the name on the machine, also in an environment that was made for another
\* hook.  (A docker hook runs nothing once docker has gone.)
RunsItsOwn ==
    command = "ended" =>
        \A h \in DOMAIN hooks :
            LET owners == Owners(hooks[h], hooks[h].entry[1].name)
            IN  NamesProgram(h) /\ OnePackage(h) /\ owners # {} =>
                    /\ ran[h] # {} \/ hooks[h].language = "docker"
                    /\ \A x \in ran[h] : x.program.from \in owners \cup {EnvOf(h).info.toolchain}

\* The entry of a remote rust hook identifies a program that is built from the hook's
\* repository, and the hook runs that program.
RustEntryInstalled ==
    command = "ended" =>
        \A h \in DOMAIN hooks :
            /\ NamesProgram(h) /\ hooks[h].language = "rust" /\ Remote(hooks[h])
            /\ hooks[h].entry[1].name \in UNION Range(hooks[h].repo.tree["Cargo.toml"].members)
            => \E x \in ran[h] : x.program.from = Owner(hooks[h])

\* Installing ends: no installation waits for a permit that is not given back.
InstallsEnd == command = "installing" ~> command # "installing"
=============================================================================
