---------------------------- MODULE ToolBackends ----------------------------
(***************************************************************************)
(* The languages whose toolchains prek finds or downloads itself: what     *)
(* installing a hook puts into its environment, when an environment is     *)
(* healthy, and where its programs are looked up (languages/<language>).   *)
(*                                                                         *)
(* The machine m is a record: the tools on the PATH (system), those in the *)
(* store (managed) and those that can be downloaded (published), each a    *)
(* record [tool, version, label]; the other programs on the PATH           *)
(* (programs); the registry, a function from packages to the programs they *)
(* install; and the variables that are set (vars).                         *)
(*                                                                         *)
(* A program is a record [name, from, with]: what it came from, and the    *)
(* interpreter its first line asks for ("none").  What came from a         *)
(* toolchain is whatever stands at the toolchain's place.  A directory is  *)
(* a set of programs, a path a sequence of directories.                    *)
(***************************************************************************)
EXTENDS HookSpecs, FiniteSets

Program(name, from, with) == [name |-> name, from |-> from, with |-> with]

-----------------------------------------------------------------------------
(* Toolchains.                                                             *)

\* where a tool of the machine stands; rustup keeps a directory for each of its
\* toolchains, named for the channel or else for the release
OnSystem(t) ==
    [tool    |-> t.tool,
     place   |-> "system",
     version |-> IF t.tool = "rust" /\ t.label = "none" THEN t.version ELSE Unrecorded,
     label   |-> IF t.tool = "rust" THEN t.label ELSE "none"]
Package(name) == [tool |-> name, place |-> "package", version |-> Unrecorded, label |-> "none"]
InStore(t)  == [tool |-> t.tool, place |-> "managed", version |-> t.version, label |-> t.label]

\* the tool that now stands where a toolchain was found: {} or one
At(toolchain, m) ==
    CASE toolchain.place = "system"  -> {t \in m.system : OnSystem(t) = toolchain}
      [] toolchain.place = "managed" -> {t \in m.managed : InStore(t) = toolchain}
      [] OTHER                       -> {}

\* a rust toolchain of a channel comes after those that are not, nightly last
Rank(t) ==
    CASE t.tool = "rust" /\ t.label = "nightly" -> 2
      [] t.tool = "rust" /\ t.label = "beta"    -> 1
      [] OTHER                                  -> 0

\* the tools that come before all others: one, but for tools of equal versions
Newest(tools) ==
    {t \in tools : \A u \in tools :
        Rank(t) < Rank(u) \/ (Rank(t) = Rank(u) /\ ~Larger(u.version, t.version))}

\* what a download for a rust request is called: a channel, or a release
Downloadable(request, t) ==
    t.tool = "rust" => t.label = CASE request.kind = "any"     -> "stable"
                                   [] request.kind = "channel" -> request.w
                                   [] OTHER                    -> "none"

\* The installers: the newest tool of the first place that has one the request
\* accepts, or else the newest download if downloads are allowed.  The result is
\* {} or the tool and its toolchain.
Provide(tool, hook, m) ==
    LET request   == hook.request.version
        fit(ts)   == {t \in ts : t.tool = tool /\ Matches(request, t.version, t.label)}
        place     == FirstOf(SearchOrder(hook.request.preference), LAMBDA p : fit(m[p]) # {})
        offers    == {t \in fit(m.published) : Downloadable(request, t)}
        found(t, p) == [tool |-> t, at |-> IF p = "system" THEN OnSystem(t) ELSE InStore(t)]
    IN  IF place = {} /\ hook.request.downloads
        THEN {found(t, "managed") : t \in Newest(offers)}
        ELSE UNION {{found(t, p) : t \in Newest(fit(m[p]))} : p \in place}

\* the store after a toolchain was provided
Kept(found, m) == m.managed \cup (IF found.at.place = "managed" THEN {found.tool} ELSE {})

-----------------------------------------------------------------------------
(* Directories and paths.                                                  *)

\* the programs on the PATH, the tools among them
SystemDir(m) == m.programs \cup {Program(t.tool, OnSystem(t), "none") : t \in m.system}

\* the directory a toolchain's executable is in
ToolchainDir(toolchain, m) ==
    IF toolchain.place = "system" /\ toolchain.tool # "rust" THEN SystemDir(m)
    ELSE {Program(t.tool, toolchain, "none") : t \in At(toolchain, m)}

Named1(dir, name) == {p \in dir : p.name = name}

\* which::which_in: the program of the first directory that has one
Find(path, name) ==
    UNION {Named1(d, name) : d \in FirstOf(path, LAMBDA d : Named1(d, name) # {})}

-----------------------------------------------------------------------------
(* What an environment is built from.                                      *)

Remote(hook) == hook.repo.kind = "remote"

\* the directory an entry and the files of a hook are relative to
Source(hook) == IF Remote(hook) THEN hook.repo.tree ELSE hook.work
WorkTree     == Package("work tree")
Owner(hook)  == IF Remote(hook) THEN Package(hook.repo.identity) ELSE WorkTree

\* the programs that a file of the hook's repository declares
Ours(hook, file, with) ==
    IF Remote(hook) /\ file \in DOMAIN hook.repo.tree
    THEN {Program(n, Owner(hook), with) : n \in hook.repo.tree[file].programs} ELSE {}

\* the programs of dependencies d that a registry has
Theirs(dependencies, with, m) ==
    UNION {{Program(n, Package(d.package), with) : n \in m.registry[d.package]} : d \in dependencies}

Obtainable(dependencies, m) == \A d \in dependencies : d.package \in DOMAIN m.registry

\* an environment: its record, what is in its directory of programs, and the
\* store's toolchains once it is built
Environment(info, programs, managed) == [info |-> info, programs |-> programs, managed |-> managed]

Recorded(hook, found) ==
    [NewInfo(hook) EXCEPT !.toolchain = found.at, !.version = found.tool.version,
                          !.label = found.tool.label]

\* an environment of the repository's package, of which there must be one, and
\* of the dependencies
Built(hook, found, file, with, m) ==
    IF (Remote(hook) => file \in DOMAIN hook.repo.tree) /\ Obtainable(Range(hook.dependencies), m)
    THEN {Environment(Recorded(hook, found),
                      Ours(hook, file, with) \cup Theirs(Range(hook.dependencies), with, m),
                      Kept(found, m))}
    ELSE {}

\* only of dependencies: the repository's files are not installed
BuiltOfDependencies(hook, found, with, m) ==
    IF Obtainable(Range(hook.dependencies), m)
    THEN {Environment(Recorded(hook, found), Theirs(Range(hook.dependencies), with, m), Kept(found, m))}
    ELSE {}

SameVersion(info, m) == \E t \in At(info.toolchain, m) : t.version = info.version

\* Faulty: the programs of the machine come first.
ToolchainThenEnv(env, m) ==
    <<ToolchainDir(env.info.toolchain, m), SystemDir(m), env.programs>>

EnvThenToolchain(env, m) ==
    <<env.programs, ToolchainDir(env.info.toolchain, m), SystemDir(m)>>

-----------------------------------------------------------------------------
(* node: npm installs the repository and the dependencies.                 *)

InstallNode(hook, m) ==
    UNION {Built(hook, found, "package.json", "node", m) : found \in Provide("node", hook, m)}

NodeHealthy(env, m) == SameVersion(env.info, m)
NodePath(env, m) == EnvThenToolchain(env, m)

(* bun *)

InstallBun(hook, m) ==
    UNION {Built(hook, found, "package.json", "bun", m) : found \in Provide("bun", hook, m)}

BunHealthy(env, m) == SameVersion(env.info, m)
BunPath(env, m) == EnvThenToolchain(env, m)

(* deno: a dependency may name the program it installs.                    *)

Renamed(d, m) ==
    IF d.as = "" THEN Theirs({d}, "deno", m) ELSE {Program(d.as, Package(d.package), "deno")}

InstallDeno(hook, m) ==
    {Environment(Recorded(hook, found), UNION {Renamed(d, m) : d \in Range(hook.dependencies)},
                 Kept(found, m)) :
        found \in IF Obtainable(Range(hook.dependencies), m) THEN Provide("deno", hook, m) ELSE {}}

DenoHealthy(env, m) == SameVersion(env.info, m)
DenoPath(env, m) == EnvThenToolchain(env, m)

(* dotnet: the dependencies are tools; of two versions of one the later    *)
(* replaces the earlier.                                                   *)

InstallTool(dependencies, i) ==
    \A j \in i + 1 .. Len(dependencies) : dependencies[j].package # dependencies[i].package

InstallDotnet(hook, m) ==
    LET last == {hook.dependencies[i] : i \in {j \in DOMAIN hook.dependencies :
                                                  InstallTool(hook.dependencies, j)}}
    IN  {Environment(Recorded(hook, found), Theirs(last, "dotnet", m), Kept(found, m)) :
            found \in IF Obtainable(last, m) THEN Provide("dotnet", hook, m) ELSE {}}

DotnetHealthy(env, m) ==
    \E t \in At(env.info.toolchain, m) : SubSeq(t.version, 1, 2) = SubSeq(env.info.version, 1, 2)
DotnetPath(env, m) == EnvThenToolchain(env, m)

-----------------------------------------------------------------------------
(* golang: the commands of the repository's module and the dependencies    *)
(* are compiled.  Nothing is asked of an environment later.                *)

InstallGolang(hook, m) ==
    UNION {Built(hook, found, "go.mod", "none", m) : found \in Provide("go", hook, m)}

GolangHealthy(env, m) == TRUE
GolangPath(env, m) == EnvThenToolchain(env, m)

-----------------------------------------------------------------------------
(* python: a virtual environment, whose python is the toolchain it was     *)
(* made from, into which pip installs the repository's package and the     *)
(* dependencies.  The package must accept the python.                      *)

PackageAccepts(hook, version) ==
    Remote(hook) =>
        /\ "pyproject.toml" \in DOMAIN hook.repo.tree
        /\ \A text \in hook.repo.tree["pyproject.toml"].requires :
               LET request == ParsePython(text)
               IN  request # Invalid => Matches(request, version, "none")

InstallPython(hook, m) ==
    UNION {IF PackageAccepts(hook, found.tool.version)
           THEN {[env EXCEPT !.programs = @ \cup {Program("python", found.at, "none")}] :
                     env \in Built(hook, found, "pyproject.toml", "python", m)}
           ELSE {} : found \in Provide("python", hook, m)}

\* Faulty: a python at the place will do.
PythonThere(env, m) == At(env.info.toolchain, m) # {}

PythonHealthy(env, m) == SameVersion(env.info, m)
PythonPath(env, m) == <<env.programs, SystemDir(m)>>

(* pygrep: any python of the store, else any that uv finds, else one is    *)
(* installed.  The environment stays empty.                                *)

PygrepVersion == <<3, 13>>

InstallPygrep(hook, m) ==
    LET pythons(ts) == {t \in ts : t.tool = "python"}
        offers      == {t \in pythons(m.published) : IsPrefix(PygrepVersion, t.version)}
        stored      == {[tool |-> t, at |-> InStore(t)] : t \in pythons(m.managed)}
        external    == {[tool |-> t, at |-> OnSystem(t)] : t \in pythons(m.system)}
        fetched     == {[tool |-> t, at |-> InStore(t)] : t \in Newest(offers)}
    IN  {Environment([NewInfo(hook) EXCEPT !.toolchain = found.at], {}, Kept(found, m)) :
            found \in First(stored, First(external, fetched))}

PygrepHealthy(env, m) == At(env.info.toolchain, m) # {}

\* run: the script is given to the toolchain itself
PygrepPath(env, m) == <<ToolchainDir(env.info.toolchain, m)>>

\* Args::parse: an argument that is none of these is an error
PygrepArgs == {"--ignore-case", "-i", "--multiline", "--negate"}
PygrepArgsValid(args) == Range(args) \subseteq PygrepArgs

-----------------------------------------------------------------------------
(* ruby: the gems of the repository, built from its specifications or      *)
(* already there, and the dependencies; its programs stand next to a link  *)
(* to the ruby.                                                            *)

BuildGemspecs(hook) ==
    Ours(hook, "gemspec", "ruby") \cup Ours(hook, "gem", "ruby")

InstallGems(hook, m) == BuildGemspecs(hook) \cup Theirs(Range(hook.dependencies), "ruby", m)

InstallRuby(hook, m) ==
    {Environment(Recorded(hook, found),
                 InstallGems(hook, m) \cup {Program("ruby", found.at, "none")}, Kept(found, m)) :
        found \in IF Obtainable(Range(hook.dependencies), m) THEN Provide("ruby", hook, m) ELSE {}}

RubyHealthy(env, m) == SameVersion(env.info, m) /\ Named1(env.programs, "ruby") # {}
RubyPath(env, m) == EnvThenToolchain(env, m)

-----------------------------------------------------------------------------
(* rust: the package of the repository's workspace that has the program of *)
(* the entry, or the one at its root; libraries are added to it, programs  *)
(* of other crates installed beside it.  A local hook's libraries are      *)
(* ignored.                                                                *)

CliDependencies(hook) == {d \in Range(hook.dependencies) : d.cli}
LibDependencies(hook) == {d \in Range(hook.dependencies) : ~d.cli}

\* the packages of the workspace are the sets of their programs, the root's first
FindPackageDir(hook) ==
    LET members == hook.repo.tree["Cargo.toml"].members
        having  == SelectSeq(members, LAMBDA bins : hook.entry[1].name \in bins)
    IN  (having \o members)[1]

InstallLocalProject(hook) ==
    IF Remote(hook) THEN {Program(n, Owner(hook), "none") : n \in FindPackageDir(hook)} ELSE {}

\* cargo-binstall is asked for before anything else, and must be there
BinstallExecutable(m) ==
    "PREK_USE_CARGO_BINSTALL" \in m.vars => Named1(SystemDir(m), "cargo-binstall") # {}

RustLabel(hook, found) ==
    LET request == hook.request.version
    IN  CASE request.kind = "channel" -> request.w
          [] request.kind = "any"     -> IF found.tool.label = "none" THEN "stable" ELSE found.tool.label
          [] OTHER                    -> "none"

InstallRust(hook, m) ==
    IF /\ BinstallExecutable(m)
       /\ Split(hook.entry) # {}
       /\ Remote(hook) => "Cargo.toml" \in DOMAIN hook.repo.tree
       /\ Obtainable(CliDependencies(hook), m)
       /\ Remote(hook) => Obtainable(LibDependencies(hook), m)
    THEN {Environment([Recorded(hook, found) EXCEPT !.label = RustLabel(hook, found)],
                      InstallLocalProject(hook) \cup Theirs(CliDependencies(hook), "none", m),
                      Kept(found, m)) : found \in Provide("rust", hook, m)}
    ELSE {}

RustHealthy(env, m) == TRUE
RustPath(env, m) == EnvThenToolchain(env, m)

-----------------------------------------------------------------------------
(* mise: the dependencies are tools, which mise itself puts on the path    *)
(* before each run; a managed mise stands before the PATH.                 *)

OldestMise == <<2026, 5, 18>>

InstallMise(hook, m) ==
    LET supported(ts) == {t \in ts : t.tool = "mise" => ~Smaller(t.version, OldestMise)}
        usable        == [m EXCEPT !.system = supported(@), !.managed = supported(@), !.published = supported(@)]
    IN  UNION {BuiltOfDependencies(hook, found, "none", m) :
                   found \in Provide("mise", hook, usable)}

MiseHealthy(env, m) == SameVersion(env.info, m) /\ ~Smaller(env.info.version, OldestMise)

ManagedMisePath(env, m) ==
    IF env.info.toolchain.place = "managed"
    THEN <<ToolchainDir(env.info.toolchain, m), SystemDir(m)>> ELSE <<SystemDir(m)>>

MisePath(env, m) ==
    IF env.info.dependencies = <<>> THEN ManagedMisePath(env, m)
    ELSE <<env.programs>> \o ManagedMisePath(env, m)
=============================================================================
