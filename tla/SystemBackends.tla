--------------------------- MODULE SystemBackends ---------------------------
(***************************************************************************)
(* The languages that use what is installed on the machine, those that     *)
(* install nothing, and the execution of a hook in its environment         *)
(* (languages/<language>.rs, languages/mod.rs, hook_entry.rs).             *)
(***************************************************************************)
EXTENDS ToolBackends

\* a tool of the machine: {} or one
OnPath(tool, m) == {t \in m.system : t.tool = tool}
Present(tool, m) == OnPath(tool, m) # {}

\* what is recorded of a hook's environment made with a tool of the machine
WithToolchain(hook, tool) == [NewInfo(hook) EXCEPT !.toolchain = OnSystem(tool)]
WithTool(hook, tool) == [WithToolchain(hook, tool) EXCEPT !.version = tool.version]

EnvThenSystem(env, m) == <<env.programs, SystemDir(m)>>

\* the programs that a file declares, in the repository or the work tree
FromSource(hook, file, with) ==
    IF file \in DOMAIN Source(hook)
    THEN {Program(n, Owner(hook), with) : n \in Source(hook)[file].programs} ELSE {}

Dependencies(hook) == Range(hook.dependencies)

-----------------------------------------------------------------------------
(* dart: the executables of the package that stands where the hook is are  *)
(* compiled; the dependencies are libraries of its configuration.          *)

InstallFromPubspec(hook) == FromSource(hook, "pubspec.yaml", "none")

PackageConfig(hook) == "pubspec.yaml" \in DOMAIN Source(hook) \/ hook.dependencies # <<>>

InstallDart(hook, m) ==
    IF PackageConfig(hook) => Obtainable(Dependencies(hook), m)
    THEN {Environment(WithToolchain(hook, dart), InstallFromPubspec(hook), m.managed) :
              dart \in OnPath("dart", m)}
    ELSE {}

DartHealthy(env, m) == At(env.info.toolchain, m) # {}
DartPath(env, m) == EnvThenSystem(env, m)

(* php: composer requires the repository's package, which must have a      *)
(* name, and the dependencies, and checks the platform.                    *)

InstallPhp(hook, m) ==
    IF /\ Remote(hook) => "composer.json" \in DOMAIN hook.repo.tree
       /\ Remote(hook) \/ hook.dependencies # <<>> => Named1(SystemDir(m), "composer") # {}
       /\ Obtainable(Dependencies(hook), m)
    THEN {Environment(WithTool(hook, php),
                      Ours(hook, "composer.json", "php") \cup Theirs(Dependencies(hook), "php", m),
                      m.managed) : php \in OnPath("php", m)}
    ELSE {}

PhpHealthy(env, m) == SameVersion(env.info, m)
PhpPath(env, m) == EnvThenToolchain(env, m)

(* lua: luarocks makes the repository's rock, if it has one, and installs  *)
(* the dependencies.                                                       *)

InstallLua(hook, m) ==
    IF Obtainable(Dependencies(hook), m) /\ Named1(SystemDir(m), "luarocks") # {}
    THEN {Environment(WithTool(hook, lua),
                      Ours(hook, "rockspec", "lua") \cup Theirs(Dependencies(hook), "lua", m),
                      m.managed) : lua \in OnPath("lua", m)}
    ELSE {}

\* the version and the place of the interpreter on the PATH
LuaHealthy(env, m) == SameVersion(env.info, m)
LuaPath(env, m) == EnvThenSystem(env, m)

(* perl: cpan installs the repository and the dependencies.                *)

InstallPerl(hook, m) ==
    IF /\ Named1(SystemDir(m), "cpan") # {}
       /\ Remote(hook) => "Makefile.PL" \in DOMAIN hook.repo.tree
       /\ Obtainable(Dependencies(hook), m)
    THEN {Environment(NewInfo(hook),
                      Ours(hook, "Makefile.PL", "perl") \cup Theirs(Dependencies(hook), "perl", m),
                      m.managed)}
    ELSE {}

PerlHealthy(env, m) == TRUE
PerlPath(env, m) == EnvThenSystem(env, m)

(* haskell: cabal installs the packages of the directory the hook is       *)
(* relative to and the dependencies, of which there must be some.          *)

InstallHaskell(hook, m) ==
    IF /\ ".cabal" \in DOMAIN Source(hook) \/ hook.dependencies # <<>>
       /\ Named1(SystemDir(m), "cabal") # {}
       /\ Obtainable(Dependencies(hook), m)
    THEN {Environment(NewInfo(hook),
                      FromSource(hook, ".cabal", "none") \cup Theirs(Dependencies(hook), "none", m),
                      m.managed)}
    ELSE {}

HaskellHealthy(env, m) == TRUE
HaskellPath(env, m) == EnvThenSystem(env, m)

(* julia: a copy of the project that stands where the hook is, and the     *)
(* dependencies; the machine's julia runs the hook.                        *)

InstallJulia(hook, m) ==
    IF Present("julia", m) /\ Obtainable(Dependencies(hook), m)
    THEN {Environment(NewInfo(hook), {}, m.managed)} ELSE {}

JuliaHealthy(env, m) == Present("julia", m)

(* conda: the installer that is asked for, which must be there, or the     *)
(* first of the four that is.                                              *)

AutoOrder == <<"pixi", "micromamba", "mamba", "conda">>

ResolveInstaller(m) ==
    LET asked == CASE "PREK_CONDA_INSTALLER" \in DOMAIN m.settings -> m.settings["PREK_CONDA_INSTALLER"]
                   [] "PRE_COMMIT_USE_MICROMAMBA" \in m.vars       -> "micromamba"
                   [] "PRE_COMMIT_USE_MAMBA" \in m.vars            -> "mamba"
                   [] OTHER                                        -> "auto"
        order == CASE asked = "auto"            -> AutoOrder
                   [] asked \in Range(AutoOrder) -> <<asked>>
                   [] OTHER                     -> <<>>
    IN  FirstOf(order, LAMBDA i : Named1(SystemDir(m), i) # {})

InstallConda(hook, m) ==
    IF (Remote(hook) => "environment.yml" \in DOMAIN hook.repo.tree) /\ Obtainable(Dependencies(hook), m)
    THEN {Environment([NewInfo(hook) EXCEPT !.label = installer],
                      Ours(hook, "environment.yml", "none") \cup Theirs(Dependencies(hook), "none", m),
                      m.managed) : installer \in ResolveInstaller(m)}
    ELSE {}

\* the directory of the environment is there, and nothing removes it alone
CondaHealthy(env, m) == env.info.label \in Range(AutoOrder)
CondaPath(env, m) == EnvThenSystem(env, m)

(* coursier: the applications of the repository's channel and the          *)
(* dependencies.                                                           *)

CollectChannelApps(hook) == Ours(hook, ".pre-commit-channel", "none")

InstallCoursier(hook, m) ==
    IF /\ (Remote(hook) /\ ".pre-commit-channel" \in DOMAIN hook.repo.tree) \/ hook.dependencies # <<>>
       /\ Obtainable(Dependencies(hook), m)
    THEN {Environment(WithToolchain(hook, cs),
                      CollectChannelApps(hook) \cup Theirs(Dependencies(hook), "none", m), m.managed) :
              cs \in First(OnPath("cs", m), OnPath("coursier", m))}
    ELSE {}

CoursierHealthy(env, m) == TRUE
CoursierPath(env, m) == EnvThenSystem(env, m)

(* swift: a package of the repository is built.                            *)

InstallSwift(hook, m) ==
    {Environment(WithTool(hook, swift), Ours(hook, "Package.swift", "none"), m.managed) :
        swift \in OnPath("swift", m)}

SwiftHealthy(env, m) == At(env.info.toolchain, m) # {}
SwiftPath(env, m) == EnvThenSystem(env, m)

(* r: the locked project of the repository is restored, or a library of    *)
(* the dependencies made; the machine's Rscript loads it.                  *)

InstallR(hook, m) ==
    IF /\ Remote(hook) => "renv.lock" \in DOMAIN hook.repo.tree
       /\ Obtainable(Dependencies(hook), m)
    THEN {Environment(WithTool(hook, r), {}, m.managed) : r \in OnPath("Rscript", m)} ELSE {}

RHealthy(env, m) == \E r \in OnPath("Rscript", m) : r.version = env.info.version

\* Rscript and one expression, or Rscript and one file
ValidateREntry(entry) ==
    /\ Len(entry) >= 2
    /\ entry[1] = Bare("Rscript")
    /\ Len(entry) <= IF entry[2] = Bare("-e") THEN 3 ELSE 2

(* docker: the image of the repository is built when the hook is installed *)
(* and again before every run.                                             *)

RuntimeOrder == <<"docker", "podman", "container">>

ResolveRuntime(m) ==
    LET asked == IF "PREK_CONTAINER_RUNTIME" \in DOMAIN m.settings
                 THEN m.settings["PREK_CONTAINER_RUNTIME"] ELSE "auto"
        there == FirstOf(RuntimeOrder, LAMBDA r : Named1(SystemDir(m), r) # {})
    IN  IF asked \in Range(RuntimeOrder) THEN asked ELSE Or(there, "docker")

\* the image of a repository, under a tag that says what it was made from
BuildDockerImage(hook, m) ==
    IF Remote(hook) /\ Named1(SystemDir(m), ResolveRuntime(m)) # {} /\ "Dockerfile" \in DOMAIN hook.repo.tree
    THEN {FromSource(hook, "Dockerfile", "none")} ELSE {}

InstallDocker(hook, m) ==
    {Environment(NewInfo(hook), {}, m.managed) : image \in BuildDockerImage(hook, m)}

DockerHealthy(env, m) == TRUE

-----------------------------------------------------------------------------
(* Language::install, check_health and execution_environment.              *)

Install(hook, m) ==
    CASE hook.language = "bun"      -> InstallBun(hook, m)
      [] hook.language = "conda"    -> InstallConda(hook, m)
      [] hook.language = "coursier" -> InstallCoursier(hook, m)
      [] hook.language = "dart"     -> InstallDart(hook, m)
      [] hook.language = "deno"     -> InstallDeno(hook, m)
      [] hook.language = "docker"   -> InstallDocker(hook, m)
      [] hook.language = "dotnet"   -> InstallDotnet(hook, m)
      [] hook.language = "golang"   -> InstallGolang(hook, m)
      [] hook.language = "haskell"  -> InstallHaskell(hook, m)
      [] hook.language = "julia"    -> InstallJulia(hook, m)
      [] hook.language = "lua"      -> InstallLua(hook, m)
      [] hook.language = "mise"     -> InstallMise(hook, m)
      [] hook.language = "node"     -> InstallNode(hook, m)
      [] hook.language = "perl"     -> InstallPerl(hook, m)
      [] hook.language = "php"      -> InstallPhp(hook, m)
      [] hook.language = "pygrep"   -> InstallPygrep(hook, m)
      [] hook.language = "python"   -> InstallPython(hook, m)
      [] hook.language = "r"        -> InstallR(hook, m)
      [] hook.language = "ruby"     -> InstallRuby(hook, m)
      [] hook.language = "rust"     -> InstallRust(hook, m)
      [] hook.language = "swift"    -> InstallSwift(hook, m)

CheckHealth(env, m) ==
    CASE env.info.language = "bun"      -> BunHealthy(env, m)
      [] env.info.language = "conda"    -> CondaHealthy(env, m)
      [] env.info.language = "coursier" -> CoursierHealthy(env, m)
      [] env.info.language = "dart"     -> DartHealthy(env, m)
      [] env.info.language = "deno"     -> DenoHealthy(env, m)
      [] env.info.language = "docker"   -> DockerHealthy(env, m)
      [] env.info.language = "dotnet"   -> DotnetHealthy(env, m)
      [] env.info.language = "golang"   -> GolangHealthy(env, m)
      [] env.info.language = "haskell"  -> HaskellHealthy(env, m)
      [] env.info.language = "julia"    -> JuliaHealthy(env, m)
      [] env.info.language = "lua"      -> LuaHealthy(env, m)
      [] env.info.language = "mise"     -> MiseHealthy(env, m)
      [] env.info.language = "node"     -> NodeHealthy(env, m)
      [] env.info.language = "perl"     -> PerlHealthy(env, m)
      [] env.info.language = "php"      -> PhpHealthy(env, m)
      [] env.info.language = "pygrep"   -> PygrepHealthy(env, m)
      [] env.info.language = "python"   -> PythonHealthy(env, m)
      [] env.info.language = "r"        -> RHealthy(env, m)
      [] env.info.language = "ruby"     -> RubyHealthy(env, m)
      [] env.info.language = "rust"     -> RustHealthy(env, m)
      [] env.info.language = "swift"    -> SwiftHealthy(env, m)

\* the PATH a language gives the hook; the machine's where it gives none
LanguagePath(language, env, m) ==
    CASE language = "bun"      -> BunPath(env, m)
      [] language = "conda"    -> CondaPath(env, m)
      [] language = "coursier" -> CoursierPath(env, m)
      [] language = "dart"     -> DartPath(env, m)
      [] language = "deno"     -> DenoPath(env, m)
      [] language = "dotnet"   -> DotnetPath(env, m)
      [] language = "golang"   -> GolangPath(env, m)
      [] language = "haskell"  -> HaskellPath(env, m)
      [] language = "lua"      -> LuaPath(env, m)
      [] language = "mise"     -> MisePath(env, m)
      [] language = "node"     -> NodePath(env, m)
      [] language = "perl"     -> PerlPath(env, m)
      [] language = "php"      -> PhpPath(env, m)
      [] language = "python"   -> PythonPath(env, m)
      [] language = "ruby"     -> RubyPath(env, m)
      [] language = "rust"     -> RustPath(env, m)
      [] language = "swift"    -> SwiftPath(env, m)
      [] OTHER                 -> <<SystemDir(m)>>

-----------------------------------------------------------------------------
(* The execution of a hook: the file its first word is, and what the first *)
(* line of that file asks for, both looked up along the same path.         *)

\* ExecutionEnvironment::path: the hook's own PATH before the language's
PathOf(hook, env, m) ==
    IF "PATH" \in DOMAIN hook.env THEN <<hook.env["PATH"]>> ELSE LanguagePath(hook.language, env, m)

\* resolve_command: an interpreter that is not on the path is left to the system
ResolveCommand(found, path) ==
    [program |-> found, with |-> IF found.with = "none" THEN {} ELSE Find(path, found.with)]

\* a file of a tree that is run
FileOf(tree, owner, name) ==
    IF name \in DOMAIN tree THEN {Program(name, owner, tree[name].with)} ELSE {}

\* the first word of an entry: {} when there is no such file
FirstWord(hook, word, path) ==
    CASE word.at = "hook_repo" -> FileOf(Source(hook), Owner(hook), word.name)
      [] word.at = "cwd"       -> FileOf(hook.work, WorkTree, word.name)
      [] OTHER                 -> Find(path, word.name)

\* the default: HookEntry::resolve, for a shell its interpreter
RunCommand(hook, path) ==
    LET found == IF hook.shell = {} THEN FirstWord(hook, hook.entry[1], path)
                 ELSE Find(path, Some(hook.shell))
    IN  {ResolveCommand(f, path) : f \in found}

\* script: the first word is a file of the repository
RunScript(hook, path) ==
    IF hook.shell # {} THEN RunCommand(hook, path)
    ELSE {ResolveCommand(f, path) : f \in FileOf(Source(hook), Owner(hook), hook.entry[1].name)}

RunJulia(hook, m) ==
    {[program |-> julia, with |-> {}] : julia \in Find(<<SystemDir(m)>>, "julia")}

RunPygrep(hook, env, m) ==
    IF PygrepArgsValid(hook.args)
    THEN {[program |-> p, with |-> {}] : p \in Find(PygrepPath(env, m), "python")} ELSE {}

\* in the image that is built for the run
RunDocker(hook, m) ==
    UNION {{[program |-> p, with |-> {}] : p \in Named1(image, hook.entry[1].name)} :
               image \in BuildDockerImage(hook, m)}

\* any image; what is in it is not the hook's
RunDockerImage(hook, m) ==
    {[program |-> r, with |-> {}] : r \in Named1(SystemDir(m), ResolveRuntime(m))}

\* fail runs nothing
RunFail(hook) == {[program |-> Program("fail", Package("prek"), "none"), with |-> {}]}

\* what is executed for a hook: {} when nothing can be
Execute(hook, env, m) ==
    LET path == PathOf(hook, env, m)
        words == hook.shell # {} \/ Split(hook.entry) # {}
    IN  CASE hook.language = "fail"   -> RunFail(hook)
          [] hook.language = "pygrep" -> RunPygrep(hook, env, m)
          [] hook.language = "julia"  /\ words -> RunJulia(hook, m)
          [] hook.language = "docker" /\ words -> RunDocker(hook, m)
          [] hook.language = "docker_image" /\ words -> RunDockerImage(hook, m)
          [] hook.language = "script" /\ words -> RunScript(hook, path)
          [] hook.language = "r" /\ words ->
                 IF ValidateREntry(hook.entry) THEN RunCommand(hook, path) ELSE {}
          [] hook.language \in (SupportsShell \cup {"rust", "dart"}) \ {"script"} /\ words ->
                 RunCommand(hook, path)
          [] OTHER -> {}
=============================================================================
