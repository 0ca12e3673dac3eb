------------------------- MODULE EnvironmentsProofs -------------------------
(***************************************************************************)
(* Proofs that the hooks of every project, on every machine, are run in    *)
(* environments that serve them, and that no environment is built twice:   *)
(* first what the languages' installations and health checks promise of    *)
(* each other, then what the steps of a run do to the store.  A second     *)
(* invariant follows, of what the environments hold: that a hook is run    *)
(* with a toolchain it asked for, and runs its own program.                *)
(***************************************************************************)
EXTENDS Environments, WellFoundedInduction, TLAPS

\* What is known of a version request of rust.
RustStated(request) ==
    /\ request.kind \in {"any", "channel", "numbers", "range"}
    /\ request.kind = "channel" =>
           \E w \in {"stable", "beta", "nightly"} : request = [kind |-> "channel", w |-> w]

\* What is known of a hook that was built.
HookStated(hook) ==
    /\ hook.request.preference \in {"only-managed", "managed", "system", "only-system"}
    /\ hook.language \notin SupportsLanguageVersion => hook.request.version = AnyVersion
    /\ hook.language = "rust" => RustStated(hook.request.version)
    /\ hook.language = "dotnet" => hook.dependencies \in Seq(Range(hook.dependencies))

(***************************************************************************)
(* Health.                                                                 *)
(***************************************************************************)
\* Each language has its check.
LEMMA HealthOf ==
    ASSUME NEW env, NEW m
    PROVE  /\ env.info.language = "bun" => (CheckHealth(env, m) <=> BunHealthy(env, m))
           /\ env.info.language = "conda" => (CheckHealth(env, m) <=> CondaHealthy(env, m))
           /\ env.info.language = "coursier" => (CheckHealth(env, m) <=> CoursierHealthy(env, m))
           /\ env.info.language = "dart" => (CheckHealth(env, m) <=> DartHealthy(env, m))
           /\ env.info.language = "deno" => (CheckHealth(env, m) <=> DenoHealthy(env, m))
           /\ env.info.language = "docker" => (CheckHealth(env, m) <=> DockerHealthy(env, m))
           /\ env.info.language = "dotnet" => (CheckHealth(env, m) <=> DotnetHealthy(env, m))
           /\ env.info.language = "golang" => (CheckHealth(env, m) <=> GolangHealthy(env, m))
           /\ env.info.language = "haskell" => (CheckHealth(env, m) <=> HaskellHealthy(env, m))
           /\ env.info.language = "julia" => (CheckHealth(env, m) <=> JuliaHealthy(env, m))
           /\ env.info.language = "lua" => (CheckHealth(env, m) <=> LuaHealthy(env, m))
           /\ env.info.language = "mise" => (CheckHealth(env, m) <=> MiseHealthy(env, m))
           /\ env.info.language = "node" => (CheckHealth(env, m) <=> NodeHealthy(env, m))
           /\ env.info.language = "perl" => (CheckHealth(env, m) <=> PerlHealthy(env, m))
           /\ env.info.language = "php" => (CheckHealth(env, m) <=> PhpHealthy(env, m))
           /\ env.info.language = "pygrep" => (CheckHealth(env, m) <=> PygrepHealthy(env, m))
           /\ env.info.language = "python" => (CheckHealth(env, m) <=> PythonHealthy(env, m))
           /\ env.info.language = "r" => (CheckHealth(env, m) <=> RHealthy(env, m))
           /\ env.info.language = "ruby" => (CheckHealth(env, m) <=> RubyHealthy(env, m))
           /\ env.info.language = "rust" => (CheckHealth(env, m) <=> RustHealthy(env, m))
           /\ env.info.language = "swift" => (CheckHealth(env, m) <=> SwiftHealthy(env, m))
<1>1. env.info.language = "bun" => (CheckHealth(env, m) <=> BunHealthy(env, m))
  BY DEF CheckHealth
<1>2. env.info.language = "conda" => (CheckHealth(env, m) <=> CondaHealthy(env, m))
  BY DEF CheckHealth
<1>3. env.info.language = "coursier" => (CheckHealth(env, m) <=> CoursierHealthy(env, m))
  BY DEF CheckHealth
<1>4. env.info.language = "dart" => (CheckHealth(env, m) <=> DartHealthy(env, m))
  BY DEF CheckHealth
<1>5. env.info.language = "deno" => (CheckHealth(env, m) <=> DenoHealthy(env, m))
  BY DEF CheckHealth
<1>6. env.info.language = "docker" => (CheckHealth(env, m) <=> DockerHealthy(env, m))
  BY DEF CheckHealth
<1>7. env.info.language = "dotnet" => (CheckHealth(env, m) <=> DotnetHealthy(env, m))
  BY DEF CheckHealth
<1>8. env.info.language = "golang" => (CheckHealth(env, m) <=> GolangHealthy(env, m))
  BY DEF CheckHealth
<1>9. env.info.language = "haskell" => (CheckHealth(env, m) <=> HaskellHealthy(env, m))
  BY DEF CheckHealth
<1>10. env.info.language = "julia" => (CheckHealth(env, m) <=> JuliaHealthy(env, m))
  BY DEF CheckHealth
<1>11. env.info.language = "lua" => (CheckHealth(env, m) <=> LuaHealthy(env, m))
  BY DEF CheckHealth
<1>12. env.info.language = "mise" => (CheckHealth(env, m) <=> MiseHealthy(env, m))
  BY DEF CheckHealth
<1>13. env.info.language = "node" => (CheckHealth(env, m) <=> NodeHealthy(env, m))
  BY DEF CheckHealth
<1>14. env.info.language = "perl" => (CheckHealth(env, m) <=> PerlHealthy(env, m))
  BY DEF CheckHealth
<1>15. env.info.language = "php" => (CheckHealth(env, m) <=> PhpHealthy(env, m))
  BY DEF CheckHealth
<1>16. env.info.language = "pygrep" => (CheckHealth(env, m) <=> PygrepHealthy(env, m))
  BY DEF CheckHealth
<1>17. env.info.language = "python" => (CheckHealth(env, m) <=> PythonHealthy(env, m))
  BY DEF CheckHealth
<1>18. env.info.language = "r" => (CheckHealth(env, m) <=> RHealthy(env, m))
  BY DEF CheckHealth
<1>19. env.info.language = "ruby" => (CheckHealth(env, m) <=> RubyHealthy(env, m))
  BY DEF CheckHealth
<1>20. env.info.language = "rust" => (CheckHealth(env, m) <=> RustHealthy(env, m))
  BY DEF CheckHealth
<1>21. env.info.language = "swift" => (CheckHealth(env, m) <=> SwiftHealthy(env, m))
  BY DEF CheckHealth
<1> QED BY <1>1, <1>2, <1>3, <1>4, <1>5, <1>6, <1>7, <1>8, <1>9, <1>10, <1>11, <1>12, <1>13, <1>14, <1>15, <1>16, <1>17, <1>18, <1>19, <1>20, <1>21

LEMMA HealthKept ==
    ASSUME NEW env, NEW m, NEW tools, MachineStated(m),
           env.info.language \in SupportsInstallEnv,
           \A t \in m.managed : InStore(t) = env.info.toolchain => t \in tools,
           CheckHealth(env, m)
    PROVE  CheckHealth(env, [m EXCEPT !.managed = tools])
<1> DEFINE n == [m EXCEPT !.managed = tools]
<1>1. n.system = m.system /\ n.managed = tools
  BY DEF MachineStated
<1>2. At(env.info.toolchain, m) \subseteq At(env.info.toolchain, n)
  BY <1>1 DEF At
<1>3. OnPath("julia", n) = OnPath("julia", m) /\ OnPath("Rscript", n) = OnPath("Rscript", m)
  BY <1>1 DEF OnPath
<1>4. SameVersion(env.info, m) => SameVersion(env.info, n)
  BY <1>2 DEF SameVersion
<1> HIDE DEF n
<1>5. /\ BunHealthy(env, m) => BunHealthy(env, n)
      /\ CondaHealthy(env, m) => CondaHealthy(env, n)
      /\ CoursierHealthy(env, m) => CoursierHealthy(env, n)
      /\ DartHealthy(env, m) => DartHealthy(env, n)
      /\ DenoHealthy(env, m) => DenoHealthy(env, n)
      /\ DockerHealthy(env, m) => DockerHealthy(env, n)
      /\ GolangHealthy(env, m) => GolangHealthy(env, n)
      /\ HaskellHealthy(env, m) => HaskellHealthy(env, n)
      /\ JuliaHealthy(env, m) => JuliaHealthy(env, n)
      /\ LuaHealthy(env, m) => LuaHealthy(env, n)
      /\ MiseHealthy(env, m) => MiseHealthy(env, n)
      /\ NodeHealthy(env, m) => NodeHealthy(env, n)
      /\ PerlHealthy(env, m) => PerlHealthy(env, n)
      /\ PhpHealthy(env, m) => PhpHealthy(env, n)
      /\ PygrepHealthy(env, m) => PygrepHealthy(env, n)
      /\ PythonHealthy(env, m) => PythonHealthy(env, n)
      /\ RHealthy(env, m) => RHealthy(env, n)
      /\ RubyHealthy(env, m) => RubyHealthy(env, n)
      /\ RustHealthy(env, m) => RustHealthy(env, n)
      /\ SwiftHealthy(env, m) => SwiftHealthy(env, n)
  BY <1>2, <1>3, <1>4
     DEF BunHealthy, CondaHealthy, CoursierHealthy, DartHealthy, DenoHealthy, DockerHealthy,
         GolangHealthy, HaskellHealthy, JuliaHealthy, LuaHealthy, MiseHealthy, NodeHealthy,
         PerlHealthy, PhpHealthy, PygrepHealthy, PythonHealthy, RHealthy, RubyHealthy,
         RustHealthy, SwiftHealthy, Present
<1>6. DotnetHealthy(env, m) => DotnetHealthy(env, n)
  BY <1>2 DEF DotnetHealthy
<1>7. env.info.language \in
        {"bun", "conda", "coursier", "dart", "deno", "docker", "dotnet", "golang", "haskell",
         "julia", "lua", "mise", "node", "perl", "php", "pygrep", "python", "r", "ruby", "rust",
         "swift"}
  BY DEF SupportsInstallEnv, Languages
<1>8. CheckHealth(env, n)
  BY <1>5, <1>6, <1>7, HealthOf, SMTT(60)
<1> QED BY <1>8 DEF n

(***************************************************************************)
(* What is provided.                                                       *)
(***************************************************************************)
\* What an installer found: a tool the request accepts, and where it stands.
Provided(found, tool, hook, m) ==
    /\ found = [tool |-> found.tool, at |-> found.at]
    /\ found.tool.tool = tool
    /\ Matches(hook.request.version, found.tool.version, found.tool.label)
    /\ \/ found.at = OnSystem(found.tool) /\ found.tool \in m.system
       \/ found.at = InStore(found.tool) /\ found.tool \in m.managed \cup m.published

LEMMA ProvideGives ==
    ASSUME NEW tool, NEW hook, NEW m, NEW found \in Provide(tool, hook, m), HookStated(hook)
    PROVE  Provided(found, tool, hook, m)
<1> DEFINE request == hook.request.version
           fit(ts) == {t \in ts : t.tool = tool /\ Matches(request, t.version, t.label)}
           place   == FirstOf(SearchOrder(hook.request.preference), LAMBDA p : fit(m[p]) # {})
           offers  == {t \in fit(m.published) : Downloadable(request, t)}
           of(t, p) == [tool |-> t, at |-> IF p = "system" THEN OnSystem(t) ELSE InStore(t)]
<1>1. place \subseteq {"system", "managed"}
  BY DEF FirstOf, SearchOrder, HookStated
<1>2. CASE \E t \in Newest(offers) : found = of(t, "managed")
  <2>1. PICK t \in offers : found = of(t, "managed")
    BY <1>2 DEF Newest
  <2> QED BY <2>1 DEF Provided
<1>3. CASE \E p \in place : \E t \in Newest(fit(m[p])) : found = of(t, p)
  <2>1. PICK p \in {"system", "managed"} : \E t \in fit(m[p]) : found = of(t, p)
    BY <1>1, <1>3 DEF Newest
  <2>2. PICK t \in fit(m[p]) : found = of(t, p)
    BY <2>1
  <2>3. CASE p = "system"
    BY <2>2, <2>3 DEF Provided
  <2>4. CASE p = "managed"
    BY <2>2, <2>4 DEF Provided
  <2> QED BY <2>3, <2>4
<1>4. \/ \E t \in Newest(offers) : found = of(t, "managed")
      \/ \E p \in place : \E t \in Newest(fit(m[p])) : found = of(t, p)
  BY DEF Provide
<1> QED BY <1>2, <1>3, <1>4

\* A toolchain that was provided is where it was found, and the store has grown by
\* no more than what is published.
LEMMA ProvidedIsThere ==
    ASSUME NEW tool, NEW hook, NEW m, NEW found, Provided(found, tool, hook, m), MachineStated(m)
    PROVE  /\ Kept(found, m) \subseteq m.managed \cup m.published
           /\ found.tool \in At(found.at, [m EXCEPT !.managed = @ \cup Kept(found, m)])
<1> DEFINE n == [m EXCEPT !.managed = @ \cup Kept(found, m)]
<1>1. n.system = m.system /\ n.managed = m.managed \cup Kept(found, m)
  BY DEF MachineStated
<1> HIDE DEF n
<1>2. \/ found.at = OnSystem(found.tool) /\ found.tool \in m.system
      \/ found.at = InStore(found.tool) /\ found.tool \in m.managed \cup m.published
  BY DEF Provided
<1>3. CASE found.at = OnSystem(found.tool) /\ found.tool \in m.system
  BY <1>1, <1>3 DEF At, OnSystem, Kept, n
<1>4. CASE found.at = InStore(found.tool) /\ found.tool \in m.managed \cup m.published
  <2>1. found.at.place = "managed" /\ found.tool \in Kept(found, m)
    BY <1>4 DEF InStore, Kept
  <2>2. found.tool \in At(found.at, n)
    BY <1>1, <1>4, <2>1 DEF At
  <2> QED BY <1>4, <2>2 DEF Kept, n
<1> QED BY <1>2, <1>3, <1>4

\* An environment that was recorded with what was provided satisfies its hook, and
\* the toolchain is there in the version that is recorded.
LEMMA RecordedServes ==
    ASSUME NEW tool, NEW hook, NEW m, NEW found, Provided(found, tool, hook, m), MachineStated(m),
           NEW env, env.info = Recorded(hook, found), env.managed = Kept(found, m)
    PROVE  /\ hook.language # "rust" => IsSatisfiedBy(Requirement(hook), env.info)
           /\ env.managed \subseteq m.managed \cup m.published
           /\ env.info.language = hook.language
           /\ env.info.version = found.tool.version
           /\ SameVersion(env.info, [m EXCEPT !.managed = @ \cup env.managed])
<1>1. /\ env.info.schema = CurrentSchema /\ env.info.language = hook.language
      /\ env.info.repo = hook.repo.identity /\ env.info.dependencies = hook.dependencies
      /\ env.info.toolchain = found.at /\ env.info.version = found.tool.version
      /\ env.info.label = found.tool.label
  BY DEF Recorded, NewInfo
<1>2. hook.language # "rust" => IsSatisfiedBy(Requirement(hook), env.info)
  BY <1>1 DEF IsSatisfiedBy, Requirement, SatisfiedBy, Provided
<1>3. SameVersion(env.info, [m EXCEPT !.managed = @ \cup env.managed])
  BY <1>1, ProvidedIsThere DEF SameVersion
<1> QED BY <1>1, <1>2, <1>3, ProvidedIsThere

\* The languages without version requests accept every environment of their hook.
LEMMA UnversionedServes ==
    ASSUME NEW hook, NEW info, HookStated(hook), hook.language \notin SupportsLanguageVersion,
           info.schema = CurrentSchema, info.language = hook.language,
           info.repo = hook.repo.identity, info.dependencies = hook.dependencies
    PROVE  IsSatisfiedBy(Requirement(hook), info)
<1>1. hook.language # "rust" /\ hook.request.version = AnyVersion
  BY DEF HookStated, SupportsLanguageVersion
<1>2. Matches(AnyVersion, info.version, info.label)
  BY DEF Matches, AnyVersion
<1> QED BY <1>1, <1>2 DEF IsSatisfiedBy, Requirement, SatisfiedBy

\* What installing a hook promises of the environment.
Serves(env, hook, m) ==
    /\ IsSatisfiedBy(Requirement(hook), env.info)
    /\ env.info.language = hook.language
    /\ env.managed \subseteq m.managed \cup m.published
    /\ CheckHealth(env, [m EXCEPT !.managed = @ \cup env.managed])

LEMMA ProvidedServes ==
    ASSUME NEW tool, NEW hook, NEW m, NEW found \in Provide(tool, hook, m), MachineStated(m),
           HookStated(hook), hook.language # "rust",
           NEW env, env.info = Recorded(hook, found), env.managed = Kept(found, m),
           SameVersion(env.info, [m EXCEPT !.managed = @ \cup env.managed])
               => CheckHealth(env, [m EXCEPT !.managed = @ \cup env.managed])
    PROVE  Serves(env, hook, m)
BY ProvideGives, RecordedServes DEF Serves

LEMMA VersionedInstallServes ==
    ASSUME NEW hook, NEW m, MachineStated(m), HookStated(hook),
           hook.language \in SupportsLanguageVersion \ {"rust", "mise"},
           NEW env \in Install(hook, m)
    PROVE  Serves(env, hook, m)
<1> DEFINE n == [m EXCEPT !.managed = @ \cup env.managed]
           RecordedWith(found) == env.info = Recorded(hook, found) /\ env.managed = Kept(found, m)
<1>0. \A found : RecordedWith(found) => env.info.language = hook.language
  BY DEF Recorded, NewInfo
<1>1. CASE hook.language = "node"
  <2>1. env \in InstallNode(hook, m)
    BY <1>1 DEF Install
  <2>2. PICK found \in Provide("node", hook, m) : RecordedWith(found)
    BY <2>1 DEF InstallNode, Built, Environment
  <2>3. RecordedWith(found)
    BY <2>2
  <2>6. SameVersion(env.info, n) => NodeHealthy(env, n)
    BY <2>3 DEF NodeHealthy
  <2>7. SameVersion(env.info, n) => CheckHealth(env, n)
    BY <1>0, <1>1, <2>3, <2>6, HealthOf
  <2> QED BY <1>1, <2>3, <2>7, ProvidedServes
<1>2. CASE hook.language = "bun"
  <2>1. env \in InstallBun(hook, m)
    BY <1>2 DEF Install
  <2>2. PICK found \in Provide("bun", hook, m) : RecordedWith(found)
    BY <2>1 DEF InstallBun, Built, Environment
  <2>3. RecordedWith(found)
    BY <2>2
  <2>6. SameVersion(env.info, n) => BunHealthy(env, n)
    BY <2>3 DEF BunHealthy
  <2>7. SameVersion(env.info, n) => CheckHealth(env, n)
    BY <1>0, <1>2, <2>3, <2>6, HealthOf
  <2> QED BY <1>2, <2>3, <2>7, ProvidedServes
<1>3. CASE hook.language = "deno"
  <2>1. env \in InstallDeno(hook, m)
    BY <1>3 DEF Install
  <2>2. PICK found \in Provide("deno", hook, m) : RecordedWith(found)
    BY <2>1 DEF InstallDeno, Environment
  <2>3. RecordedWith(found)
    BY <2>2
  <2>6. SameVersion(env.info, n) => DenoHealthy(env, n)
    BY <2>3 DEF DenoHealthy
  <2>7. SameVersion(env.info, n) => CheckHealth(env, n)
    BY <1>0, <1>3, <2>3, <2>6, HealthOf
  <2> QED BY <1>3, <2>3, <2>7, ProvidedServes
<1>4. CASE hook.language = "dotnet"
  <2>1. env \in InstallDotnet(hook, m)
    BY <1>4 DEF Install
  <2>2. PICK found \in Provide("dotnet", hook, m) : \E programs :
          env = Environment(Recorded(hook, found), programs, Kept(found, m))
    <3> DEFINE last == {hook.dependencies[i] : i \in {j \in DOMAIN hook.dependencies :
                                                        InstallTool(hook.dependencies, j)}}
    <3>1. env \in {Environment(Recorded(hook, found), Theirs(last, "dotnet", m), Kept(found, m)) :
                      found \in IF Obtainable(last, m) THEN Provide("dotnet", hook, m) ELSE {}}
      BY <2>1 DEF InstallDotnet
    <3> HIDE DEF last
    <3> QED BY <3>1
  <2>3. RecordedWith(found)
    BY <2>2 DEF Environment
  <2>6. SameVersion(env.info, n) => DotnetHealthy(env, n)
    BY <2>3 DEF DotnetHealthy, SameVersion
  <2>7. SameVersion(env.info, n) => CheckHealth(env, n)
    BY <1>0, <1>4, <2>3, <2>6, HealthOf
  <2> QED BY <1>4, <2>3, <2>7, ProvidedServes
<1>5. CASE hook.language = "golang"
  <2>1. env \in InstallGolang(hook, m)
    BY <1>5 DEF Install
  <2>2. PICK found \in Provide("go", hook, m) : RecordedWith(found)
    BY <2>1 DEF InstallGolang, Built, Environment
  <2>3. RecordedWith(found)
    BY <2>2
  <2>6. SameVersion(env.info, n) => GolangHealthy(env, n)
    BY <2>3 DEF GolangHealthy
  <2>7. SameVersion(env.info, n) => CheckHealth(env, n)
    BY <1>0, <1>5, <2>3, <2>6, HealthOf
  <2> QED BY <1>5, <2>3, <2>7, ProvidedServes
<1>6. CASE hook.language = "python"
  <2>1. env \in InstallPython(hook, m)
    BY <1>6 DEF Install
  <2>2. PICK found \in Provide("python", hook, m) :
          \E made \in Built(hook, found, "pyproject.toml", "python", m) :
             env = [made EXCEPT !.programs = @ \cup {Program("python", found.at, "none")}]
    BY <2>1 DEF InstallPython
  <2>3. RecordedWith(found)
    BY <2>2 DEF Built, Environment
  <2>6. SameVersion(env.info, n) => PythonHealthy(env, n)
    BY <2>3 DEF PythonHealthy
  <2>7. SameVersion(env.info, n) => CheckHealth(env, n)
    BY <1>0, <1>6, <2>3, <2>6, HealthOf
  <2> QED BY <1>6, <2>3, <2>7, ProvidedServes
<1>7. CASE hook.language = "ruby"
  <2>1. env \in InstallRuby(hook, m)
    BY <1>7 DEF Install
  <2>2. PICK found \in Provide("ruby", hook, m) :
          env = Environment(Recorded(hook, found),
                            InstallGems(hook, m) \cup {Program("ruby", found.at, "none")}, Kept(found, m))
    BY <2>1 DEF InstallRuby
  <2>3. RecordedWith(found)
    BY <2>2 DEF Environment
  <2>4. Program("ruby", found.at, "none") \in env.programs
    BY <2>2 DEF Environment
  <2>5. Named1(env.programs, "ruby") # {}
    BY <2>4 DEF Named1, Program
  <2>6. SameVersion(env.info, n) => RubyHealthy(env, n)
    BY <2>3, <2>5 DEF RubyHealthy
  <2>7. SameVersion(env.info, n) => CheckHealth(env, n)
    BY <1>0, <1>7, <2>3, <2>6, HealthOf
  <2> QED BY <1>7, <2>3, <2>7, ProvidedServes
<1> QED BY <1>1, <1>2, <1>3, <1>4, <1>5, <1>6, <1>7 DEF SupportsLanguageVersion

LEMMA MiseInstallServes ==
    ASSUME NEW hook, NEW m, MachineStated(m), HookStated(hook), hook.language = "mise",
           NEW env \in Install(hook, m)
    PROVE  Serves(env, hook, m)
<1> DEFINE n == [m EXCEPT !.managed = @ \cup env.managed]
           supported(ts) == {t \in ts : t.tool = "mise" => ~Smaller(t.version, OldestMise)}
           usable == [m EXCEPT !.system = supported(@), !.managed = supported(@), !.published = supported(@)]
<1>1. env \in InstallMise(hook, m)
  BY DEF Install
<1>2. env \in UNION {BuiltOfDependencies(hook, found, "none", m) : found \in Provide("mise", hook, usable)}
  BY <1>1 DEF InstallMise
<1>3. /\ usable.system = supported(m.system) /\ usable.managed = supported(m.managed)
      /\ usable.published = supported(m.published)
  BY DEF MachineStated
<1> HIDE DEF usable
<1>4. PICK found \in Provide("mise", hook, usable) :
         env.info = Recorded(hook, found) /\ env.managed = Kept(found, m)
  BY <1>2 DEF BuiltOfDependencies, Environment
<1>5. Provided(found, "mise", hook, m) /\ ~Smaller(found.tool.version, OldestMise)
  <2>1. Provided(found, "mise", hook, usable)
    BY ProvideGives
  <2> QED BY <1>3, <2>1 DEF Provided
<1>6. /\ IsSatisfiedBy(Requirement(hook), env.info) /\ env.info.language = "mise"
      /\ env.managed \subseteq m.managed \cup m.published
      /\ env.info.version = found.tool.version /\ SameVersion(env.info, n)
  BY <1>4, <1>5, RecordedServes
<1>7. MiseHealthy(env, n)
  BY <1>5, <1>6 DEF MiseHealthy
<1> QED BY <1>6, <1>7, HealthOf DEF Serves

\* rust: the label is the one the request names, or else tells that none was named.
LEMMA RustInstallServes ==
    ASSUME NEW hook, NEW m, MachineStated(m), HookStated(hook), hook.language = "rust",
           NEW env \in Install(hook, m)
    PROVE  Serves(env, hook, m)
<1> DEFINE request == hook.request.version
<1>1. env \in InstallRust(hook, m)
  BY DEF Install
<1>2. PICK found \in Provide("rust", hook, m) :
         /\ env.info = [Recorded(hook, found) EXCEPT !.label = RustLabel(hook, found)]
         /\ env.managed = Kept(found, m)
  BY <1>1 DEF InstallRust, Environment
<1>3. /\ env.info.schema = CurrentSchema /\ env.info.language = hook.language
      /\ env.info.repo = hook.repo.identity /\ env.info.dependencies = hook.dependencies
      /\ env.info.version = found.tool.version /\ env.info.label = RustLabel(hook, found)
  BY <1>2 DEF Recorded, NewInfo
<1>4. Provided(found, "rust", hook, m)
  BY ProvideGives
<1>5. found.tool.version[1] > 0
  BY <1>4 DEF Provided, MachineStated
<1>6. Matches(request, found.tool.version, found.tool.label)
  BY <1>4 DEF Provided
<1>7. RustSatisfiedBy(request, env.info)
  <2>1. CASE request.kind = "any"
    BY <1>3, <1>5, <2>1 DEF RustSatisfiedBy
  <2>2. CASE request.kind = "channel"
    BY <1>3, <2>2 DEF RustSatisfiedBy, RustLabel, Matches
  <2>3. CASE request.kind = "numbers"
    BY <1>3, <1>6, <2>3 DEF RustSatisfiedBy, Matches
  <2>4. CASE request.kind = "range"
    BY <1>3, <1>6, <2>4 DEF RustSatisfiedBy, Matches
  <2> QED BY <2>1, <2>2, <2>3, <2>4 DEF HookStated, RustStated
<1>8. IsSatisfiedBy(Requirement(hook), env.info)
  BY <1>3, <1>7 DEF IsSatisfiedBy, Requirement, SatisfiedBy
<1>9. env.managed \subseteq m.managed \cup m.published
  <2>1. Kept(found, m) \subseteq m.managed \cup m.published
    BY <1>4, ProvidedIsThere
  <2> QED BY <1>2, <2>1
<1> QED BY <1>3, <1>8, <1>9, HealthOf DEF Serves, RustHealthy

LEMMA ResolvedInstaller == ASSUME NEW m PROVE ResolveInstaller(m) \subseteq Range(AutoOrder)
<1> DEFINE first(order) == FirstOf(order, LAMBDA i : Named1(SystemDir(m), i) # {})
<1>1. \A order : first(order) \subseteq Range(order)
  BY DEF FirstOf, Range
<1>2. \A asked \in Range(AutoOrder) : Range(<<asked>>) \subseteq Range(AutoOrder)
  BY DEF Range
<1>3. Range(<<>>) = {}
  BY DEF Range
<1> DEFINE asked == CASE "PREK_CONDA_INSTALLER" \in DOMAIN m.settings -> m.settings["PREK_CONDA_INSTALLER"]
                      [] "PRE_COMMIT_USE_MICROMAMBA" \in m.vars       -> "micromamba"
                      [] "PRE_COMMIT_USE_MAMBA" \in m.vars            -> "mamba"
                      [] OTHER                                        -> "auto"
           order == CASE asked = "auto"            -> AutoOrder
                      [] asked \in Range(AutoOrder) -> <<asked>>
                      [] OTHER                     -> <<>>
<1>4. ResolveInstaller(m) = first(order)
  BY DEF ResolveInstaller
<1> HIDE DEF first, asked
<1>5. Range(order) \subseteq Range(AutoOrder)
  BY <1>2, <1>3
<1> QED BY <1>1, <1>4, <1>5

\* pygrep takes any python there is, or one that is published.
LEMMA ProvidedPygrep ==
    ASSUME NEW hook, NEW m, HookStated(hook), hook.language = "pygrep", NEW env \in InstallPygrep(hook, m)
    PROVE  \E found : /\ env.info = [NewInfo(hook) EXCEPT !.toolchain = found.at]
                      /\ env.managed = Kept(found, m)
                      /\ Provided(found, "python", hook, m)
<1> DEFINE pythons(ts) == {t \in ts : t.tool = "python"}
           offers   == {t \in pythons(m.published) : IsPrefix(PygrepVersion, t.version)}
           stored   == {[tool |-> t, at |-> InStore(t)] : t \in pythons(m.managed)}
           external == {[tool |-> t, at |-> OnSystem(t)] : t \in pythons(m.system)}
           fetched  == {[tool |-> t, at |-> InStore(t)] : t \in Newest(offers)}
<1>1. PICK found \in First(stored, First(external, fetched)) :
         env = Environment([NewInfo(hook) EXCEPT !.toolchain = found.at], {}, Kept(found, m))
  BY DEF InstallPygrep
<1>2. hook.request.version = AnyVersion
  BY DEF HookStated, SupportsLanguageVersion
<1>3. Matches(hook.request.version, found.tool.version, found.tool.label)
  BY <1>2 DEF Matches, AnyVersion
<1>4. found \in stored \/ found \in external \/ found \in fetched
  BY DEF First
<1>5. Provided(found, "python", hook, m)
  <2>1. CASE found \in stored
    BY <1>3, <2>1 DEF Provided
  <2>2. CASE found \in external
    BY <1>3, <2>2 DEF Provided
  <2>3. CASE found \in fetched
    BY <1>3, <2>3 DEF Provided, Newest
  <2> QED BY <1>4, <2>1, <2>2, <2>3
<1> QED BY <1>1, <1>5 DEF Environment

\* A tool of the machine is there, whatever prek keeps.
LEMMA OnPathStays ==
    ASSUME NEW tool, NEW m, MachineStated(m), NEW tools
    PROVE  LET n == [m EXCEPT !.managed = tools]
           IN  /\ OnPath(tool, n) = OnPath(tool, m)
               /\ \A t \in OnPath(tool, m) : t \in At(OnSystem(t), n)
<1> DEFINE n == [m EXCEPT !.managed = tools]
<1>1. n.system = m.system
  BY DEF MachineStated
<1> HIDE DEF n
<1>2. OnPath(tool, n) = OnPath(tool, m)
  BY <1>1 DEF OnPath
<1>3. \A t \in OnPath(tool, m) : t \in At(OnSystem(t), n)
  BY <1>1 DEF OnPath, At, OnSystem
<1> QED BY <1>2, <1>3 DEF n

LEMMA UnversionedInstallServes ==
    ASSUME NEW hook, NEW m, MachineStated(m), HookStated(hook),
           hook.language \in SupportsInstallEnv \ SupportsLanguageVersion,
           NEW env \in Install(hook, m)
    PROVE  Serves(env, hook, m)
<1> DEFINE n == [m EXCEPT !.managed = @ \cup env.managed]
           IsOf(info) == /\ info.schema = CurrentSchema /\ info.language = hook.language
                         /\ info.repo = hook.repo.identity /\ info.dependencies = hook.dependencies
<1>1. IsOf(NewInfo(hook)) /\ NewInfo(hook) = [f \in DOMAIN NewInfo(hook) |-> NewInfo(hook)[f]]
  BY DEF NewInfo
<1>2. \A t : /\ IsOf(WithToolchain(hook, t)) /\ WithToolchain(hook, t).toolchain = OnSystem(t)
             /\ IsOf(WithTool(hook, t)) /\ WithTool(hook, t).toolchain = OnSystem(t)
             /\ WithTool(hook, t).version = t.version
  BY DEF NewInfo, WithToolchain, WithTool
<1>3. ASSUME IsOf(env.info), env.managed \subseteq m.managed \cup m.published, CheckHealth(env, n)
      PROVE  Serves(env, hook, m)
  BY <1>3, UnversionedServes DEF Serves
<1>4. \A tool : OnPath(tool, n) = OnPath(tool, m) /\ \A t \in OnPath(tool, m) : t \in At(OnSystem(t), n)
  BY OnPathStays
<1> HIDE DEF n
<1>5. CASE hook.language = "conda"
  <2>1. env \in InstallConda(hook, m)
    BY <1>5 DEF Install
  <2>2. PICK installer \in ResolveInstaller(m) :
            env.info = [NewInfo(hook) EXCEPT !.label = installer] /\ env.managed = m.managed
    BY <2>1 DEF InstallConda, Environment
  <2>3. IsOf(env.info) /\ env.info.label = installer
    BY <2>2 DEF NewInfo
  <2>4. CondaHealthy(env, n)
    BY <2>3, ResolvedInstaller DEF CondaHealthy
  <2> QED BY <1>1, <1>2, <1>3, <1>5, <2>2, <2>3, <2>4, HealthOf
<1>6. CASE hook.language = "coursier"
  <2>1. env \in InstallCoursier(hook, m)
    BY <1>6 DEF Install
  <2>2. PICK t : env.info = WithToolchain(hook, t) /\ env.managed = m.managed
    BY <2>1 DEF InstallCoursier, Environment
  <2>3. CoursierHealthy(env, n)
    BY DEF CoursierHealthy
  <2> QED BY <1>1, <1>2, <1>3, <1>6, <2>2, <2>3, HealthOf
<1>7. CASE hook.language = "dart"
  <2>1. env \in InstallDart(hook, m)
    BY <1>7 DEF Install
  <2>2. PICK t \in OnPath("dart", m) : env.info = WithToolchain(hook, t) /\ env.managed = m.managed
    BY <2>1 DEF InstallDart, Environment
  <2>3. DartHealthy(env, n)
    BY <1>2, <1>4, <2>2 DEF DartHealthy
  <2> QED BY <1>1, <1>2, <1>3, <1>7, <2>2, <2>3, HealthOf
<1>8. CASE hook.language = "docker"
  <2>1. env \in InstallDocker(hook, m)
    BY <1>8 DEF Install
  <2>2. env.info = NewInfo(hook) /\ env.managed = m.managed
    BY <2>1 DEF InstallDocker, Environment
  <2>3. DockerHealthy(env, n)
    BY DEF DockerHealthy
  <2> QED BY <1>1, <1>2, <1>3, <1>8, <2>2, <2>3, HealthOf
<1>9. CASE hook.language = "haskell"
  <2>1. env \in InstallHaskell(hook, m)
    BY <1>9 DEF Install
  <2>2. env.info = NewInfo(hook) /\ env.managed = m.managed
    BY <2>1 DEF InstallHaskell, Environment
  <2>3. HaskellHealthy(env, n)
    BY DEF HaskellHealthy
  <2> QED BY <1>1, <1>2, <1>3, <1>9, <2>2, <2>3, HealthOf
<1>10. CASE hook.language = "julia"
  <2>1. env \in InstallJulia(hook, m)
    BY <1>10 DEF Install
  <2>2. env.info = NewInfo(hook) /\ env.managed = m.managed
    BY <2>1 DEF InstallJulia, Environment
  <2>3. JuliaHealthy(env, n)
    BY <1>4, <2>1 DEF InstallJulia, JuliaHealthy, Present
  <2> QED BY <1>1, <1>2, <1>3, <1>10, <2>2, <2>3, HealthOf
<1>11. CASE hook.language = "lua"
  <2>1. env \in InstallLua(hook, m)
    BY <1>11 DEF Install
  <2>2. PICK t \in OnPath("lua", m) : env.info = WithTool(hook, t) /\ env.managed = m.managed
    BY <2>1 DEF InstallLua, Environment
  <2>3. LuaHealthy(env, n)
    BY <1>2, <1>4, <2>2 DEF LuaHealthy, SameVersion
  <2> QED BY <1>1, <1>2, <1>3, <1>11, <2>2, <2>3, HealthOf
<1>12. CASE hook.language = "perl"
  <2>1. env \in InstallPerl(hook, m)
    BY <1>12 DEF Install
  <2>2. env.info = NewInfo(hook) /\ env.managed = m.managed
    BY <2>1 DEF InstallPerl, Environment
  <2>3. PerlHealthy(env, n)
    BY DEF PerlHealthy
  <2> QED BY <1>1, <1>2, <1>3, <1>12, <2>2, <2>3, HealthOf
<1>13. CASE hook.language = "php"
  <2>1. env \in InstallPhp(hook, m)
    BY <1>13 DEF Install
  <2>2. PICK t \in OnPath("php", m) : env.info = WithTool(hook, t) /\ env.managed = m.managed
    BY <2>1 DEF InstallPhp, Environment
  <2>3. PhpHealthy(env, n)
    BY <1>2, <1>4, <2>2 DEF PhpHealthy, SameVersion
  <2> QED BY <1>1, <1>2, <1>3, <1>13, <2>2, <2>3, HealthOf
<1>14. CASE hook.language = "pygrep"
  <2>1. env \in InstallPygrep(hook, m)
    BY <1>14 DEF Install
  <2>2. PICK found : /\ env.info = [NewInfo(hook) EXCEPT !.toolchain = found.at]
                     /\ env.managed = Kept(found, m)
                     /\ Provided(found, "python", hook, m)
    BY <1>14, <2>1, ProvidedPygrep
  <2>3. IsOf(env.info) /\ env.info.toolchain = found.at
    BY <2>2 DEF NewInfo
  <2>4. env.managed \subseteq m.managed \cup m.published /\ found.tool \in At(found.at, n)
    BY <2>2, ProvidedIsThere DEF n
  <2>5. PygrepHealthy(env, n)
    BY <2>3, <2>4 DEF PygrepHealthy
  <2> QED BY <1>1, <1>2, <1>3, <1>14, <2>3, <2>4, <2>5, HealthOf
<1>15. CASE hook.language = "r"
  <2>1. env \in InstallR(hook, m)
    BY <1>15 DEF Install
  <2>2. PICK t \in OnPath("Rscript", m) : env.info = WithTool(hook, t) /\ env.managed = m.managed
    BY <2>1 DEF InstallR, Environment
  <2>3. RHealthy(env, n)
    BY <1>2, <1>4, <2>2 DEF RHealthy
  <2> QED BY <1>1, <1>2, <1>3, <1>15, <2>2, <2>3, HealthOf
<1>16. CASE hook.language = "swift"
  <2>1. env \in InstallSwift(hook, m)
    BY <1>16 DEF Install
  <2>2. PICK t \in OnPath("swift", m) : env.info = WithTool(hook, t) /\ env.managed = m.managed
    BY <2>1 DEF InstallSwift, Environment
  <2>3. SwiftHealthy(env, n)
    BY <1>2, <1>4, <2>2 DEF SwiftHealthy
  <2> QED BY <1>1, <1>2, <1>3, <1>16, <2>2, <2>3, HealthOf
<1>17. hook.language \in {"conda", "coursier", "dart", "docker", "haskell", "julia", "lua", "perl",
                            "php", "pygrep", "r", "swift"}
  BY DEF SupportsInstallEnv, Languages, SupportsLanguageVersion
<1> QED BY <1>17, <1>5, <1>6, <1>7, <1>8, <1>9, <1>10, <1>11, <1>12, <1>13, <1>14, <1>15, <1>16

\* Language::install: what is installed satisfies the hook it was installed for, is
\* healthy, and fetched nothing that is not published.
LEMMA InstallServes ==
    ASSUME NEW hook, NEW m, MachineStated(m), HookStated(hook), hook.language \in SupportsInstallEnv,
           NEW env \in Install(hook, m)
    PROVE  Serves(env, hook, m)
BY MiseInstallServes, RustInstallServes, VersionedInstallServes, UnversionedInstallServes

(***************************************************************************)
(* The hooks of a configuration.                                           *)
(***************************************************************************)
LEMMA MergedStated ==
    ASSUME NEW a, NEW b, VersionStated(a), VersionStated(b)
    PROVE  VersionStated(UpdateVersion(a, b)) /\ VersionStated(ApplyDefaults(a, b))
BY DEF VersionStated, UpdateVersion, ApplyDefaults, LanguageVersion

LEMMA OptionsUpdated ==
    ASSUME NEW a, NEW b, OptionsStated(a), OptionsStated(b)
    PROVE  OptionsStated(UpdateOptions(a, b))
<1> DEFINE v == "language_version"
           o == UpdateOptions(a, b)
<1>1. /\ o = [f \in OptionFields |-> o[f]]
      /\ o[v] = IF a[v] = {} \/ b[v] = {} THEN First(b[v], a[v])
                ELSE {UpdateVersion(Some(a[v]), Some(b[v]))}
      /\ o["dependencies"] \in {a["dependencies"], b["dependencies"]}
  BY DEF UpdateOptions, OptionFields, First
<1>2. \A s : s # {} => Some(s) \in s
  BY DEF Some
<1> HIDE DEF o
<1>3. \A lv \in o[v] : VersionStated(lv)
  <2>1. CASE a[v] = {} \/ b[v] = {}
    BY <1>1, <2>1 DEF First, OptionsStated
  <2>2. CASE a[v] # {} /\ b[v] # {}
    <3>1. VersionStated(Some(a[v])) /\ VersionStated(Some(b[v]))
      BY <1>2, <2>2 DEF OptionsStated
    <3> QED BY <1>1, <2>2, <3>1, MergedStated
  <2> QED BY <2>1, <2>2
<1> QED BY <1>1, <1>3 DEF OptionsStated, o

PredefinedStated ==
    \A kind \in {"meta", "builtin"} : \A id \in DOMAIN Predefined[kind] : OptionsStated(Predefined[kind][id])

EntryStated(repo, wire) ==
    /\ OptionsStated(wire.options)
    /\ repo.kind \in {"remote", "local", "meta", "builtin"}
    /\ repo.kind = "remote" => \A m \in DOMAIN repo.manifest : OptionsStated(repo.manifest[m].options)

\* What is known of a specification before the defaults.
SpecStated(spec) ==
    /\ {"language", "options"} \subseteq DOMAIN spec
    /\ OptionsStated(spec.options)

LEMMA SpecsStated ==
    ASSUME NEW repo, NEW wire, EntryStated(repo, wire), PredefinedStated,
           NEW spec \in SpecOf(repo, wire, Predefined)
    PROVE  SpecStated(spec)
<1>1. CASE repo.kind = "remote"
  <2>1. PICK h \in ManifestHook(repo.manifest, wire.id) : spec = FromRemote(h, wire)
    BY <1>1 DEF SpecOf
  <2>2. OptionsStated(h.options)
    <3>1. PICK i \in DOMAIN repo.manifest : h = repo.manifest[i]
      BY DEF ManifestHook, FirstOf
    <3> QED BY <1>1, <3>1 DEF EntryStated
  <2>3. spec.options = UpdateOptions(h.options, wire.options) /\ {"language", "options"} \subseteq DOMAIN spec
    BY <2>1 DEF FromRemote, FromManifest
  <2> QED BY <2>2, <2>3, OptionsUpdated DEF SpecStated, EntryStated
<1>2. CASE repo.kind = "local"
  <2>1. spec = FromLocal(wire)
    BY <1>2 DEF SpecOf
  <2>2. spec.options = wire.options /\ {"language", "options"} \subseteq DOMAIN spec
    BY <2>1 DEF FromLocal, FromManifest
  <2> QED BY <2>2 DEF SpecStated, EntryStated
<1>3. CASE repo.kind \in {"meta", "builtin"}
  <2>1. wire.id \in DOMAIN Predefined[repo.kind] /\ spec = FromPredefined(Predefined[repo.kind], wire)
    BY <1>3 DEF SpecOf, PredefinedValid
  <2>2. /\ spec.options = UpdateOptions(Predefined[repo.kind][wire.id], wire.options)
        /\ {"language", "options"} \subseteq DOMAIN spec
    BY <2>1 DEF FromPredefined
  <2>3. OptionsStated(Predefined[repo.kind][wire.id])
    BY <1>3, <2>1 DEF PredefinedStated
  <2> QED BY <2>2, <2>3, OptionsUpdated DEF SpecStated, EntryStated
<1> QED BY <1>1, <1>2, <1>3 DEF EntryStated

LEMMA DefaultsStated ==
    ASSUME NEW spec, SpecStated(spec), NEW config,
           \A l \in DOMAIN config.language_version : VersionStated(config.language_version[l])
    PROVE  LET with == WithProjectDefaults(spec, config)
           IN  /\ with.language = spec.language
               /\ with.options["dependencies"] = spec.options["dependencies"]
               /\ \A lv \in with.options["language_version"] : VersionStated(lv)
<1> DEFINE mine    == spec.options
           default == {config.language_version[l] : l \in DOMAIN config.language_version \cap {spec.language}}
           version == IF default = {} THEN mine["language_version"]
                      ELSE IF mine["language_version"] = {} THEN default
                      ELSE {ApplyDefaults(Some(mine["language_version"]), Some(default))}
           with    == WithProjectDefaults(spec, config)
<1>1. /\ with.language = spec.language /\ with.options["language_version"] = version
      /\ with.options["dependencies"] = spec.options["dependencies"]
  BY DEF WithProjectDefaults, SpecStated, OptionsStated, OptionFields
<1>2. \A s : s # {} => Some(s) \in s
  BY DEF Some
<1>3. /\ \A lv \in default : VersionStated(lv)
      /\ \A lv \in mine["language_version"] : VersionStated(lv)
  BY DEF SpecStated, OptionsStated
<1> HIDE DEF default
<1>4. \A lv \in version : VersionStated(lv)
  BY <1>2, <1>3, MergedStated
<1> QED BY <1>1, <1>4

\* What the parsers leave of a request of rust, and of no request at all.
LEMMA RustRequests ==
    ASSUME NEW text, ParseRequest("rust", text) # Invalid
    PROVE  RustStated(ParseRequest("rust", text))
<1> DEFINE channels == {"stable", "beta", "nightly"}
           request  == ParseRequest("rust", text)
<1>1. request = ParseRust(text)
  BY DEF ParseRequest
<1>2. NumbersOrRange(text.body) # Invalid => NumbersOrRange(text.body).kind \in {"numbers", "range"}
  BY DEF NumbersOrRange, ParseVersionNumbers, ParseRange, Invalid
<1>3. \/ request = AnyVersion
      \/ \E w \in channels : text.body = Word(w) /\ request = [kind |-> "channel", w |-> text.body.w]
      \/ request = NumbersOrRange(text.body)
  BY <1>1 DEF ParseRust
<1>4. \A w : Word(w).w = w
  BY DEF Word
<1> HIDE DEF request
<1> QED BY <1>2, <1>3, <1>4 DEF RustStated, AnyVersion, request

LEMMA NoRequests ==
    ASSUME NEW language, language \notin SupportsLanguageVersion
    PROVE  ParseRequest(language, NoText) = AnyVersion
<1>1. ParseRequest(language, NoText) = ParseSemver(NoText)
  BY DEF ParseRequest, SupportsLanguageVersion
<1>2. ParseSemver(NoText) = AnyVersion
  BY DEF ParseSemver, NoText, Text
<1> QED BY <1>1, <1>2

LEMMA RequestsStated ==
    ASSUME NEW language, NEW versions, \A lv \in versions : VersionStated(lv),
           language \in SupportsLanguageVersion \/ \A lv \in versions : IsDefault(lv),
           RequestFrom(language, versions).version # Invalid
    PROVE  LET request == RequestFrom(language, versions)
           IN  /\ request.preference \in {"only-managed", "managed", "system", "only-system"}
               /\ "preference" \in DOMAIN request
               /\ language \notin SupportsLanguageVersion => request.version = AnyVersion
               /\ language = "rust" => RustStated(request.version)
<1> DEFINE none == LanguageVersion("unspecified", NoText, "none", TRUE)
           lv   == Or(versions, none)
<1>1. VersionStated(none) /\ none.request # "explicit"
  BY DEF VersionStated, LanguageVersion
<1>2. lv \in versions \/ lv = none
  BY DEF Or, Some
<1>3. VersionStated(lv)
  BY <1>1, <1>2
<1>4. language \notin SupportsLanguageVersion => lv.text = NoText
  BY <1>1, <1>2, <1>3 DEF VersionStated, IsDefault
<1>5. /\ RequestFrom(language, versions) = RequestOf(language, lv)
      /\ RequestOf(language, lv).version = ParseRequest(language, lv.text)
      /\ RequestOf(language, lv).preference = Preference(lv)
      /\ "preference" \in DOMAIN RequestOf(language, lv)
  BY DEF RequestFrom, RequestOf
<1>6. Preference(lv) \in {"only-managed", "managed", "system", "only-system"}
  BY <1>3 DEF Preference, VersionStated
<1> HIDE DEF lv, none
<1> QED BY <1>4, <1>5, <1>6, RustRequests, NoRequests

\* Reading a hook's own files changes its dependencies and its version request at most,
\* and only for python and golang.
Shaped(hook) ==
    /\ {"language", "request", "dependencies", "repo", "work"} \subseteq DOMAIN hook
    /\ "preference" \in DOMAIN hook.request

SameBut(h, g) ==
    /\ Shaped(g) /\ g.language = h.language /\ g.request.preference = h.request.preference
    /\ g.repo = h.repo /\ g.work = h.work

LEMMA WithVersionSame ==
    ASSUME NEW hook, Shaped(hook), NEW text
    PROVE  SameBut(hook, WithVersion(hook, text))
BY DEF Shaped, SameBut, WithVersion

LEMMA MetadataStated ==
    ASSUME NEW hook, Shaped(hook), HookStated(hook)
    PROVE  HookStated(ExtractMetadata(hook)) /\ SameBut(hook, ExtractMetadata(hook))
<1>1. \A h, texts : Shaped(h) => SameBut(h, UnlessConfigured(h, texts))
  BY WithVersionSame DEF UnlessConfigured, SameBut
<1>2. \A h : Shaped(h) => SameBut(h, ExtractPyproject(h))
  BY <1>1 DEF ExtractPyproject
<1>3. \A h : Shaped(h) => SameBut(h, ExtractGoMod(h))
  <2> DEFINE mod(h)  == IF "go.mod" \in DOMAIN h.repo.tree THEN {h.repo.tree["go.mod"]} ELSE {}
             said(h) == IF mod(h) = {} THEN {} ELSE First(Some(mod(h)).go, Some(mod(h)).toolchain)
             texts(h) == {Text("", Compare({<<">=", v \o [i \in 1 .. 3 - Len(v) |-> 0]>>})) : v \in said(h)}
  <2>1. \A h : ExtractGoMod(h) = UnlessConfigured(h, texts(h))
    BY DEF ExtractGoMod
  <2> HIDE DEF texts
  <2> QED BY <1>1, <2>1
<1>4. \A h : Shaped(h) => SameBut(h, ExtractScript(h))
  <2> SUFFICES ASSUME NEW h, Shaped(h) PROVE SameBut(h, ExtractScript(h))
    OBVIOUS
  <2>1. \A d : SameBut(h, [h EXCEPT !.dependencies = d])
    BY DEF Shaped, SameBut
  <2>2. PICK d, text : ExtractScript(h) \in {h, [h EXCEPT !.dependencies = d],
                                             WithVersion([h EXCEPT !.dependencies = d], text)}
    BY DEF ExtractScript
  <2> DEFINE with == [h EXCEPT !.dependencies = d]
  <2>3. SameBut(h, with)
    BY <2>1
  <2> HIDE DEF with
  <2>4. SameBut(with, WithVersion(with, text))
    BY <2>3, WithVersionSame DEF SameBut
  <2>5. SameBut(h, h)
    BY DEF SameBut
  <2>6. ExtractScript(h) \in {h, with, WithVersion(with, text)}
    BY <2>2 DEF with
  <2> QED BY <2>3, <2>4, <2>5, <2>6 DEF SameBut
<1>5. CASE hook.language = "python"
  <2>1. ExtractMetadata(hook) = ExtractScript(ExtractPyproject(hook))
    BY <1>5 DEF ExtractMetadata
  <2>2. SameBut(hook, ExtractMetadata(hook))
    BY <1>2, <1>4, <2>1 DEF SameBut
  <2> QED BY <1>5, <2>2 DEF SameBut, HookStated, SupportsLanguageVersion
<1>6. CASE hook.language = "golang"
  <2>1. SameBut(hook, ExtractMetadata(hook))
    BY <1>3, <1>6 DEF ExtractMetadata
  <2> QED BY <1>6, <2>1 DEF SameBut, HookStated, SupportsLanguageVersion
<1>7. CASE hook.language \notin {"python", "golang"}
  BY <1>7 DEF ExtractMetadata, SameBut
<1> QED BY <1>5, <1>6, <1>7

LEMMA SpecsHooksStated ==
    ASSUME NEW spec, SpecStated(spec), NEW p, ProjectStated(p), NEW repo, NEW position,
           NEW hook \in FromSpec(spec, repo, p, position)
    PROVE  HookStated(hook) /\ hook.repo = repo /\ hook.work = p.tree
<1> DEFINE with     == WithProjectDefaults(spec, p.config)
           request  == RequestFrom(with.language, with.options["language_version"])
           priority == ResolvePriority(with.priority, p.config.priorities, position)
           raw      == [idx |-> position, id |-> with.id, repo |-> repo, language |-> with.language,
                        overridden |-> with.overridden, entry |-> with.entry,
                        dependencies |-> Or(with.options["dependencies"], <<>>),
                        args |-> Or(with.options["args"], <<>>), env |-> Or(with.options["env"], <<>>),
                        shell |-> with.options["shell"], stages |-> Some(with.options["stages"]),
                        request |-> request, priority |-> Or(priority, position),
                        groups |-> Or(with.groups, {}), work |-> p.tree]
<1>1. SpecValid(with, repo.kind) /\ request.version # Invalid /\ hook = ExtractMetadata(raw)
  BY DEF FromSpec
<1>2. \A lv \in with.options["language_version"] : VersionStated(lv)
  BY DefaultsStated DEF ProjectStated
<1>3. with.language \in SupportsLanguageVersion \/ \A lv \in with.options["language_version"] : IsDefault(lv)
  BY <1>1 DEF SpecValid
<1>d. Or(with.options["dependencies"], <<>>) \in Seq(Range(Or(with.options["dependencies"], <<>>)))
  <2>1. \A list \in with.options["dependencies"] : list \in Seq(Range(list))
    BY DefaultsStated DEF ProjectStated, SpecStated, OptionsStated
  <2>2. <<>> \in Seq(Range(<<>>))
    OBVIOUS
  <2> HIDE DEF with
  <2> QED BY <2>1, <2>2 DEF Or, Some
<1> HIDE DEF with
<1>4. /\ request.preference \in {"only-managed", "managed", "system", "only-system"}
      /\ "preference" \in DOMAIN request
      /\ with.language \notin SupportsLanguageVersion => request.version = AnyVersion
      /\ with.language = "rust" => RustStated(request.version)
  BY <1>1, <1>2, <1>3, RequestsStated
<1> HIDE DEF request, priority
<1>5. Shaped(raw) /\ HookStated(raw) /\ raw.repo = repo /\ raw.work = p.tree
  BY <1>4, <1>d DEF Shaped, HookStated
<1> HIDE DEF raw
<1> QED BY <1>1, <1>5, MetadataStated DEF SameBut

LEMMA BuiltHooksStated ==
    ASSUME NEW p, ProjectStated(p), NEW hs \in BuildHooks(p, Predefined), PredefinedStated
    PROVE  /\ DOMAIN hs = DOMAIN Entries(p) /\ DOMAIN hs \subseteq Nat
           /\ \A i \in DOMAIN hs :
                 HookStated(hs[i]) /\ hs[i].repo = Entries(p)[i].repo /\ hs[i].work = p.tree
<1> DEFINE entries == Entries(p)
           hook(i) == UNION {FromSpec(s, entries[i].repo, p, i - 1) :
                                 s \in SpecOf(entries[i].repo, entries[i].wire, Predefined)}
<1>1. hs = [i \in DOMAIN entries |-> Some(hook(i))] /\ \A i \in DOMAIN entries : hook(i) # {}
  BY DEF BuildHooks
<1>2. ASSUME NEW i \in DOMAIN entries
      PROVE  HookStated(hs[i]) /\ hs[i].repo = entries[i].repo /\ hs[i].work = p.tree
  <2>1. hs[i] \in hook(i)
    BY <1>1 DEF Some
  <2>2. PICK s \in SpecOf(entries[i].repo, entries[i].wire, Predefined) :
           hs[i] \in FromSpec(s, entries[i].repo, p, i - 1)
    BY <2>1
  <2>3. EntryStated(entries[i].repo, entries[i].wire)
    BY DEF ProjectStated, EntryStated
  <2>4. SpecStated(s)
    BY <2>3, SpecsStated
  <2> QED BY <2>2, <2>4, SpecsHooksStated
<1> QED BY <1>1, <1>2 DEF ProjectStated

(***************************************************************************)
(* The invariant.                                                          *)
(***************************************************************************)
\* The directory holds an environment that the hook's requirement accepts.
Suits(d, h) == IsSatisfiedBy(Requirement(hooks[h]), dirs[d].env.info)

Stated ==
    /\ MachineStated(machine) /\ \A m \in altered : MachineStated(m)
    /\ DOMAIN hooks \subseteq Nat
    /\ \A h \in DOMAIN hooks : HookStated(hooks[h])

UsedServe ==
    /\ command \in {"installing", "running", "ended"} =>
           \A h \in DOMAIN hooks : using[h] # 0 => NeedsInstallEnv(hooks[h]) /\ using[h] \in InstalledHook(h)
    /\ command = "installing" =>
           \A h \in DOMAIN hooks : NeedsInstallEnv(hooks[h]) =>
               using[h] # 0 \/ \E p \in DOMAIN parts : h \in parts[p].todo
    /\ command = "running" =>
           \A h \in DOMAIN hooks : NeedsInstallEnv(hooks[h]) => using[h] # 0

Apart ==
    command = "installing" =>
        \A p, q \in DOMAIN parts : p # q =>
            /\ \A g \in parts[p].todo, h \in parts[q].todo : ~SameInstallPartition(g, h)
            /\ parts[p].dir # 0 => parts[p].dir # parts[q].dir

\* A directory with a marker, whose environment is healthy.
Fit(d) ==
    /\ dirs[d].state = "marked"
    /\ dirs[d].env.info.language \in SupportsInstallEnv
    /\ CheckHealth(dirs[d].env, machine)

ProgressOf(p) ==
    /\ \A h \in parts[p].todo : NeedsInstallEnv(hooks[h])
    /\ \A d \in parts[p].done : Fit(d)
    /\ parts[p].dir # 0 =>
          /\ dirs[parts[p].dir].state \in {"temporary", "kept"}
          /\ \A d \in parts[p].done : d < parts[p].dir
          /\ dirs[parts[p].dir].state = "kept" =>
                \A h \in Turn(p) :
                    Suits(parts[p].dir, h) /\ CheckHealth(dirs[parts[p].dir].env, machine)

Progress == command = "installing" => \A p \in DOMAIN parts : ProgressOf(p)

MadeForOf(p, b) ==
    /\ \A h \in parts[p].todo : SameInstallPartition(b[2], h) => b[1] \in parts[p].done
    /\ parts[p].dir # 0 => \A h \in Turn(p) : b[1] < parts[p].dir => ~Suits(b[1], h)

MadeFor ==
    /\ \A b \in built : dirs[b[1]].state = "marked" /\ Suits(b[1], b[2])
    /\ command = "installing" => \A p \in DOMAIN parts, b \in built : MadeForOf(p, b)

EnvironmentsInv ==
    /\ TypeOK
    /\ Stated
    /\ UsedServe
    /\ Apart
    /\ Progress
    /\ MadeFor
    /\ BuiltOnce
    /\ Settled

(***************************************************************************)
(* The directories.                                                        *)
(***************************************************************************)
DirsTyped(ds) == ds \in Seq([state : States, env : {ds[d].env : d \in DOMAIN ds}])

LEMMA DirsAre ==
    ASSUME NEW ds, DirsTyped(ds)
    PROVE  /\ Len(ds) \in Nat /\ DOMAIN ds = 1 .. Len(ds)
           /\ ds = [d \in 1 .. Len(ds) |-> ds[d]]
           /\ \A d \in 1 .. Len(ds) :
                 ds[d] = [state |-> ds[d].state, env |-> ds[d].env] /\ ds[d].state \in States
<1> DEFINE S == [state : States, env : {ds[d].env : d \in DOMAIN ds}]
<1>1. \A r \in S : r = [state |-> r.state, env |-> r.env] /\ r.state \in States
  OBVIOUS
<1>2. ds \in Seq(S)
  BY DEF DirsTyped
<1> HIDE DEF S
<1>3. /\ Len(ds) \in Nat /\ DOMAIN ds = 1 .. Len(ds) /\ ds = [d \in 1 .. Len(ds) |-> ds[d]]
      /\ \A d \in 1 .. Len(ds) : ds[d] \in S
  BY <1>2
<1> QED BY <1>1, <1>3

LEMMA DirsBecome ==
    ASSUME NEW ds, NEW n \in Nat, ds = [d \in 1 .. n |-> ds[d]],
           \A d \in 1 .. n : ds[d] = [state |-> ds[d].state, env |-> ds[d].env] /\ ds[d].state \in States
    PROVE  DirsTyped(ds) /\ Len(ds) = n
<1> DEFINE S == [state : States, env : {ds[d].env : d \in DOMAIN ds}]
<1>1. DOMAIN ds = 1 .. n
  OBVIOUS
<1>2. \A d \in 1 .. n : ds[d] \in S
  BY <1>1
<1> HIDE DEF S
<1>3. ds \in [1 .. n -> S]
  BY <1>2
<1>4. ds \in Seq(S) /\ Len(ds) = n
  BY <1>3
<1> QED BY <1>4 DEF DirsTyped, S

LEMMA DirsGrow ==
    ASSUME NEW ds, DirsTyped(ds)
    PROVE  LET es == Append(ds, [state |-> "temporary", env |-> NoEnv])
           IN  /\ DirsTyped(es) /\ Len(es) = Len(ds) + 1
               /\ \A d \in 1 .. Len(ds) : es[d] = ds[d]
               /\ es[Len(es)] = [state |-> "temporary", env |-> NoEnv]
<1> DEFINE new == [state |-> "temporary", env |-> NoEnv]
           S   == {ds[d] : d \in DOMAIN ds} \cup {new}
           es  == Append(ds, new)
<1>1. Len(ds) \in Nat /\ DOMAIN ds = 1 .. Len(ds) /\ ds = [d \in 1 .. Len(ds) |-> ds[d]]
  BY DirsAre
<1> HIDE DEF new
<1>2. ds \in [1 .. Len(ds) -> S]
  BY <1>1
<1> HIDE DEF S
<1>3. ds \in Seq(S)
  BY <1>1, <1>2
<1>4. new \in S
  BY DEF S
<1>5. /\ es \in Seq(S) /\ Len(es) = Len(ds) + 1
      /\ \A d \in 1 .. Len(ds) : es[d] = ds[d]
      /\ es[Len(ds) + 1] = new
  BY <1>3, <1>4
<1> HIDE DEF es
<1>6. Len(es) \in Nat /\ es = [d \in 1 .. Len(es) |-> es[d]]
  BY <1>5
<1>7. ASSUME NEW d \in 1 .. Len(es)
      PROVE  es[d] = [state |-> es[d].state, env |-> es[d].env] /\ es[d].state \in States
  <2>1. CASE d \in 1 .. Len(ds)
    <3>1. ds[d] = [state |-> ds[d].state, env |-> ds[d].env] /\ ds[d].state \in States
      BY <2>1, DirsAre
    <3> QED BY <1>5, <2>1, <3>1
  <2>2. CASE d = Len(ds) + 1
    BY <1>5, <2>2 DEF new, States
  <2> QED BY <1>1, <1>5, <2>1, <2>2
<1>8. DirsTyped(es)
  BY <1>6, <1>7, DirsBecome
<1> QED BY <1>1, <1>5, <1>8 DEF es, new

LEMMA DirsChange ==
    ASSUME NEW ds, DirsTyped(ds), NEW d \in 1 .. Len(ds), NEW state \in States, NEW env,
           NEW es, es = [e \in DOMAIN ds |-> es[e]],
           \A e \in DOMAIN ds : e # d => es[e] = ds[e],
           es[d] = [state |-> state, env |-> env]
    PROVE  DirsTyped(es) /\ Len(es) = Len(ds)
<1>1. Len(ds) \in Nat /\ DOMAIN ds = 1 .. Len(ds)
  BY DirsAre
<1>2. \A e \in 1 .. Len(ds) : es[e] = [state |-> es[e].state, env |-> es[e].env] /\ es[e].state \in States
  <2> TAKE e \in 1 .. Len(ds)
  <2>1. CASE e = d
    BY <2>1
  <2>2. CASE e # d
    <3>1. es[e] = ds[e]
      BY <1>1, <2>2
    <3>2. ds[e] = [state |-> ds[e].state, env |-> ds[e].env] /\ ds[e].state \in States
      BY DirsAre
    <3> QED BY <3>1, <3>2
  <2> QED BY <2>1, <2>2
<1> QED BY <1>1, <1>2, DirsBecome

LEMMA DirsRemoved ==
    ASSUME NEW ds, DirsTyped(ds), NEW es, es = [d \in DOMAIN ds |-> es[d]],
           \A d \in DOMAIN ds : es[d] \in {ds[d], [state |-> "removed", env |-> NoEnv]}
    PROVE  DirsTyped(es) /\ Len(es) = Len(ds)
<1>1. Len(ds) \in Nat /\ DOMAIN ds = 1 .. Len(ds)
  BY DirsAre
<1>2. \A d \in 1 .. Len(ds) : es[d] = [state |-> es[d].state, env |-> es[d].env] /\ es[d].state \in States
  <2> TAKE d \in 1 .. Len(ds)
  <2>1. CASE es[d] = ds[d]
    <3>1. ds[d] = [state |-> ds[d].state, env |-> ds[d].env] /\ ds[d].state \in States
      BY DirsAre
    <3> QED BY <2>1, <3>1
  <2>2. CASE es[d] = [state |-> "removed", env |-> NoEnv]
    BY <2>2 DEF States
  <2> QED BY <1>1, <2>1, <2>2
<1> QED BY <1>1, <1>2, DirsBecome

(***************************************************************************)
(* What steps leave as it was.                                             *)
(***************************************************************************)
LEMMA OneTurn ==
    ASSUME DOMAIN hooks \subseteq Nat, NEW p, parts[p].todo \subseteq DOMAIN hooks,
           NEW g \in Turn(p), NEW h \in Turn(p)
    PROVE  g = h
BY DEF Turn

\* An environment satisfies hooks of one installation only.
LEMMA OneClass ==
    ASSUME NEW d, NEW g, NEW h, Suits(d, g), Suits(d, h)
    PROVE  SameInstallPartition(g, h)
BY DEF Suits, IsSatisfiedBy, Requirement, SameInstallPartition

LEMMA SameClass ==
    ASSUME NEW f, NEW g, NEW h, SameInstallPartition(f, g), SameInstallPartition(f, h)
    PROVE  SameInstallPartition(g, h) /\ SameInstallPartition(g, f)
BY DEF SameInstallPartition

\* No directory with a marker changes, and no toolchain goes.
NothingGoes ==
    /\ \A d \in DOMAIN dirs : dirs[d].state = "marked" => d \in DOMAIN dirs' /\ dirs'[d] = dirs[d]
    /\ \E tools : machine.managed \subseteq tools /\ machine' = [machine EXCEPT !.managed = tools]
    /\ hooks' = hooks

LEMMA NothingGoesHealth ==
    ASSUME MachineStated(machine), NothingGoes, NEW env, env.info.language \in SupportsInstallEnv,
           CheckHealth(env, machine)
    PROVE  CheckHealth(env, machine')
BY HealthKept DEF NothingGoes

LEMMA ServedStays ==
    ASSUME MachineStated(machine), NothingGoes, NEW h, NeedsInstallEnv(hooks[h]), NEW d \in InstalledHook(h)
    PROVE  d \in InstalledHook(h)'
<1>1. /\ d \in DOMAIN dirs /\ dirs[d].state = "marked" /\ CheckHealth(dirs[d].env, machine)
      /\ IsSatisfiedBy(Requirement(hooks[h]), dirs[d].env.info)
  BY DEF InstalledHook, LoadStoreInstalledHooks
<1>2. dirs[d].env.info.language \in SupportsInstallEnv
  BY <1>1 DEF IsSatisfiedBy, Requirement, NeedsInstallEnv
<1>3. CheckHealth(dirs[d].env, machine')
  BY <1>1, <1>2, NothingGoesHealth
<1>4. d \in DOMAIN dirs' /\ dirs'[d] = dirs[d] /\ hooks' = hooks
  BY <1>1 DEF NothingGoes
<1> QED BY <1>1, <1>3, <1>4 DEF InstalledHook, LoadStoreInstalledHooks

\* A machine that stays as it is.
LEMMA NothingGoesUnchanged ==
    ASSUME MachineStated(machine), UNCHANGED <<machine, hooks>>,
           \A d \in DOMAIN dirs : dirs[d].state = "marked" => d \in DOMAIN dirs' /\ dirs'[d] = dirs[d]
    PROVE  NothingGoes
<1>1. machine = [machine EXCEPT !.managed = machine.managed]
  BY DEF MachineStated
<1> QED BY <1>1 DEF NothingGoes

(***************************************************************************)
(* Each step preserves the invariant.                                      *)
(***************************************************************************)
LEMMA PartTyped ==
    ASSUME TypeOK, NEW p \in DOMAIN parts
    PROVE  /\ p \in DOMAIN hooks
           /\ parts = [q \in DOMAIN parts |-> parts[q]]
           /\ parts[p] = [todo |-> parts[p].todo, dir |-> parts[p].dir, done |-> parts[p].done]
           /\ parts[p].todo \subseteq DOMAIN hooks
           /\ parts[p].dir \in 0 .. Len(dirs)
           /\ parts[p].done \subseteq 1 .. Len(dirs)
BY DEF TypeOK, Part

\* A step of one installation.
LEMMA PartsStep ==
    ASSUME TypeOK, NEW p \in DOMAIN parts, NEW part, parts' = [parts EXCEPT ![p] = part]
    PROVE  /\ DOMAIN parts' = DOMAIN parts
           /\ \A q \in DOMAIN parts : q # p => parts'[q] = parts[q]
           /\ parts'[p] = part
           /\ parts' = [q \in DOMAIN parts' |-> parts'[q]]
BY PartTyped

LEMMA PartsStepTyped ==
    ASSUME TypeOK, NEW p \in DOMAIN parts, NEW part, parts' = [parts EXCEPT ![p] = part],
           hooks' = hooks, Len(dirs) \in Nat, Len(dirs') \in Nat, Len(dirs) <= Len(dirs'),
           part \in Part'
    PROVE  DOMAIN parts' \subseteq DOMAIN hooks' /\ parts' \in [DOMAIN parts' -> Part']
<1>1. \A q \in DOMAIN parts : parts[q] \in Part'
  <2> TAKE q \in DOMAIN parts
  <2>1. /\ parts[q] = [todo |-> parts[q].todo, dir |-> parts[q].dir, done |-> parts[q].done]
        /\ parts[q].todo \in SUBSET DOMAIN hooks /\ parts[q].dir \in 0 .. Len(dirs')
        /\ parts[q].done \in SUBSET (1 .. Len(dirs'))
    BY PartTyped
  <2> QED BY <2>1 DEF Part
<1>2. \A q \in DOMAIN parts' : parts'[q] \in Part'
  BY <1>1, PartsStep
<1> QED BY <1>2, PartsStep DEF TypeOK

\* The installations that do not step.
LEMMA OthersProgress ==
    ASSUME EnvironmentsInv, NothingGoes, UNCHANGED command, command = "installing",
           NEW q \in DOMAIN parts, parts'[q] = parts[q],
           parts[q].dir # 0 => dirs'[parts[q].dir] = dirs[parts[q].dir]
    PROVE  ProgressOf(q)'
<1>1. ProgressOf(q) /\ MachineStated(machine) /\ hooks' = hooks /\ Turn(q)' = Turn(q)
  BY DEF EnvironmentsInv, Progress, Stated, NothingGoes, Turn
<1>2. \A d \in parts[q].done : Fit(d)'
  <2> TAKE d \in parts[q].done
  <2>1. Fit(d) /\ d \in DOMAIN dirs
    BY <1>1, PartTyped, DirsAre DEF ProgressOf, EnvironmentsInv, TypeOK, DirsTyped
  <2>2. dirs'[d] = dirs[d]
    BY <2>1 DEF Fit, NothingGoes
  <2> QED BY <1>1, <2>1, <2>2, NothingGoesHealth DEF Fit
<1>3. ASSUME parts[q].dir # 0, dirs[parts[q].dir].state = "kept", NEW h \in Turn(q)
      PROVE  Suits(parts[q].dir, h)' /\ CheckHealth(dirs'[parts[q].dir].env, machine')
  <2>1. Suits(parts[q].dir, h) /\ CheckHealth(dirs[parts[q].dir].env, machine) /\ NeedsInstallEnv(hooks[h])
    BY <1>1, <1>3 DEF ProgressOf, Turn
  <2>2. dirs[parts[q].dir].env.info.language \in SupportsInstallEnv
    BY <2>1 DEF Suits, IsSatisfiedBy, Requirement, NeedsInstallEnv
  <2>3. CheckHealth(dirs[parts[q].dir].env, machine')
    BY <1>1, <2>1, <2>2, NothingGoesHealth
  <2> QED BY <1>1, <1>3, <2>1, <2>3 DEF Suits
<1> QED BY <1>1, <1>2, <1>3 DEF ProgressOf

LEMMA OthersMadeFor ==
    ASSUME MadeFor, UNCHANGED <<hooks, command>>, command = "installing",
           NEW q \in DOMAIN parts, parts'[q] = parts[q], NEW b \in built, dirs'[b[1]] = dirs[b[1]]
    PROVE  MadeForOf(q, b)'
<1>1. MadeForOf(q, b) /\ Turn(q)' = Turn(q)
  BY DEF MadeFor, Turn
<1>2. \A h : Suits(b[1], h)' <=> Suits(b[1], h)
  BY DEF Suits
<1> QED BY <1>1, <1>2 DEF MadeForOf, SameInstallPartition

LEMMA ShareKeeps ==
    ASSUME EnvironmentsInv, NEW p \in DOMAIN parts, NEW h \in Turn(p), Share(p, h)
    PROVE  EnvironmentsInv'
<1> USE DEF EnvironmentsInv
<1>1. /\ command = "installing" /\ h \in parts[p].todo /\ h \in DOMAIN hooks
      /\ UNCHANGED <<project, machine, altered, hooks, dirs, command, runs, built, ran>>
  BY PartTyped DEF Turn, Share
<1>2. PICK d \in Shareable(p, h) : using' = [using EXCEPT ![h] = d]
  BY DEF Share
<1>3. /\ d \in parts[p].done /\ d \in 1 .. Len(dirs) /\ Suits(d, h) /\ DOMAIN dirs = 1 .. Len(dirs)
      /\ Len(dirs) \in Nat
  BY PartTyped, DirsAre DEF Shareable, Suits, TypeOK, DirsTyped
<1> DEFINE part == [todo |-> parts[p].todo \ {h}, dir |-> 0, done |-> parts[p].done]
<1>step. parts' = [parts EXCEPT ![p] = part]
  <2>1. parts[p].dir = 0 /\ parts' = [parts EXCEPT ![p] = [parts[p] EXCEPT !.todo = @ \ {h}]]
    BY DEF Share
  <2>2. parts[p] = [todo |-> parts[p].todo, dir |-> 0, done |-> parts[p].done]
    BY <2>1, PartTyped
  <2>3. [parts[p] EXCEPT !.todo = @ \ {h}] = part
    BY <2>2
  <2> HIDE DEF part
  <2> QED BY <2>1, <2>3
<1>4. /\ DOMAIN parts' = DOMAIN parts
      /\ \A q \in DOMAIN parts : q # p => parts'[q] = parts[q]
      /\ parts'[p] = part
  BY <1>step, PartsStep
<1>5. TypeOK'
  <2>1. using' \in [DOMAIN hooks' -> 0 .. Len(dirs')]
    BY <1>1, <1>2, <1>3 DEF TypeOK
  <2>2. part \in Part'
    BY <1>1, <1>3, PartTyped DEF Part
  <2> HIDE DEF part
  <2>3. DOMAIN parts' \subseteq DOMAIN hooks' /\ parts' \in [DOMAIN parts' -> Part']
    <3>1. Len(dirs) \in Nat /\ Len(dirs') \in Nat /\ Len(dirs) <= Len(dirs') /\ hooks' = hooks
      BY <1>1, <1>3
    <3> QED BY <1>step, <2>2, <3>1, PartsStepTyped
  <2> QED BY <1>1, <2>1, <2>3 DEF TypeOK
<1>6. Stated'
  BY <1>1 DEF Stated
<1>7. UsedServe'
  <2>1. \A g : InstalledHook(g)' = InstalledHook(g)
    BY <1>1 DEF InstalledHook, LoadStoreInstalledHooks
  <2>2. NeedsInstallEnv(hooks[h]) /\ d \in InstalledHook(h) /\ d # 0
    BY <1>1, <1>3 DEF Progress, ProgressOf, Fit, InstalledHook, LoadStoreInstalledHooks, Suits
  <2>3. using'[h] = d /\ \A g \in DOMAIN hooks : g # h => using'[g] = using[g]
    BY <1>1, <1>2 DEF TypeOK
  <2>4. \A g \in DOMAIN hooks :
           using'[g] # 0 => NeedsInstallEnv(hooks[g]) /\ using'[g] \in InstalledHook(g)
    <3> TAKE g \in DOMAIN hooks
    <3>1. CASE g = h
      BY <2>2, <2>3, <3>1
    <3>2. CASE g # h
      BY <1>1, <2>3, <3>2 DEF UsedServe
    <3> QED BY <3>1, <3>2
  <2>5. \A g \in DOMAIN hooks : NeedsInstallEnv(hooks[g]) =>
           using'[g] # 0 \/ \E q \in DOMAIN parts' : g \in parts'[q].todo
    <3> SUFFICES ASSUME NEW g \in DOMAIN hooks, NeedsInstallEnv(hooks[g]), using'[g] = 0
                 PROVE  \E q \in DOMAIN parts' : g \in parts'[q].todo
      OBVIOUS
    <3>1. g # h /\ using[g] = 0
      BY <2>2, <2>3
    <3>2. PICK q \in DOMAIN parts : g \in parts[q].todo
      BY <1>1, <3>1 DEF UsedServe
    <3>3. g \in parts'[q].todo
      BY <1>4, <3>1, <3>2
    <3> QED BY <1>4, <3>3
  <2> QED BY <1>1, <2>1, <2>4, <2>5 DEF UsedServe
<1>8. Apart'
  <2> SUFFICES ASSUME NEW q \in DOMAIN parts, NEW r \in DOMAIN parts, q # r
               PROVE  /\ \A f \in parts'[q].todo, g \in parts'[r].todo : ~SameInstallPartition(f, g)
                      /\ parts'[q].dir # 0 => parts'[q].dir # parts'[r].dir
    BY <1>1, <1>4 DEF Apart, SameInstallPartition
  <2>1. /\ parts'[q].todo \subseteq parts[q].todo /\ parts'[q].dir \in {0, parts[q].dir}
        /\ parts'[r].todo \subseteq parts[r].todo /\ parts'[r].dir \in {0, parts[r].dir}
    BY <1>4
  <2> QED BY <1>1, <2>1 DEF Apart
<1>9. NothingGoes
  BY <1>1, NothingGoesUnchanged DEF Stated
<1>10. Progress'
  <2> SUFFICES ASSUME NEW q \in DOMAIN parts PROVE ProgressOf(q)'
    BY <1>4 DEF Progress
  <2>1. CASE q = p
    BY <1>1, <1>4, <2>1 DEF Progress, ProgressOf, Fit
  <2>2. CASE q # p
    BY <1>1, <1>4, <1>9, <2>2, OthersProgress
  <2> QED BY <2>1, <2>2
<1>11. MadeFor'
  <2>1. \A b \in built : dirs'[b[1]].state = "marked" /\ Suits(b[1], b[2])'
    BY <1>1 DEF MadeFor, Suits
  <2>2. ASSUME NEW q \in DOMAIN parts, NEW b \in built PROVE MadeForOf(q, b)'
    <3>1. CASE q = p
      BY <1>1, <1>4, <3>1 DEF MadeFor, MadeForOf, SameInstallPartition
    <3>2. CASE q # p
      BY <1>1, <1>4, <3>2, OthersMadeFor
    <3> QED BY <3>1, <3>2
  <2> QED BY <1>1, <1>4, <2>1, <2>2 DEF MadeFor
<1>12. BuiltOnce' /\ Settled'
  BY <1>1 DEF BuiltOnce, Settled
<1> QED BY <1>5, <1>6, <1>7, <1>8, <1>10, <1>11, <1>12

LEMMA MakeDirKeeps ==
    ASSUME EnvironmentsInv, NEW p \in DOMAIN parts, NEW h \in Turn(p), MakeDir(p, h)
    PROVE  EnvironmentsInv'
<1> USE DEF EnvironmentsInv
<1> DEFINE new == [state |-> "temporary", env |-> NoEnv]
<1>1. /\ command = "installing" /\ h \in parts[p].todo /\ h \in DOMAIN hooks
      /\ parts[p].dir = 0 /\ Shareable(p, h) = {} /\ dirs' = Append(dirs, new)
      /\ parts' = [parts EXCEPT ![p].dir = Len(dirs')]
      /\ UNCHANGED <<project, machine, altered, hooks, command, runs, using, built, ran>>
  BY PartTyped DEF Turn, MakeDir
<1>2. /\ Len(dirs) \in Nat /\ DOMAIN dirs = 1 .. Len(dirs) /\ DirsTyped(dirs)
  BY DirsAre DEF TypeOK, DirsTyped
<1>3. /\ DirsTyped(dirs') /\ Len(dirs') = Len(dirs) + 1 /\ DOMAIN dirs' = 1 .. Len(dirs) + 1
      /\ \A d \in 1 .. Len(dirs) : dirs'[d] = dirs[d]
      /\ dirs'[Len(dirs')] = new
  <2> HIDE DEF new
  <2>1. /\ DirsTyped(dirs') /\ Len(dirs') = Len(dirs) + 1
        /\ \A d \in 1 .. Len(dirs) : dirs'[d] = dirs[d]
        /\ dirs'[Len(dirs')] = new
    BY <1>1, <1>2, DirsGrow DEF new
  <2>2. DOMAIN dirs' = 1 .. Len(dirs')
    BY <2>1, DirsAre
  <2> QED BY <2>1, <2>2
<1> DEFINE part == [todo |-> parts[p].todo, dir |-> Len(dirs) + 1, done |-> parts[p].done]
<1>4. parts' = [parts EXCEPT ![p] = part]
  <2>1. parts' = [parts EXCEPT ![p] = [parts[p] EXCEPT !.dir = Len(dirs) + 1]]
    BY <1>1, <1>3
  <2>2. [parts[p] EXCEPT !.dir = Len(dirs) + 1] = part
    BY PartTyped
  <2> HIDE DEF part
  <2> QED BY <2>1, <2>2
<1>5. /\ DOMAIN parts' = DOMAIN parts
      /\ \A q \in DOMAIN parts : q # p => parts'[q] = parts[q]
      /\ parts'[p] = part
  BY <1>4, PartsStep
<1>6. \A q \in DOMAIN parts : Turn(q)' = Turn(q)
  BY <1>1, <1>5 DEF Turn
<1>8. \A b \in built : b[1] \in 1 .. Len(dirs) /\ b[2] \in DOMAIN hooks
  BY DEF TypeOK
<1> HIDE DEF new
<1>9. TypeOK'
  <2>1. using' \in [DOMAIN hooks' -> 0 .. Len(dirs')]
    BY <1>1, <1>2, <1>3 DEF TypeOK
  <2>2. built' \subseteq (1 .. Len(dirs')) \X DOMAIN hooks'
    BY <1>1, <1>2, <1>3 DEF TypeOK
  <2>3. part \in Part'
    BY <1>1, <1>2, <1>3, PartTyped DEF Part
  <2> HIDE DEF part
  <2>4. DOMAIN parts' \subseteq DOMAIN hooks' /\ parts' \in [DOMAIN parts' -> Part']
    <3>1. Len(dirs) \in Nat /\ Len(dirs') \in Nat /\ Len(dirs) <= Len(dirs') /\ hooks' = hooks
      BY <1>1, <1>2, <1>3
    <3> QED BY <1>4, <2>3, <3>1, PartsStepTyped
  <2> QED BY <1>1, <1>3, <2>1, <2>2, <2>4 DEF TypeOK, DirsTyped
<1>10. NothingGoes
  BY <1>1, <1>2, <1>3, NothingGoesUnchanged DEF Stated
<1>11. Stated'
  BY <1>1 DEF Stated
<1>12. UsedServe'
  <2>1. \A g \in DOMAIN hooks : using[g] # 0 => NeedsInstallEnv(hooks[g]) /\ using[g] \in InstalledHook(g)'
    BY <1>1, <1>10, ServedStays DEF UsedServe, Stated
  <2>2. \A q \in DOMAIN parts : parts'[q].todo = parts[q].todo
    BY <1>5
  <2> QED BY <1>1, <1>5, <2>1, <2>2 DEF UsedServe
<1>13. Apart'
  <2> SUFFICES ASSUME NEW q \in DOMAIN parts, NEW r \in DOMAIN parts, q # r
               PROVE  /\ \A f \in parts'[q].todo, g \in parts'[r].todo : ~SameInstallPartition(f, g)
                      /\ parts'[q].dir # 0 => parts'[q].dir # parts'[r].dir
    BY <1>1, <1>5 DEF Apart, SameInstallPartition
  <2>1. /\ parts'[q].todo = parts[q].todo /\ parts'[r].todo = parts[r].todo
        /\ parts[q].dir \in 0 .. Len(dirs) /\ parts[r].dir \in 0 .. Len(dirs)
        /\ parts'[q].dir = IF q = p THEN Len(dirs) + 1 ELSE parts[q].dir
        /\ parts'[r].dir = IF r = p THEN Len(dirs) + 1 ELSE parts[r].dir
    BY <1>5, PartTyped
  <2> QED BY <1>1, <1>2, <2>1 DEF Apart
<1>14. Progress'
  <2> SUFFICES ASSUME NEW q \in DOMAIN parts PROVE ProgressOf(q)'
    BY <1>5 DEF Progress
  <2>1. CASE q = p
    <3>1. ProgressOf(p) /\ parts[p].done \subseteq 1 .. Len(dirs)
      BY <1>1, PartTyped DEF Progress
    <3>2. parts'[p].dir = Len(dirs) + 1 /\ dirs'[Len(dirs) + 1].state = "temporary"
      BY <1>3, <1>5 DEF new
    <3>3. \A d \in parts[p].done : Fit(d)' /\ d < Len(dirs) + 1
      BY <1>1, <1>2, <1>3, <3>1 DEF ProgressOf, Fit
    <3> QED BY <1>1, <1>5, <2>1, <3>1, <3>2, <3>3 DEF ProgressOf
  <2>2. CASE q # p
    <3>1. parts[q].dir # 0 => dirs'[parts[q].dir] = dirs[parts[q].dir]
      BY <1>2, <1>3, PartTyped
    <3> QED BY <1>1, <1>5, <1>10, <2>2, <3>1, OthersProgress
  <2> QED BY <2>1, <2>2
<1>15. MadeFor'
  <2>1. \A b \in built : dirs'[b[1]] = dirs[b[1]]
    BY <1>3, <1>8
  <2>2. \A b \in built : dirs'[b[1]].state = "marked" /\ Suits(b[1], b[2])'
    BY <1>1, <2>1 DEF MadeFor, Suits
  <2>3. ASSUME NEW q \in DOMAIN parts, NEW b \in built PROVE MadeForOf(q, b)'
    <3>1. CASE q = p
      <4>1. ASSUME NEW g \in Turn(p) PROVE ~Suits(b[1], g)
        <5>1. g = h
          BY <1>1, OneTurn, PartTyped DEF Stated
        <5>2. Suits(b[1], h) => b[1] \in parts[p].done
          BY <1>1, OneClass DEF MadeFor, MadeForOf
        <5> QED BY <1>1, <5>1, <5>2 DEF Shareable, Suits
      <4>2. \A g \in Turn(p) : ~Suits(b[1], g)'
        BY <1>1, <2>1, <4>1 DEF Suits
      <4>3. /\ parts'[p].todo = parts[p].todo /\ parts'[p].done = parts[p].done
            /\ Turn(p)' = Turn(p) /\ hooks' = hooks
        BY <1>1, <1>5, <1>6
      <4>4. \A g \in parts[p].todo : SameInstallPartition(b[2], g) => b[1] \in parts[p].done
        BY <1>1 DEF MadeFor, MadeForOf
      <4>5. MadeForOf(p, b)'
        BY <4>2, <4>3, <4>4 DEF MadeForOf, SameInstallPartition
      <4> QED BY <3>1, <4>5
    <3>2. CASE q # p
      BY <1>1, <1>5, <2>1, <3>2, OthersMadeFor
    <3> QED BY <3>1, <3>2
  <2> QED BY <1>1, <1>5, <2>2, <2>3 DEF MadeFor
<1>16. BuiltOnce'
  BY <1>1, <1>3, <1>8 DEF BuiltOnce
<1>17. Settled'
  BY <1>1 DEF Settled
<1> QED BY <1>9, <1>11, <1>12, <1>13, <1>14, <1>15, <1>16, <1>17

\* The store's toolchains may become others that are known.
LEMMA ManagedStated ==
    ASSUME NEW m, MachineStated(m), NEW tools, tools \subseteq m.managed \cup m.published
    PROVE  MachineStated([m EXCEPT !.managed = tools])
<1> DEFINE n == [m EXCEPT !.managed = tools]
<1>1. n = [f \in {"system", "managed", "published", "programs", "registry", "vars", "settings"} |-> n[f]]
  BY DEF MachineStated
<1>2. n.system = m.system /\ n.managed = tools /\ n.published = m.published
  BY DEF MachineStated
<1> HIDE DEF n
<1>3. \A t \in n.system \cup n.managed \cup n.published : t.tool = "rust" => t.version[1] > 0
  BY <1>2 DEF MachineStated
<1> QED BY <1>1, <1>3 DEF MachineStated, n

LEMMA PersistKeeps ==
    ASSUME EnvironmentsInv, NEW p \in DOMAIN parts, NEW h \in Turn(p), Persist(p, h)
    PROVE  EnvironmentsInv'
<1> USE DEF EnvironmentsInv
<1>0. PICK d : d = parts[p].dir
  OBVIOUS
<1>1. /\ command = "installing" /\ h \in parts[p].todo /\ h \in DOMAIN hooks
      /\ d # 0 /\ dirs[d].state = "temporary"
      /\ UNCHANGED <<project, altered, hooks, command, runs, using, parts, built, ran>>
  BY <1>0, PartTyped DEF Turn, Persist
<1>2. PICK env \in Install(hooks[h], machine) :
         /\ dirs' = [dirs EXCEPT ![d] = [state |-> "kept", env |-> env]]
         /\ machine' = [machine EXCEPT !.managed = @ \cup env.managed]
  BY <1>0 DEF Persist
<1>3. /\ Len(dirs) \in Nat /\ DOMAIN dirs = 1 .. Len(dirs) /\ DirsTyped(dirs) /\ d \in 1 .. Len(dirs)
  BY <1>0, <1>1, PartTyped, DirsAre DEF TypeOK, DirsTyped
<1>4. /\ DirsTyped(dirs') /\ Len(dirs') = Len(dirs) /\ DOMAIN dirs' = 1 .. Len(dirs)
      /\ \A e \in 1 .. Len(dirs) : e # d => dirs'[e] = dirs[e]
      /\ dirs'[d] = [state |-> "kept", env |-> env]
  <2>1. "kept" \in States
    BY DEF States
  <2>2. /\ dirs' = [e \in DOMAIN dirs |-> dirs'[e]]
        /\ \A e \in DOMAIN dirs : e # d => dirs'[e] = dirs[e]
        /\ dirs'[d] = [state |-> "kept", env |-> env]
    BY <1>2, <1>3
  <2>3. DirsTyped(dirs') /\ Len(dirs') = Len(dirs)
    BY <1>3, <2>1, <2>2, DirsChange
  <2> QED BY <1>3, <2>2, <2>3
<1>5. /\ MachineStated(machine) /\ HookStated(hooks[h]) /\ hooks[h].language \in SupportsInstallEnv
  BY <1>1 DEF Stated, Progress, ProgressOf, NeedsInstallEnv
<1>6. Serves(env, hooks[h], machine)
  BY <1>2, <1>5, InstallServes
<1>7. NothingGoes
  <2>1. \A e \in DOMAIN dirs : dirs[e].state = "marked" => e \in DOMAIN dirs' /\ dirs'[e] = dirs[e]
    BY <1>1, <1>3, <1>4
  <2> QED BY <1>1, <1>2, <2>1 DEF NothingGoes
<1>8. \A b \in built : b[1] \in 1 .. Len(dirs) /\ dirs'[b[1]] = dirs[b[1]]
  BY <1>1, <1>3, <1>4 DEF TypeOK, MadeFor
<1>9. TypeOK'
  <2>1. Part' = Part
    BY <1>1, <1>4 DEF Part
  <2> QED BY <1>1, <1>4, <2>1 DEF TypeOK, DirsTyped
<1>10. Stated'
  <2>1. machine.managed \cup env.managed \subseteq machine.managed \cup machine.published
    BY <1>6 DEF Serves
  <2>2. MachineStated(machine')
    BY <1>2, <1>5, <2>1, ManagedStated
  <2> QED BY <1>1, <2>2 DEF Stated
<1>11. UsedServe'
  <2>1. \A g \in DOMAIN hooks : using[g] # 0 => NeedsInstallEnv(hooks[g]) /\ using[g] \in InstalledHook(g)'
    BY <1>1, <1>5, <1>7, ServedStays DEF UsedServe
  <2> QED BY <1>1, <2>1 DEF UsedServe
<1>12. Apart'
  BY <1>1 DEF Apart, SameInstallPartition
<1>13. Progress'
  <2> SUFFICES ASSUME NEW q \in DOMAIN parts PROVE ProgressOf(q)'
    BY <1>1 DEF Progress
  <2>1. CASE q = p
    <3>1. ProgressOf(p) /\ Turn(p)' = Turn(p)
      BY <1>1 DEF Progress, Turn
    <3>2. \A e \in parts[p].done : Fit(e)'
      <4> TAKE e \in parts[p].done
      <4>1. Fit(e) /\ dirs'[e] = dirs[e]
        BY <1>7, <3>1, PartTyped, <1>3 DEF ProgressOf, Fit, NothingGoes
      <4> QED BY <1>5, <1>7, <4>1, NothingGoesHealth DEF Fit
    <3>3. \A g \in Turn(p) : Suits(d, g)' /\ CheckHealth(dirs'[d].env, machine')
      <4> TAKE g \in Turn(p)
      <4>1. g = h
        BY <1>1, OneTurn, PartTyped DEF Stated
      <4>2. dirs'[d].env = env
        BY <1>4
      <4> QED BY <1>1, <1>2, <1>6, <4>1, <4>2 DEF Serves, Suits
    <3>4. dirs'[d].state \in {"temporary", "kept"}
      BY <1>4
    <3> QED BY <1>0, <1>1, <2>1, <3>1, <3>2, <3>3, <3>4 DEF ProgressOf
  <2>2. CASE q # p
    <3>1. parts[q].dir # 0 => dirs'[parts[q].dir] = dirs[parts[q].dir]
      BY <1>0, <1>1, <1>3, <1>4, <2>2, PartTyped DEF Apart
    <3> QED BY <1>1, <1>7, <2>2, <3>1, OthersProgress
  <2> QED BY <2>1, <2>2
<1>14. MadeFor'
  <2>1. \A b \in built : dirs'[b[1]].state = "marked" /\ Suits(b[1], b[2])'
    BY <1>1, <1>8 DEF MadeFor, Suits
  <2>2. \A q \in DOMAIN parts, b \in built : MadeForOf(q, b)'
    BY <1>1, <1>8, OthersMadeFor
  <2> QED BY <1>1, <2>1, <2>2 DEF MadeFor
<1>15. BuiltOnce'
  BY <1>1, <1>8 DEF BuiltOnce
<1>16. Settled'
  BY <1>1 DEF Settled
<1> QED BY <1>9, <1>10, <1>11, <1>12, <1>13, <1>14, <1>15, <1>16

LEMMA MarkKeeps ==
    ASSUME EnvironmentsInv, NEW p \in DOMAIN parts, NEW h \in Turn(p), MarkAsInstalled(p, h)
    PROVE  EnvironmentsInv'
<1> USE DEF EnvironmentsInv
<1>0. PICK d : d = parts[p].dir
  OBVIOUS
<1> DEFINE part == [todo |-> parts[p].todo \ {h}, dir |-> 0, done |-> parts[p].done \cup {d}]
<1>1. /\ command = "installing" /\ h \in parts[p].todo /\ h \in DOMAIN hooks
      /\ d # 0 /\ dirs[d].state = "kept"
      /\ dirs' = [dirs EXCEPT ![d].state = "marked"]
      /\ using' = [using EXCEPT ![h] = d]
      /\ built' = built \cup {<<d, h>>}
      /\ parts' = [parts EXCEPT ![p] = part]
      /\ UNCHANGED <<project, machine, altered, hooks, command, runs, ran>>
  BY <1>0, PartTyped DEF Turn, MarkAsInstalled
<1>2. /\ Len(dirs) \in Nat /\ DOMAIN dirs = 1 .. Len(dirs) /\ DirsTyped(dirs) /\ d \in 1 .. Len(dirs)
  <2>1. DirsTyped(dirs)
    BY DEF TypeOK, DirsTyped
  <2>2. Len(dirs) \in Nat /\ DOMAIN dirs = 1 .. Len(dirs)
    BY <2>1, DirsAre
  <2>3. d \in 0 .. Len(dirs) /\ d # 0
    BY <1>0, <1>1, PartTyped
  <2> QED BY <2>1, <2>2, <2>3
<1>3. /\ DirsTyped(dirs') /\ Len(dirs') = Len(dirs) /\ DOMAIN dirs' = 1 .. Len(dirs)
      /\ \A e \in 1 .. Len(dirs) : e # d => dirs'[e] = dirs[e]
      /\ dirs'[d] = [state |-> "marked", env |-> dirs[d].env]
  <2>1. "marked" \in States
    BY DEF States
  <2>2. dirs[d] = [state |-> dirs[d].state, env |-> dirs[d].env]
    BY <1>2, DirsAre
  <2>3. /\ dirs' = [e \in DOMAIN dirs |-> dirs'[e]]
        /\ \A e \in DOMAIN dirs : e # d => dirs'[e] = dirs[e]
        /\ dirs'[d] = [state |-> "marked", env |-> dirs[d].env]
    BY <1>1, <1>2, <2>2
  <2>4. DirsTyped(dirs') /\ Len(dirs') = Len(dirs)
    BY <1>2, <2>1, <2>3, DirsChange
  <2> QED BY <1>2, <2>3, <2>4
<1>4. /\ DOMAIN parts' = DOMAIN parts
      /\ \A q \in DOMAIN parts : q # p => parts'[q] = parts[q]
      /\ parts'[p] = part
  BY <1>1, PartsStep
<1>5. \A b \in built : b[1] \in 1 .. Len(dirs) /\ b[2] \in DOMAIN hooks /\ dirs'[b[1]] = dirs[b[1]]
  BY <1>1, <1>2, <1>3 DEF TypeOK, MadeFor
<1>6. \A g : \A e \in 1 .. Len(dirs) : Suits(e, g)' <=> Suits(e, g)
  <2>1. \A e \in 1 .. Len(dirs) : dirs'[e].env = dirs[e].env
    BY <1>3
  <2> QED BY <1>1, <2>1 DEF Suits
<1>7. Suits(d, h) /\ CheckHealth(dirs[d].env, machine) /\ NeedsInstallEnv(hooks[h])
  BY <1>0, <1>1 DEF Progress, ProgressOf
<1>8. NothingGoes
  <2>1. \A e \in DOMAIN dirs : dirs[e].state = "marked" => e \in DOMAIN dirs' /\ dirs'[e] = dirs[e]
    BY <1>1, <1>2, <1>3
  <2> QED BY <1>1, <2>1, NothingGoesUnchanged DEF Stated
<1>9. TypeOK'
  <2>1. using' \in [DOMAIN hooks' -> 0 .. Len(dirs')]
    BY <1>1, <1>2, <1>3 DEF TypeOK
  <2>2. built' \subseteq (1 .. Len(dirs')) \X DOMAIN hooks'
    BY <1>1, <1>2, <1>3 DEF TypeOK
  <2>3. part \in Part'
    BY <1>1, <1>2, <1>3, PartTyped DEF Part
  <2> HIDE DEF part
  <2>4. DOMAIN parts' \subseteq DOMAIN hooks' /\ parts' \in [DOMAIN parts' -> Part']
    <3>1. Len(dirs) \in Nat /\ Len(dirs') \in Nat /\ Len(dirs) <= Len(dirs') /\ hooks' = hooks
      BY <1>1, <1>2, <1>3
    <3> QED BY <1>1, <2>3, <3>1, PartsStepTyped
  <2> QED BY <1>1, <1>3, <2>1, <2>2, <2>4 DEF TypeOK, DirsTyped
<1>10. Stated'
  BY <1>1 DEF Stated
<1>11. UsedServe'
  <2>1. using'[h] = d /\ \A g \in DOMAIN hooks : g # h => using'[g] = using[g]
    BY <1>1 DEF TypeOK
  <2>2. d \in InstalledHook(h)'
    BY <1>1, <1>2, <1>3, <1>7 DEF InstalledHook, LoadStoreInstalledHooks, Suits
  <2>3. \A g \in DOMAIN hooks :
           using'[g] # 0 => NeedsInstallEnv(hooks[g]) /\ using'[g] \in InstalledHook(g)'
    <3> TAKE g \in DOMAIN hooks
    <3>1. CASE g = h
      BY <1>7, <2>1, <2>2, <3>1
    <3>2. CASE g # h
      BY <1>1, <1>8, <2>1, <3>2, ServedStays DEF UsedServe, Stated
    <3> QED BY <3>1, <3>2
  <2>4. \A g \in DOMAIN hooks : NeedsInstallEnv(hooks[g]) =>
           using'[g] # 0 \/ \E q \in DOMAIN parts' : g \in parts'[q].todo
    <3> SUFFICES ASSUME NEW g \in DOMAIN hooks, NeedsInstallEnv(hooks[g]), using'[g] = 0
                 PROVE  \E q \in DOMAIN parts' : g \in parts'[q].todo
      OBVIOUS
    <3>1. g # h /\ using[g] = 0
      BY <1>1, <2>1
    <3>2. PICK q \in DOMAIN parts : g \in parts[q].todo
      BY <1>1, <3>1 DEF UsedServe
    <3>3. g \in parts'[q].todo
      BY <1>4, <3>1, <3>2
    <3> QED BY <1>4, <3>3
  <2> QED BY <1>1, <2>3, <2>4 DEF UsedServe
<1>12. Apart'
  <2> SUFFICES ASSUME NEW q \in DOMAIN parts, NEW r \in DOMAIN parts, q # r
               PROVE  /\ \A f \in parts'[q].todo, g \in parts'[r].todo : ~SameInstallPartition(f, g)
                      /\ parts'[q].dir # 0 => parts'[q].dir # parts'[r].dir
    BY <1>1, <1>4 DEF Apart, SameInstallPartition
  <2>1. /\ parts'[q].todo \subseteq parts[q].todo /\ parts'[q].dir \in {0, parts[q].dir}
        /\ parts'[r].todo \subseteq parts[r].todo /\ parts'[r].dir \in {0, parts[r].dir}
    BY <1>4
  <2> QED BY <1>1, <2>1 DEF Apart
<1>13. Progress'
  <2> SUFFICES ASSUME NEW q \in DOMAIN parts PROVE ProgressOf(q)'
    BY <1>4 DEF Progress
  <2>1. CASE q = p
    <3>1. ProgressOf(p) /\ parts[p].done \subseteq 1 .. Len(dirs)
      BY <1>1, PartTyped DEF Progress
    <3>2. \A e \in parts[p].done : Fit(e)'
      BY <1>1, <1>2, <1>3, <3>1 DEF ProgressOf, Fit
    <3>3. dirs[d].env.info.language \in SupportsInstallEnv
      BY <1>7 DEF Suits, IsSatisfiedBy, Requirement, NeedsInstallEnv
    <3>4. Fit(d)'
      BY <1>1, <1>3, <1>7, <3>3 DEF Fit
    <3> QED BY <1>1, <1>4, <2>1, <3>1, <3>2, <3>4 DEF ProgressOf
  <2>2. CASE q # p
    <3>1. parts[q].dir # 0 => dirs'[parts[q].dir] = dirs[parts[q].dir]
      BY <1>0, <1>1, <1>2, <1>3, <2>2, PartTyped DEF Apart
    <3> QED BY <1>1, <1>4, <1>8, <2>2, <3>1, OthersProgress
  <2> QED BY <2>1, <2>2
<1>14. MadeFor'
  <2>1. \A b \in built' : dirs'[b[1]].state = "marked" /\ Suits(b[1], b[2])'
    <3> TAKE b \in built'
    <3>1. CASE b \in built
      BY <1>5, <1>6, <3>1 DEF MadeFor
    <3>2. CASE b = <<d, h>>
      BY <1>2, <1>3, <1>6, <1>7, <3>2
    <3> QED BY <1>1, <3>1, <3>2
  <2>2. ASSUME NEW q \in DOMAIN parts, NEW b \in built' PROVE MadeForOf(q, b)'
    <3>1. CASE q = p /\ b \in built
      BY <1>1, <1>4, <3>1 DEF MadeFor, MadeForOf, SameInstallPartition
    <3>2. CASE q = p /\ b = <<d, h>>
      BY <1>4, <3>2 DEF MadeForOf
    <3>3. CASE q # p /\ b \in built
      BY <1>1, <1>4, <1>5, <3>3, OthersMadeFor
    <3>4. CASE q # p /\ b = <<d, h>>
      <4>1. \A g \in parts[q].todo : ~SameInstallPartition(h, g)
        BY <1>1, <3>4 DEF Apart
      <4>2. \A g \in parts[q].todo : ~Suits(d, g)
        BY <1>7, <4>1, OneClass
      <4>3. Turn(q)' \subseteq parts[q].todo /\ parts'[q] = parts[q]
        BY <1>4, <3>4 DEF Turn
      <4>4. b[1] = d /\ b[2] = h
        BY <3>4
      <4> QED BY <1>1, <1>2, <1>6, <4>1, <4>2, <4>3, <4>4 DEF MadeForOf, SameInstallPartition
    <3> QED BY <1>1, <3>1, <3>2, <3>3, <3>4
  <2> QED BY <1>4, <2>1, <2>2 DEF MadeFor
<1>15. BuiltOnce'
  <2> SUFFICES ASSUME NEW a \in built', NEW b \in built', a[1] < b[1]
               PROVE  ~Suits(a[1], b[2])'
    BY DEF BuiltOnce, Suits
  <2>1. CASE a \in built /\ b \in built
    BY <1>5, <1>6, <2>1 DEF BuiltOnce, Suits
  <2>2. CASE a \in built /\ b = <<d, h>>
    BY <1>0, <1>1, <1>5, <1>6, <2>2 DEF MadeFor, MadeForOf
  <2>3. CASE a = <<d, h>> /\ b \in built
    <3>1. Suits(d, b[2]) => SameInstallPartition(b[2], h)
      BY <1>7, OneClass
    <3>2. SameInstallPartition(b[2], h) => b[1] < d
      BY <1>0, <1>1, <2>3 DEF MadeFor, MadeForOf, Progress, ProgressOf
    <3> QED BY <1>2, <1>5, <1>6, <2>3, <3>1, <3>2
  <2>4. CASE a = <<d, h>> /\ b = <<d, h>>
    BY <1>2, <2>4
  <2> QED BY <1>1, <2>1, <2>2, <2>3, <2>4
<1>16. Settled'
  BY <1>1 DEF Settled
<1> QED BY <1>9, <1>10, <1>11, <1>12, <1>13, <1>14, <1>15, <1>16

\* No installation is left.
LEMMA NoParts ==
    /\ \A ps : ps = <<>> => DOMAIN ps = {}
    /\ \A ps, S : ps = <<>> => DOMAIN ps \subseteq S
    /\ \A ps, S : ps = <<>> => ps \in [DOMAIN ps -> S]
<1>1. DOMAIN <<>> = {} /\ <<>> = [p \in {} |-> p]
  OBVIOUS
<1>2. \A S : [p \in {} |-> p] \in [{} -> S]
  OBVIOUS
<1> QED BY <1>1, <1>2

LEMMA FailKeeps ==
    ASSUME EnvironmentsInv, NEW p \in DOMAIN parts, Fail(p)
    PROVE  EnvironmentsInv'
<1> USE DEF EnvironmentsInv
<1>1. /\ dirs' = [d \in DOMAIN dirs |->
                     IF dirs[d].state = "temporary" THEN [state |-> "removed", env |-> NoEnv] ELSE dirs[d]]
      /\ command' = "failed" /\ parts' = <<>>
      /\ UNCHANGED <<project, machine, altered, hooks, runs, using, built, ran>>
  BY DEF Fail
<1>2. Len(dirs) \in Nat /\ DOMAIN dirs = 1 .. Len(dirs) /\ DirsTyped(dirs)
  BY DirsAre DEF TypeOK, DirsTyped
<1>3. dirs' = [d \in DOMAIN dirs |-> dirs'[d]]
      /\ \A d \in DOMAIN dirs : dirs'[d] \in {dirs[d], [state |-> "removed", env |-> NoEnv]}
  BY <1>1
<1>4. DirsTyped(dirs') /\ Len(dirs') = Len(dirs)
  BY <1>2, <1>3, DirsRemoved
<1>5. \A b \in built : dirs'[b[1]] = dirs[b[1]]
  <2> TAKE b \in built
  <2>1. dirs[b[1]].state = "marked" /\ b[1] \in DOMAIN dirs
    BY <1>2 DEF MadeFor, TypeOK
  <2> QED BY <1>1, <2>1
<1>6. TypeOK'
  <2>1. DOMAIN parts' \subseteq DOMAIN hooks' /\ parts' \in [DOMAIN parts' -> Part']
    BY <1>1, NoParts
  <2> QED BY <1>1, <1>4, <2>1 DEF TypeOK, DirsTyped
<1>7. MadeFor'
  BY <1>1, <1>5 DEF MadeFor, Suits
<1>8. BuiltOnce'
  BY <1>1, <1>5 DEF BuiltOnce
<1> QED BY <1>1, <1>6, <1>7, <1>8 DEF Stated, UsedServe, Apart, Progress, Settled

LEMMA DieKeeps ==
    ASSUME EnvironmentsInv, Die
    PROVE  EnvironmentsInv'
<1> USE DEF EnvironmentsInv
<1>1. /\ command' = "died" /\ parts' = <<>>
      /\ UNCHANGED <<project, machine, altered, hooks, dirs, runs, using, built, ran>>
  BY DEF Die
<1>2. TypeOK'
  <2>1. DOMAIN parts' \subseteq DOMAIN hooks' /\ parts' \in [DOMAIN parts' -> Part']
    BY <1>1, NoParts
  <2> QED BY <1>1, <2>1 DEF TypeOK
<1>3. MadeFor'
  BY <1>1 DEF MadeFor, Suits
<1>4. BuiltOnce'
  BY <1>1 DEF BuiltOnce
<1> QED BY <1>1, <1>2, <1>3, <1>4 DEF Stated, UsedServe, Apart, Progress, Settled

LEMMA InstalledKeeps ==
    ASSUME EnvironmentsInv, Installed
    PROVE  EnvironmentsInv'
<1> USE DEF EnvironmentsInv
<1>1. /\ command = "installing" /\ \A p \in DOMAIN parts : parts[p].todo = {}
      /\ command' = "running"
      /\ UNCHANGED <<project, machine, altered, hooks, dirs, runs, using, parts, built, ran>>
  BY DEF Installed
<1>2. TypeOK'
  BY <1>1 DEF TypeOK, Part
<1>3. UsedServe'
  BY <1>1 DEF UsedServe, InstalledHook, LoadStoreInstalledHooks
<1>4. MadeFor'
  BY <1>1 DEF MadeFor, Suits
<1>5. BuiltOnce'
  BY <1>1 DEF BuiltOnce
<1> QED BY <1>1, <1>2, <1>3, <1>4, <1>5 DEF Stated, Apart, Progress, Settled

LEMMA RunKeeps ==
    ASSUME EnvironmentsInv, Run
    PROVE  EnvironmentsInv'
<1> USE DEF EnvironmentsInv
<1>1. /\ command = "running" /\ command' = "ended"
      /\ UNCHANGED <<project, machine, altered, hooks, dirs, runs, using, parts, built>>
  BY DEF Run
<1>2. TypeOK'
  BY <1>1 DEF TypeOK, Part
<1>3. UsedServe'
  BY <1>1 DEF UsedServe, InstalledHook, LoadStoreInstalledHooks
<1>4. MadeFor'
  BY <1>1 DEF MadeFor, Suits
<1>5. BuiltOnce'
  BY <1>1 DEF BuiltOnce
<1>6. Settled'
  <2>1. \A h \in DOMAIN hooks : NeedsInstallEnv(hooks[h]) => InstalledHook(h) # {}
    BY <1>1 DEF UsedServe
  <2>2. \A h \in DOMAIN hooks : NeedsInstallEnv(hooks[h]) => InstalledHook(h)' # {}
    BY <1>1, <2>1 DEF InstalledHook, LoadStoreInstalledHooks
  <2> QED BY <1>1, <2>2 DEF Settled
<1> QED BY <1>1, <1>2, <1>3, <1>4, <1>5, <1>6 DEF Stated, Apart, Progress

LEMMA AlterKeeps ==
    ASSUME EnvironmentsInv, Alter
    PROVE  EnvironmentsInv'
<1> USE DEF EnvironmentsInv
<1>1. /\ altered' = {} /\ command' = "none"
      /\ UNCHANGED <<project, hooks, dirs, runs, using, parts, built, ran>>
  BY DEF Alter
<1>2. PICK m \in altered : machine' = [m EXCEPT !.managed = machine.managed]
  BY DEF Alter
<1>3. MachineStated(machine')
  <2>1. MachineStated(m) /\ MachineStated(machine)
    BY DEF Stated
  <2>2. machine' = [f \in {"system", "managed", "published", "programs", "registry", "vars", "settings"} |->
                       machine'[f]]
    BY <1>2, <2>1 DEF MachineStated
  <2>3. /\ machine'.system = m.system /\ machine'.managed = machine.managed
        /\ machine'.published = m.published /\ machine'.programs = m.programs
    BY <1>2, <2>1 DEF MachineStated
  <2>4. \A t \in machine'.system \cup machine'.managed \cup machine'.published :
           t.tool = "rust" => t.version[1] > 0
    BY <2>1, <2>3 DEF MachineStated
  <2> QED BY <2>1, <2>2, <2>3, <2>4 DEF MachineStated
<1>4. TypeOK'
  BY <1>1 DEF TypeOK, Part
<1>5. MadeFor'
  BY <1>1 DEF MadeFor, Suits
<1>6. BuiltOnce'
  BY <1>1 DEF BuiltOnce
<1> QED BY <1>1, <1>3, <1>4, <1>5, <1>6 DEF Stated, UsedServe, Apart, Progress, Settled

\* What a hook takes, a requirement that the configuration states for it takes too.
LEMMA ConfiguredTakes ==
    ASSUME NEW r, NEW hook, NEW info, IsSatisfiedBy(Requirement(hook), info),
           r.language = hook.language, r.repo = hook.repo.identity, r.dependencies = hook.dependencies,
           \/ r.request.version = hook.request.version
           \/ r.request.version = AnyVersion /\ hook.language # "rust"
    PROVE  IsSatisfiedBy(r, info)
<1>1. /\ info.schema = CurrentSchema /\ info.language = r.language /\ info.repo = r.repo
      /\ info.dependencies = r.dependencies
      /\ SatisfiedBy(hook.language, hook.request.version, info)
  BY DEF IsSatisfiedBy, Requirement
<1>2. Matches(AnyVersion, info.version, info.label)
  BY DEF Matches, AnyVersion
<1>3. SatisfiedBy(r.language, r.request.version, info)
  BY <1>1, <1>2 DEF SatisfiedBy
<1> QED BY <1>1, <1>3 DEF IsSatisfiedBy

LEMMA CollectKeeps ==
    ASSUME EnvironmentsInv, Collect
    PROVE  EnvironmentsInv'
<1> USE DEF EnvironmentsInv
<1>1. /\ Idle
      /\ dirs' = [d \in DOMAIN dirs |-> IF d \in Used THEN dirs[d] ELSE [state |-> "removed", env |-> NoEnv]]
      /\ machine' = [machine EXCEPT !.managed = KeptTools]
      /\ using' = [h \in DOMAIN hooks |-> 0] /\ built' = {}
      /\ UNCHANGED <<project, altered, hooks, command, runs, parts, ran>>
  BY DEF Collect
<1>2. command \notin {"installing", "running"}
  BY <1>1 DEF Idle
<1>3. Len(dirs) \in Nat /\ DOMAIN dirs = 1 .. Len(dirs) /\ DirsTyped(dirs)
  BY DirsAre DEF TypeOK, DirsTyped
<1>4. dirs' = [d \in DOMAIN dirs |-> dirs'[d]]
      /\ \A d \in DOMAIN dirs : dirs'[d] \in {dirs[d], [state |-> "removed", env |-> NoEnv]}
  BY <1>1
<1>5. DirsTyped(dirs') /\ Len(dirs') = Len(dirs)
  BY <1>3, <1>4, DirsRemoved
<1>6. TypeOK'
  <2>1. using' \in [DOMAIN hooks' -> 0 .. Len(dirs')]
    BY <1>1, <1>3, <1>5
  <2>2. Part' = Part
    BY <1>1, <1>5 DEF Part
  <2> QED BY <1>1, <1>5, <2>1, <2>2 DEF TypeOK, DirsTyped
<1>7. Stated'
  <2>1. MachineStated(machine) /\ KeptTools \subseteq machine.managed \cup machine.published
    BY DEF Stated, KeptTools
  <2>2. MachineStated(machine')
    BY <1>1, <2>1, ManagedStated
  <2> QED BY <1>1, <2>2 DEF Stated
<1>8. UsedServe'
  BY <1>1, <1>2 DEF UsedServe
<1>9. Settled'
  <2> SUFFICES ASSUME command = "ended", NEW h \in DOMAIN hooks, NeedsInstallEnv(hooks[h]), Configured(h)'
               PROVE  InstalledHook(h)' # {}
    BY <1>1 DEF Settled
  <2>0. project' = project /\ hooks' = hooks
    BY <1>1
  <2>1. Configured(h)
    BY <2>0 DEF Configured
  <2>2. PICK d \in InstalledHook(h) : TRUE
    BY <2>1 DEF Settled
  <2>3. /\ d \in DOMAIN dirs /\ dirs[d].state = "marked" /\ CheckHealth(dirs[d].env, machine)
        /\ IsSatisfiedBy(Requirement(hooks[h]), dirs[d].env.info)
    BY <2>2 DEF InstalledHook, LoadStoreInstalledHooks
  <2>4. PICK r \in HookEnvRequirements(project) : IsSatisfiedBy(r, dirs[d].env.info)
    BY <2>1, <2>3, ConfiguredTakes DEF Configured
  <2>5. d \in Used
    BY <2>3, <2>4 DEF Used, LoadStoreInstalledHooks
  <2>6. d \in DOMAIN dirs' /\ dirs'[d] = dirs[d]
    BY <1>1, <2>3, <2>5
  <2>7. dirs[d].env.info.language \in SupportsInstallEnv
    BY <2>3 DEF IsSatisfiedBy, Requirement, NeedsInstallEnv
  <2>8. \A t \in machine.managed : InStore(t) = dirs[d].env.info.toolchain => t \in KeptTools
    BY <2>5 DEF KeptTools
  <2>9. MachineStated(machine)
    BY DEF Stated
  <2>10. CheckHealth(dirs[d].env, [machine EXCEPT !.managed = KeptTools])
    BY <2>3, <2>7, <2>8, <2>9, HealthKept
  <2>11. d \in InstalledHook(h)'
    BY <1>1, <2>3, <2>6, <2>10 DEF InstalledHook, LoadStoreInstalledHooks
  <2> QED BY <2>11
<1> QED BY <1>1, <1>2, <1>6, <1>7, <1>8, <1>9 DEF Apart, Progress, MadeFor, BuiltOnce

LEMMA Smallest ==
    ASSUME NEW some \in SUBSET Nat, some # {}
    PROVE  \E x \in some : \A y \in some : x <= y
<1>1. PICK x \in some : \A y \in some : ~(<<y, x>> \in OpToRel(<, Nat))
  BY NatLessThanWellFounded, WFMin
<1>2. ASSUME NEW y \in some PROVE x <= y
  <2>1. x \in Nat /\ y \in Nat
    OBVIOUS
  <2>2. y < x => <<y, x>> \in OpToRel(<, Nat)
    BY <2>1 DEF OpToRel
  <2>3. ~(y < x)
    BY <1>1, <2>2, Zenon
  <2> QED BY <2>1, <2>3
<1> QED BY <1>2

\* Every hook that misses an environment waits for one installation, with those that
\* may share it.
LEMMA Partitioned ==
    ASSUME DOMAIN hooks \subseteq Nat, NEW missing \in SUBSET DOMAIN hooks, NEW ps, ps = PartitionHooks(missing)
    PROVE  /\ ps = [p \in DOMAIN ps |-> ps[p]]
           /\ DOMAIN ps \subseteq missing
           /\ \A p \in DOMAIN ps :
                 /\ ps[p] = [todo |-> ps[p].todo, dir |-> 0, done |-> {}]
                 /\ ps[p].todo \subseteq missing
           /\ \A h \in missing : \E p \in DOMAIN ps : h \in ps[p].todo
           /\ \A p, q \in DOMAIN ps : p # q =>
                 \A g \in ps[p].todo, h \in ps[q].todo : ~SameInstallPartition(g, h)
<1> DEFINE heads == {h \in missing : \A g \in missing : g < h => ~SameInstallPartition(g, h)}
           class(p) == {h \in missing : SameInstallPartition(p, h)}
<1>1. ps = [p \in heads |-> [todo |-> class(p), dir |-> 0, done |-> {}]]
  BY DEF PartitionHooks
<1>2. \A h \in missing : \E p \in heads : SameInstallPartition(p, h)
  <2> TAKE h \in missing
  <2> DEFINE like == {g \in missing : SameInstallPartition(g, h)}
  <2>1. h \in like /\ like \subseteq Nat
    BY DEF SameInstallPartition
  <2>2. PICK p \in like : \A g \in like : p <= g
    <3> HIDE DEF like
    <3> QED BY <2>1, Smallest
  <2>3. ASSUME NEW g \in missing, g < p, SameInstallPartition(g, p) PROVE FALSE
    <3>1. g \in like
      BY <2>2, <2>3 DEF SameInstallPartition
    <3>2. p <= g /\ p \in Nat /\ g \in Nat
      BY <2>1, <2>2, <3>1
    <3> QED BY <2>3, <3>2
  <2> QED BY <2>2, <2>3
<1>3. ASSUME NEW p \in heads, NEW q \in heads, p # q, NEW g \in class(p), NEW h \in class(q),
             SameInstallPartition(g, h)
      PROVE  FALSE
  <2>1. SameInstallPartition(p, q) /\ SameInstallPartition(q, p)
    BY <1>3 DEF SameInstallPartition
  <2>2. p \in Nat /\ q \in Nat /\ p \in missing /\ q \in missing
    OBVIOUS
  <2> QED BY <1>3, <2>1, <2>2
<1> HIDE DEF heads
<1>4. /\ ps = [p \in DOMAIN ps |-> ps[p]] /\ DOMAIN ps = heads
      /\ \A p \in heads : ps[p] = [todo |-> class(p), dir |-> 0, done |-> {}]
  BY <1>1
<1>5. \A p \in heads : ps[p].todo = class(p)
  BY <1>4
<1>6. heads \subseteq missing
  BY DEF heads
<1>7. \A h \in missing : \E p \in heads : h \in ps[p].todo
  BY <1>2, <1>5
<1> HIDE DEF class
<1>8. \A p \in heads : class(p) \subseteq missing
  BY DEF class
<1> QED BY <1>3, <1>4, <1>5, <1>6, <1>7, <1>8

LEMMA BeginKeeps ==
    ASSUME EnvironmentsInv, Begin
    PROVE  EnvironmentsInv'
<1> USE DEF EnvironmentsInv
<1>1. /\ runs' = runs + 1 /\ command' = "installing" /\ built' = {}
      /\ UNCHANGED <<project, machine, altered, hooks, dirs>>
  BY DEF Begin
<1>2. PICK found \in [DOMAIN hooks -> {0} \cup DOMAIN dirs] :
         /\ \A h \in DOMAIN hooks :
               IF NeedsInstallEnv(hooks[h]) /\ InstalledHook(h) # {} THEN found[h] \in InstalledHook(h)
               ELSE found[h] = 0
         /\ using' = found
         /\ parts' = PartitionHooks({h \in DOMAIN hooks : NeedsInstallEnv(hooks[h]) /\ found[h] = 0})
  BY DEF Begin
<1> DEFINE missing == {h \in DOMAIN hooks : NeedsInstallEnv(hooks[h]) /\ found[h] = 0}
<1>3. parts' = PartitionHooks(missing) /\ missing \in SUBSET DOMAIN hooks
  BY <1>2
<1>4. \A h \in missing : h \in DOMAIN hooks /\ NeedsInstallEnv(hooks[h]) /\ found[h] = 0
  OBVIOUS
<1>5. \A h \in DOMAIN hooks : NeedsInstallEnv(hooks[h]) /\ found[h] = 0 => h \in missing
  OBVIOUS
<1> HIDE DEF missing
<1>6. /\ parts' = [p \in DOMAIN parts' |-> parts'[p]]
      /\ DOMAIN parts' \subseteq missing
      /\ \A p \in DOMAIN parts' :
            /\ parts'[p] = [todo |-> parts'[p].todo, dir |-> 0, done |-> {}]
            /\ parts'[p].todo \subseteq missing
      /\ \A h \in missing : \E p \in DOMAIN parts' : h \in parts'[p].todo
      /\ \A p, q \in DOMAIN parts' : p # q =>
            \A g \in parts'[p].todo, h \in parts'[q].todo : ~SameInstallPartition(g, h)
  BY <1>3, Partitioned DEF Stated
<1>7. Len(dirs) \in Nat /\ DOMAIN dirs = 1 .. Len(dirs)
  BY DirsAre DEF TypeOK, DirsTyped
<1>8. \A p \in DOMAIN parts' : parts'[p].dir = 0 /\ parts'[p].done = {}
  BY <1>6
<1>9. TypeOK'
  <2>1. using' \in [DOMAIN hooks' -> 0 .. Len(dirs')]
    BY <1>1, <1>2, <1>7
  <2>2. \A p \in DOMAIN parts' : parts'[p] \in Part'
    <3> TAKE p \in DOMAIN parts'
    <3>1. parts'[p].todo \in SUBSET DOMAIN hooks'
      BY <1>1, <1>3, <1>6
    <3>2. 0 \in 0 .. Len(dirs') /\ {} \in SUBSET (1 .. Len(dirs'))
      BY <1>1, <1>7
    <3>3. parts'[p] = [todo |-> parts'[p].todo, dir |-> 0, done |-> {}]
      BY <1>6
    <3> QED BY <3>1, <3>2, <3>3 DEF Part
  <2>3. parts' \in [DOMAIN parts' -> Part']
    BY <1>6, <2>2
  <2>4. DOMAIN parts' \subseteq DOMAIN hooks'
    BY <1>1, <1>3, <1>6
  <2> QED BY <1>1, <2>1, <2>3, <2>4 DEF TypeOK
<1>10. Stated'
  BY <1>1 DEF Stated
<1>11. UsedServe'
  <2>1. \A h : InstalledHook(h)' = InstalledHook(h)
    BY <1>1 DEF InstalledHook, LoadStoreInstalledHooks
  <2>2. \A h \in DOMAIN hooks : found[h] # 0 => NeedsInstallEnv(hooks[h]) /\ found[h] \in InstalledHook(h)
    BY <1>2
  <2>3. \A h \in DOMAIN hooks : NeedsInstallEnv(hooks[h]) =>
           found[h] # 0 \/ \E p \in DOMAIN parts' : h \in parts'[p].todo
    BY <1>5, <1>6
  <2> QED BY <1>1, <1>2, <2>1, <2>2, <2>3 DEF UsedServe
<1>12. Apart'
  BY <1>1, <1>6, <1>8 DEF Apart, SameInstallPartition
<1>13. Progress'
  BY <1>1, <1>4, <1>6, <1>8 DEF Progress, ProgressOf
<1>14. MadeFor' /\ BuiltOnce' /\ Settled'
  BY <1>1 DEF MadeFor, BuiltOnce, Settled
<1> QED BY <1>9, <1>10, <1>11, <1>12, <1>13, <1>14

(***************************************************************************)
(* The theorems.                                                           *)
(***************************************************************************)
LEMMA InitHolds == ASSUME Init PROVE EnvironmentsInv
<1>1. PICK s \in Scenarios : \E hs \in BuildHooks(s.project, Predefined) :
         /\ project = s.project /\ machine = s.machine /\ altered = s.altered /\ hooks = hs
         /\ dirs = <<>> /\ command = "none" /\ runs = 0
         /\ using = [h \in DOMAIN hs |-> 0]
         /\ parts = <<>> /\ built = {}
  BY DEF Init
<1>2. /\ machine = s.machine /\ altered = s.altered /\ hooks \in BuildHooks(s.project, Predefined)
      /\ dirs = <<>> /\ command = "none" /\ runs = 0 /\ using = [h \in DOMAIN hooks |-> 0]
      /\ parts = <<>> /\ built = {}
  BY <1>1
<1>3. Stated
  <2>1. ProjectStated(s.project) /\ MachineStated(s.machine) /\ \A m \in s.altered : MachineStated(m)
    BY ScenariosAssumption
  <2>2. PredefinedStated
    BY ScenariosAssumption DEF PredefinedStated
  <2>3. DOMAIN hooks \subseteq Nat /\ \A h \in DOMAIN hooks : HookStated(hooks[h])
    BY <1>2, <2>1, <2>2, BuiltHooksStated
  <2> QED BY <1>2, <2>1, <2>3 DEF Stated
<1>4. TypeOK
  <2>1. dirs \in Seq([state : States, env : {dirs[d].env : d \in DOMAIN dirs}]) /\ Len(dirs) = 0
    BY <1>2
  <2>2. DOMAIN parts \subseteq DOMAIN hooks /\ parts \in [DOMAIN parts -> Part]
    BY <1>2, NoParts
  <2> QED BY <1>2, <2>1, <2>2 DEF TypeOK
<1> QED BY <1>2, <1>3, <1>4 DEF EnvironmentsInv, UsedServe, Apart, Progress, MadeFor, BuiltOnce, Settled

LEMMA StepHolds == ASSUME EnvironmentsInv, [Next]_vars PROVE EnvironmentsInv'
<1>1. CASE Begin
  BY <1>1, BeginKeeps
<1>2. CASE Installed
  BY <1>2, InstalledKeeps
<1>3. CASE Run
  BY <1>3, RunKeeps
<1>4. CASE Die
  BY <1>4, DieKeeps
<1>5. CASE Alter
  BY <1>5, AlterKeeps
<1>6. CASE Collect
  BY <1>6, CollectKeeps
<1>7. ASSUME NEW p \in DOMAIN parts, NEW h \in Turn(p),
             Share(p, h) \/ MakeDir(p, h) \/ Persist(p, h) \/ MarkAsInstalled(p, h)
      PROVE  EnvironmentsInv'
  BY <1>7, ShareKeeps, MakeDirKeeps, PersistKeeps, MarkKeeps
<1>8. ASSUME NEW p \in DOMAIN parts, Fail(p) PROVE EnvironmentsInv'
  BY <1>8, FailKeeps
<1>9. CASE UNCHANGED vars
  <2>1. UNCHANGED <<project, machine, altered, hooks, dirs, command, runs, using, parts, built, ran>>
    BY <1>9 DEF vars
  <2>2. TypeOK'
    BY <2>1 DEF EnvironmentsInv, TypeOK, Part
  <2>3. Stated' /\ Apart' /\ BuiltOnce'
    BY <2>1 DEF EnvironmentsInv, Stated, Apart, SameInstallPartition, BuiltOnce
  <2>4. UsedServe'
    BY <2>1 DEF EnvironmentsInv, UsedServe, InstalledHook, LoadStoreInstalledHooks
  <2>5. Progress'
    BY <2>1 DEF EnvironmentsInv, Progress, ProgressOf, Fit, Turn, Suits
  <2>6. MadeFor'
    BY <2>1 DEF EnvironmentsInv, MadeFor, MadeForOf, Turn, Suits, SameInstallPartition
  <2>7. Settled'
    BY <2>1 DEF EnvironmentsInv, Settled, Configured, InstalledHook, LoadStoreInstalledHooks
  <2> QED BY <2>2, <2>3, <2>4, <2>5, <2>6, <2>7 DEF EnvironmentsInv
<1> QED BY <1>1, <1>2, <1>3, <1>4, <1>5, <1>6, <1>7, <1>8, <1>9 DEF Next, Step

LEMMA EnvironmentsInvariant == Spec => []EnvironmentsInv
<1>1. Init => EnvironmentsInv
  BY InitHolds
<1>2. EnvironmentsInv /\ [Next]_vars => EnvironmentsInv'
  BY StepHolds
<1> QED BY <1>1, <1>2, PTL DEF Spec

\* The state is well formed: every directory of the store is temporary, kept, marked or
\* removed, and every hook and installation refers to directories that there are.
THEOREM EnvironmentsTyping == Spec => []TypeOK
<1>1. EnvironmentsInv => TypeOK
  BY DEF EnvironmentsInv
<1> QED BY <1>1, EnvironmentsInvariant, PTL

\* No run builds an environment for a hook that one it began earlier would have served,
\* however many installations go on at a time, fail, or meet a machine that changed.
THEOREM NothingIsBuiltTwice == Spec => []BuiltOnce
<1>1. EnvironmentsInv => BuiltOnce
  BY DEF EnvironmentsInv
<1> QED BY <1>1, EnvironmentsInvariant, PTL

\* After a run that ended, the next one finds an environment for every hook: what a
\* language records satisfies the requirement it was built for, stays healthy, and is
\* seen by the collector as used.
THEOREM RunsSettle == Spec => []Settled
<1>1. EnvironmentsInv => Settled
  BY DEF EnvironmentsInv
<1> QED BY <1>1, EnvironmentsInvariant, PTL

\* Whatever was found, shared or installed, no hook is run in an environment that does
\* not serve it: neither a failed installation nor another hook's leads to one.
THEOREM HooksAreServed == Spec => []Served
<1>1. EnvironmentsInv => Served
  BY DEF EnvironmentsInv, UsedServe, Served
<1> QED BY <1>1, EnvironmentsInvariant, PTL

(***************************************************************************)
(* What the hooks are run with: the second invariant.                      *)
(***************************************************************************)
\* The label of a toolchain is the one that is recorded; of rust it may be left out, and
\* a toolchain of no channel is recorded as a stable one.
LabelOf(info, t) ==
    \/ info.label = t.label
    \/ info.language = "rust" /\ (info.label = "none" \/ (info.label = "stable" /\ t.label = "none"))

\* What is recorded of a toolchain: what stands at its place in the recorded version, now
\* or on a machine to come, has the recorded label; and until the machine changes, what
\* stands there has that version.
Toolchained(info) ==
    info.language \in SupportsLanguageVersion =>
        /\ info.toolchain.tool = ToolOf(info.language)
        /\ info.toolchain.place \in {"system", "managed"}
        /\ altered # {} \/ info.toolchain.place = "managed" => SameVersion(info, machine)
        /\ \A m \in {machine} \cup altered : \A t \in At(info.toolchain, m) :
              t.version = info.version => LabelOf(info, t)

\* The programs of an environment are of packages or the toolchain itself; that of python
\* is there.
Furnished(env) ==
    /\ \A p \in env.programs : p.from = env.info.toolchain \/ p.from.place = "package"
    /\ env.info.language = "python" => Named1(env.programs, "python") # {}

\* An environment of the hook's repository and dependencies has the programs that these
\* install and no others of their names.
SharedWith(info, h) ==
    /\ info.language = hooks[h].language /\ info.repo = hooks[h].repo.identity
    /\ info.dependencies = hooks[h].dependencies

EquippedFor(env, h) ==
    SharedWith(env.info, h) /\ OnePackage(h) =>
        /\ \A p \in env.programs : p.from \in Owners(hooks[h], p.name) \cup {env.info.toolchain}
        /\ \/ env.info.language = "docker" \/ Split(hooks[h].entry) = {}
           \/ Owners(hooks[h], hooks[h].entry[1].name) = {}
           \/ Named1(env.programs, hooks[h].entry[1].name) # {}

EquippedWith(env) ==
    /\ Toolchained(env.info) /\ Furnished(env)
    /\ \A h \in DOMAIN hooks : EquippedFor(env, h)

Equipped ==
    \A d \in DOMAIN dirs : dirs[d].state \in {"kept", "marked"} => EquippedWith(dirs[d].env)

\* Hooks of one repository see one tree.
HooksAgree ==
    \A g, h \in DOMAIN hooks :
        /\ hooks[g].work = hooks[h].work
        /\ hooks[g].repo.identity = hooks[h].repo.identity =>
              hooks[g].repo.kind = hooks[h].repo.kind /\ hooks[g].repo.tree = hooks[h].repo.tree

WorldStays == \A m \in altered : SameWorld(machine, m)

RunsInv ==
    /\ EnvironmentsInv
    /\ HooksAgree
    /\ WorldStays
    /\ Equipped
    /\ HonoursRequest
    /\ RunsItsOwn

(***************************************************************************)
(* What is installed.                                                      *)
(***************************************************************************)
\* The programs of a hook's package and those of its dependencies.
PackagePrograms(hook, with) == {Program(n, Owner(hook), with) : n \in OwnPrograms(hook)}

DependencyPrograms(hook, with) ==
    UNION {{Program(n, Package(d.package), with) : n \in Installs(hook, d)} : d \in Dependencies(hook)}

\* The program of a toolchain, which stands in the environments of python and ruby.
Linked(env) == Program(env.info.language, env.info.toolchain, "none")

Filled(env, hook) ==
    /\ env.info.language = hook.language
    /\ \E with :
          /\ PackagePrograms(hook, with) \cup DependencyPrograms(hook, with) \subseteq env.programs
          /\ env.programs \subseteq
                PackagePrograms(hook, with) \cup DependencyPrograms(hook, with) \cup {Linked(env)}
    /\ hook.language = "python" => Linked(env) \in env.programs

LEMMA Ownership ==
    ASSUME NEW hook, NEW name, NEW x
    PROVE  x \in Owners(hook, name) <=>
               \/ name \in OwnPrograms(hook) /\ x = Owner(hook)
               \/ \E d \in Dependencies(hook) : name \in Installs(hook, d) /\ x = Package(d.package)
BY DEF Owners

\* The files of the languages that build the hook's package.
LEMMA FilesOf ==
    /\ PackageFiles("python") = {"pyproject.toml"} /\ PackageFiles("node") = {"package.json"}
    /\ PackageFiles("bun") = {"package.json"} /\ PackageFiles("golang") = {"go.mod"}
    /\ PackageFiles("ruby") = {"gemspec", "gem"} /\ PackageFiles("dart") = {"pubspec.yaml"}
    /\ PackageFiles("php") = {"composer.json"} /\ PackageFiles("lua") = {"rockspec"}
    /\ PackageFiles("perl") = {"Makefile.PL"} /\ PackageFiles("haskell") = {".cabal"}
    /\ PackageFiles("conda") = {"environment.yml"}
    /\ PackageFiles("coursier") = {".pre-commit-channel"}
    /\ PackageFiles("swift") = {"Package.swift"} /\ PackageFiles("docker") = {"Dockerfile"}
    /\ \A language \in {"deno", "dotnet", "mise", "julia", "pygrep", "r"} : PackageFiles(language) = {}
BY DEF PackageFiles

LEMMA OwnOfRemote ==
    ASSUME NEW hook, hook.language # "rust", Remote(hook)
    PROVE  OwnPrograms(hook) =
               UNION {hook.repo.tree[f].programs : f \in PackageFiles(hook.language) \cap DOMAIN hook.repo.tree}
BY DEF OwnPrograms, Source

LEMMA OwnOfLocal ==
    ASSUME NEW hook, ~Remote(hook), hook.language \notin {"dart", "haskell"}
    PROVE  OwnPrograms(hook) = {}
BY DEF OwnPrograms, Remote

\* What one file of a tree declares.
LEMMA OneFile ==
    ASSUME NEW tree, NEW file
    PROVE  UNION {tree[f].programs : f \in {file} \cap DOMAIN tree} =
               IF file \in DOMAIN tree THEN tree[file].programs ELSE {}
<1>1. CASE file \in DOMAIN tree
  <2>1. {file} \cap DOMAIN tree = {file}
    BY <1>1
  <2>2. {tree[f].programs : f \in {file}} = {tree[file].programs}
    OBVIOUS
  <2> QED BY <1>1, <2>1, <2>2
<1>2. CASE file \notin DOMAIN tree
  <2>1. {file} \cap DOMAIN tree = {}
    BY <1>2
  <2> QED BY <1>2, <2>1
<1> QED BY <1>1, <1>2

\* What is built of the repository.
LEMMA OursAre ==
    ASSUME NEW hook, NEW file, NEW with, PackageFiles(hook.language) = {file},
           hook.language \notin {"rust", "dart", "haskell"}
    PROVE  Ours(hook, file, with) = PackagePrograms(hook, with)
<1>1. CASE Remote(hook) /\ file \in DOMAIN hook.repo.tree
  <2>1. OwnPrograms(hook) = hook.repo.tree[file].programs
    BY <1>1, OwnOfRemote, OneFile
  <2> QED BY <1>1, <2>1 DEF Ours, PackagePrograms
<1>2. CASE Remote(hook) /\ file \notin DOMAIN hook.repo.tree
  <2>1. OwnPrograms(hook) = {}
    BY <1>2, OwnOfRemote, OneFile
  <2> QED BY <1>2, <2>1 DEF Ours, PackagePrograms
<1>3. CASE ~Remote(hook)
  <2>1. OwnPrograms(hook) = {}
    BY <1>3, OwnOfLocal
  <2> QED BY <1>3, <2>1 DEF Ours, PackagePrograms
<1> QED BY <1>1, <1>2, <1>3

\* What is built of the directory a hook is relative to.
LEMMA FromSourceAre ==
    ASSUME NEW hook, NEW file, NEW with, PackageFiles(hook.language) = {file},
           hook.language \in {"dart", "haskell", "docker"}, hook.language = "docker" => Remote(hook)
    PROVE  FromSource(hook, file, with) = PackagePrograms(hook, with)
<1>1. OwnPrograms(hook) =
         UNION {Source(hook)[f].programs : f \in PackageFiles(hook.language) \cap DOMAIN Source(hook)}
  BY DEF OwnPrograms
<1>2. CASE file \in DOMAIN Source(hook)
  <2>1. OwnPrograms(hook) = Source(hook)[file].programs
    BY <1>1, <1>2, OneFile
  <2> QED BY <1>2, <2>1 DEF FromSource, PackagePrograms
<1>3. CASE file \notin DOMAIN Source(hook)
  <2>1. OwnPrograms(hook) = {}
    BY <1>1, <1>3, OneFile
  <2> QED BY <1>3, <2>1 DEF FromSource, PackagePrograms
<1> QED BY <1>2, <1>3

LEMMA NothingOfOurs ==
    ASSUME NEW hook, NEW with, hook.language \in {"deno", "dotnet", "mise", "julia", "pygrep", "r"}
    PROVE  OwnPrograms(hook) = {} /\ PackagePrograms(hook, with) = {}
<1>1. PackageFiles(hook.language) = {}
  BY FilesOf
<1>2. OwnPrograms(hook) = {}
  BY <1>1 DEF OwnPrograms
<1> QED BY <1>2 DEF PackagePrograms

\* What a registry has of the dependencies.
LEMMA TheirsAre ==
    ASSUME NEW hook, NEW with,
           hook.language \in SupportsDependency \ {"dart", "julia", "r", "rust", "deno"}
    PROVE  Theirs(Range(hook.dependencies), with, machine) = DependencyPrograms(hook, with)
<1>1. \A d : Installs(hook, d) = machine.registry[d.package]
  BY DEF Installs
<1> QED BY <1>1 DEF Theirs, DependencyPrograms, Dependencies

LEMMA NothingOfTheirs ==
    ASSUME NEW hook, NEW with, hook.language \in {"dart", "julia", "r", "swift", "pygrep", "docker"}
    PROVE  (\A d : Installs(hook, d) = {}) /\ DependencyPrograms(hook, with) = {}
<1>1. hook.language \notin SupportsDependency \ {"dart", "julia", "r"}
  BY DEF SupportsDependency
<1>2. \A d : Installs(hook, d) = {}
  BY <1>1 DEF Installs
<1> QED BY <1>2 DEF DependencyPrograms

\* A dependency of deno may be renamed.
LEMMA RenamedAre ==
    ASSUME NEW hook, hook.language = "deno"
    PROVE  UNION {Renamed(d, machine) : d \in Range(hook.dependencies)} = DependencyPrograms(hook, "deno")
<1>1. hook.language \in SupportsDependency \ {"dart", "julia", "r"}
  BY DEF SupportsDependency, Languages
<1>2. ASSUME NEW d
      PROVE  Renamed(d, machine) = {Program(n, Package(d.package), "deno") : n \in Installs(hook, d)}
  <2>1. CASE d.as = ""
    <3>1. Installs(hook, d) = machine.registry[d.package]
      BY <1>1, <2>1 DEF Installs
    <3> QED BY <2>1, <3>1 DEF Renamed, Theirs
  <2>2. CASE d.as # ""
    <3>1. Installs(hook, d) = {d.as}
      BY <1>1, <2>2 DEF Installs
    <3> QED BY <2>2, <3>1 DEF Renamed
  <2> QED BY <2>1, <2>2
<1> QED BY <1>2 DEF DependencyPrograms, Dependencies

\* Of rust, the programs of other crates alone are installed.
LEMMA CratesAre ==
    ASSUME NEW hook, hook.language = "rust"
    PROVE  /\ Theirs(CliDependencies(hook), "none", machine) = DependencyPrograms(hook, "none")
           /\ InstallLocalProject(hook) = PackagePrograms(hook, "none")
<1>1. hook.language \in SupportsDependency \ {"dart", "julia", "r"}
  BY DEF SupportsDependency, Languages
<1>2. \A d : Installs(hook, d) = IF d.cli THEN machine.registry[d.package] ELSE {}
  BY <1>1 DEF Installs
<1>3. Theirs(CliDependencies(hook), "none", machine) = DependencyPrograms(hook, "none")
  BY <1>2 DEF Theirs, DependencyPrograms, Dependencies, CliDependencies
<1>4. InstallLocalProject(hook) = PackagePrograms(hook, "none")
  <2>1. CASE Remote(hook)
    <3>1. OwnPrograms(hook) = FindPackageDir(hook)
      BY <2>1 DEF OwnPrograms
    <3> QED BY <2>1, <3>1 DEF InstallLocalProject, PackagePrograms
  <2>2. CASE ~Remote(hook)
    <3>1. OwnPrograms(hook) = {}
      BY <2>2, OwnOfLocal
    <3> QED BY <2>2, <3>1 DEF InstallLocalProject, PackagePrograms
  <2> QED BY <2>1, <2>2
<1> QED BY <1>3, <1>4

\* The last of a package's versions is installed, and so is the package.
LEMMA LastTools ==
    ASSUME NEW dependencies, dependencies \in Seq(Range(dependencies)),
           NEW last, last = {dependencies[i] : i \in {j \in DOMAIN dependencies : InstallTool(dependencies, j)}},
           NEW with
    PROVE  Theirs(last, with, machine) = Theirs(Range(dependencies), with, machine)
<1> DEFINE n == Len(dependencies)
<1>1. n \in Nat /\ DOMAIN dependencies = 1 .. n
  OBVIOUS
<1>2. ASSUME NEW i \in 1 .. n
      PROVE  \E k \in 1 .. n : InstallTool(dependencies, k) /\ dependencies[k].package = dependencies[i].package
  <2> DEFINE same   == {j \in 1 .. n : dependencies[j].package = dependencies[i].package}
             behind == {n - j : j \in same}
  <2>1. i \in same /\ behind \in SUBSET Nat /\ behind # {}
    BY <1>1
  <2>2. PICK x \in behind : \A y \in behind : x <= y
    <3> HIDE DEF behind
    <3> QED BY <2>1, Smallest
  <2>3. PICK k \in same : x = n - k
    BY <2>2
  <2>4. \A j \in same : n - k <= n - j
    BY <2>2, <2>3
  <2>5. \A j \in k + 1 .. n : dependencies[j].package # dependencies[k].package
    <3> TAKE j \in k + 1 .. n
    <3>1. k \in 1 .. n /\ dependencies[k].package = dependencies[i].package
      BY <2>3
    <3>2. j \in 1 .. n /\ ~(n - k <= n - j)
      BY <1>1, <3>1
    <3> QED BY <2>4, <3>1, <3>2
  <2> QED BY <2>3, <2>5 DEF InstallTool
<1> HIDE DEF n
<1>3. \A d \in Range(dependencies) : \E e \in last : e.package = d.package
  <2> TAKE d \in Range(dependencies)
  <2>1. PICK i \in 1 .. n : d = dependencies[i]
    BY <1>1 DEF Range
  <2>2. PICK k \in 1 .. n : InstallTool(dependencies, k) /\ dependencies[k].package = dependencies[i].package
    BY <1>2
  <2> QED BY <1>1, <2>1, <2>2
<1>4. last \subseteq Range(dependencies)
  BY DEF Range
<1> DEFINE of(name) == {Program(p, Package(name), with) : p \in machine.registry[name]}
<1>5. \A S : Theirs(S, with, machine) = UNION {of(d.package) : d \in S}
  BY DEF Theirs
<1> HIDE DEF of
<1>6. \A d \in Range(dependencies) : of(d.package) \subseteq UNION {of(e.package) : e \in last}
  BY <1>3
<1>7. UNION {of(d.package) : d \in Range(dependencies)} = UNION {of(d.package) : d \in last}
  BY <1>4, <1>6
<1> QED BY <1>5, <1>7

\* The gems of a repository.
LEMMA GemsAre ==
    ASSUME NEW hook, hook.language = "ruby"
    PROVE  BuildGemspecs(hook) = PackagePrograms(hook, "ruby")
<1> DEFINE tree == hook.repo.tree
           declared(f) == IF f \in DOMAIN tree THEN tree[f].programs ELSE {}
           all == {tree[f].programs : f \in {"gemspec", "gem"} \cap DOMAIN tree}
<1>1. CASE Remote(hook)
  <2>1. OwnPrograms(hook) = UNION all
    BY <1>1, OwnOfRemote, FilesOf
  <2>2. UNION all = declared("gemspec") \cup declared("gem")
    OBVIOUS
  <2>3. \A f : Ours(hook, f, "ruby") = {Program(n, Owner(hook), "ruby") : n \in declared(f)}
    BY <1>1 DEF Ours
  <2> HIDE DEF all, declared
  <2> QED BY <2>1, <2>2, <2>3 DEF BuildGemspecs, PackagePrograms
<1>2. CASE ~Remote(hook)
  <2>1. OwnPrograms(hook) = {}
    BY <1>2, OwnOfLocal
  <2> QED BY <1>2, <2>1 DEF BuildGemspecs, Ours, PackagePrograms
<1> QED BY <1>1, <1>2

\* What is recorded of a toolchain that was found.
RecordedOf(info, found, hook) ==
    /\ info.language = hook.language
    /\ info.toolchain = found.at
    /\ info.version = found.tool.version
    /\ info.label = IF hook.language = "rust" THEN RustLabel(hook, found) ELSE found.tool.label

LEMMA RecordedSo ==
    ASSUME NEW hook, NEW found
    PROVE  /\ hook.language # "rust" => RecordedOf(Recorded(hook, found), found, hook)
           /\ hook.language = "rust" =>
                 RecordedOf([Recorded(hook, found) EXCEPT !.label = RustLabel(hook, found)], found, hook)
<1>1. /\ Recorded(hook, found) = [f \in {"schema", "language", "version", "repo", "dependencies", "toolchain", "label"} |->
                                    Recorded(hook, found)[f]]
      /\ Recorded(hook, found).language = hook.language /\ Recorded(hook, found).toolchain = found.at
      /\ Recorded(hook, found).version = found.tool.version /\ Recorded(hook, found).label = found.tool.label
  BY DEF Recorded, NewInfo
<1> QED BY <1>1 DEF RecordedOf

\* What installing a hook makes of a toolchain that was found, the programs of packages
\* and perhaps the toolchain's own.
MadeWith(env, hook, found) ==
    /\ RecordedOf(env.info, found, hook)
    /\ env.managed = Kept(found, machine)
    /\ Filled(env, hook)

LEMMA FilledWith ==
    ASSUME NEW env, NEW hook, NEW with, hook.language # "python", env.info.language = hook.language,
           env.programs = PackagePrograms(hook, with) \cup DependencyPrograms(hook, with)
    PROVE  Filled(env, hook)
BY DEF Filled

LEMMA Supported ==
    /\ {"bun", "node", "golang", "python", "ruby", "dotnet", "mise", "conda", "coursier", "haskell",
        "lua", "perl", "php"} \subseteq SupportsDependency \ {"dart", "julia", "r", "rust", "deno"}
BY DEF SupportsDependency, Languages

LEMMA VersionedFills ==
    ASSUME NEW hook, hook.language \in SupportsLanguageVersion \ {"mise"}, HookStated(hook),
           NEW env \in Install(hook, machine)
    PROVE  \E found \in Provide(ToolOf(hook.language), hook, machine) : MadeWith(env, hook, found)
<1>1. CASE hook.language = "node"
  <2>1. env \in InstallNode(hook, machine) /\ ToolOf(hook.language) = "node"
    BY <1>1 DEF Install, ToolOf
  <2>2. PICK found \in Provide("node", hook, machine) : env \in Built(hook, found, "package.json", "node", machine)
    BY <2>1 DEF InstallNode
  <2>3. /\ env.info = Recorded(hook, found) /\ env.managed = Kept(found, machine)
        /\ env.programs = Ours(hook, "package.json", "node") \cup Theirs(Range(hook.dependencies), "node", machine)
    BY <2>2 DEF Built, Environment
  <2>4. RecordedOf(env.info, found, hook)
    BY <1>1, <2>3, RecordedSo
  <2>5. env.programs = PackagePrograms(hook, "node") \cup DependencyPrograms(hook, "node")
    BY <1>1, <2>3, FilesOf, Supported, OursAre, TheirsAre
  <2>6. Filled(env, hook)
    BY <1>1, <2>4, <2>5, FilledWith DEF RecordedOf
  <2> QED BY <2>1, <2>3, <2>4, <2>6 DEF MadeWith
<1>2. CASE hook.language = "bun"
  <2>1. env \in InstallBun(hook, machine) /\ ToolOf(hook.language) = "bun"
    BY <1>2 DEF Install, ToolOf
  <2>2. PICK found \in Provide("bun", hook, machine) : env \in Built(hook, found, "package.json", "bun", machine)
    BY <2>1 DEF InstallBun
  <2>3. /\ env.info = Recorded(hook, found) /\ env.managed = Kept(found, machine)
        /\ env.programs = Ours(hook, "package.json", "bun") \cup Theirs(Range(hook.dependencies), "bun", machine)
    BY <2>2 DEF Built, Environment
  <2>4. RecordedOf(env.info, found, hook)
    BY <1>2, <2>3, RecordedSo
  <2>5. env.programs = PackagePrograms(hook, "bun") \cup DependencyPrograms(hook, "bun")
    BY <1>2, <2>3, FilesOf, Supported, OursAre, TheirsAre
  <2>6. Filled(env, hook)
    BY <1>2, <2>4, <2>5, FilledWith DEF RecordedOf
  <2> QED BY <2>1, <2>3, <2>4, <2>6 DEF MadeWith
<1>3. CASE hook.language = "golang"
  <2>1. env \in InstallGolang(hook, machine) /\ ToolOf(hook.language) = "go"
    BY <1>3 DEF Install, ToolOf
  <2>2. PICK found \in Provide("go", hook, machine) : env \in Built(hook, found, "go.mod", "none", machine)
    BY <2>1 DEF InstallGolang
  <2>3. /\ env.info = Recorded(hook, found) /\ env.managed = Kept(found, machine)
        /\ env.programs = Ours(hook, "go.mod", "none") \cup Theirs(Range(hook.dependencies), "none", machine)
    BY <2>2 DEF Built, Environment
  <2>4. RecordedOf(env.info, found, hook)
    BY <1>3, <2>3, RecordedSo
  <2>5. env.programs = PackagePrograms(hook, "none") \cup DependencyPrograms(hook, "none")
    BY <1>3, <2>3, FilesOf, Supported, OursAre, TheirsAre
  <2>6. Filled(env, hook)
    BY <1>3, <2>4, <2>5, FilledWith DEF RecordedOf
  <2> QED BY <2>1, <2>3, <2>4, <2>6 DEF MadeWith
<1>4. CASE hook.language = "deno"
  <2>1. env \in InstallDeno(hook, machine) /\ ToolOf(hook.language) = "deno"
    BY <1>4 DEF Install, ToolOf
  <2> DEFINE programs == UNION {Renamed(d, machine) : d \in Range(hook.dependencies)}
  <2>2. env \in {Environment(Recorded(hook, found), programs, Kept(found, machine)) :
                    found \in IF Obtainable(Range(hook.dependencies), machine)
                              THEN Provide("deno", hook, machine) ELSE {}}
    BY <2>1 DEF InstallDeno
  <2> HIDE DEF programs
  <2>3. PICK found \in Provide("deno", hook, machine) :
           env = Environment(Recorded(hook, found), programs, Kept(found, machine))
    BY <2>2
  <2>4. env.info = Recorded(hook, found) /\ env.managed = Kept(found, machine) /\ env.programs = programs
    BY <2>3 DEF Environment
  <2>5. RecordedOf(env.info, found, hook)
    BY <1>4, <2>4, RecordedSo
  <2>6. env.programs = PackagePrograms(hook, "deno") \cup DependencyPrograms(hook, "deno")
    BY <1>4, <2>4, RenamedAre, NothingOfOurs DEF programs
  <2>7. Filled(env, hook)
    BY <1>4, <2>5, <2>6, FilledWith DEF RecordedOf
  <2> QED BY <2>1, <2>4, <2>5, <2>7 DEF MadeWith
<1>5. CASE hook.language = "dotnet"
  <2>1. env \in InstallDotnet(hook, machine) /\ ToolOf(hook.language) = "dotnet"
    BY <1>5 DEF Install, ToolOf
  <2> DEFINE last == {hook.dependencies[i] : i \in {j \in DOMAIN hook.dependencies :
                                                       InstallTool(hook.dependencies, j)}}
  <2>2. env \in {Environment(Recorded(hook, found), Theirs(last, "dotnet", machine), Kept(found, machine)) :
                    found \in IF Obtainable(last, machine) THEN Provide("dotnet", hook, machine) ELSE {}}
    BY <2>1 DEF InstallDotnet
  <2> HIDE DEF last
  <2>3. PICK found \in Provide("dotnet", hook, machine) :
           env = Environment(Recorded(hook, found), Theirs(last, "dotnet", machine), Kept(found, machine))
    BY <2>2
  <2>4. /\ env.info = Recorded(hook, found) /\ env.managed = Kept(found, machine)
        /\ env.programs = Theirs(last, "dotnet", machine)
    BY <2>3 DEF Environment
  <2>5. RecordedOf(env.info, found, hook)
    BY <1>5, <2>4, RecordedSo
  <2>6. env.programs = PackagePrograms(hook, "dotnet") \cup DependencyPrograms(hook, "dotnet")
    <3>1. env.programs = Theirs(Range(hook.dependencies), "dotnet", machine)
      BY <1>5, <2>4, LastTools DEF last, HookStated
    <3> QED BY <1>5, <3>1, NothingOfOurs, Supported, TheirsAre
  <2>7. Filled(env, hook)
    BY <1>5, <2>5, <2>6, FilledWith DEF RecordedOf
  <2> QED BY <2>1, <2>4, <2>5, <2>7 DEF MadeWith
<1>6. CASE hook.language = "python"
  <2> DEFINE programs == Ours(hook, "pyproject.toml", "python")
                             \cup Theirs(Range(hook.dependencies), "python", machine)
  <2>1. env \in InstallPython(hook, machine) /\ ToolOf(hook.language) = "python"
    BY <1>6 DEF Install, ToolOf
  <2>2. PICK found \in Provide("python", hook, machine) :
          \E made \in Built(hook, found, "pyproject.toml", "python", machine) :
             env = [made EXCEPT !.programs = @ \cup {Program("python", found.at, "none")}]
    BY <2>1 DEF InstallPython
  <2>3. /\ env.info = Recorded(hook, found) /\ env.managed = Kept(found, machine)
        /\ env.programs = programs \cup {Program("python", found.at, "none")}
    BY <2>2 DEF Built, Environment
  <2>4. RecordedOf(env.info, found, hook)
    BY <1>6, <2>3, RecordedSo
  <2>5. Linked(env) = Program("python", found.at, "none")
    BY <1>6, <2>4 DEF Linked, RecordedOf
  <2>6. programs = PackagePrograms(hook, "python") \cup DependencyPrograms(hook, "python")
    BY <1>6, FilesOf, Supported, OursAre, TheirsAre
  <2> HIDE DEF programs
  <2>7. Filled(env, hook)
    BY <2>3, <2>4, <2>5, <2>6 DEF Filled, RecordedOf
  <2> QED BY <2>1, <2>3, <2>4, <2>7 DEF MadeWith
<1>7. CASE hook.language = "ruby"
  <2>1. env \in InstallRuby(hook, machine) /\ ToolOf(hook.language) = "ruby"
    BY <1>7 DEF Install, ToolOf
  <2>2. PICK found \in Provide("ruby", hook, machine) :
          env = Environment(Recorded(hook, found),
                            InstallGems(hook, machine) \cup {Program("ruby", found.at, "none")},
                            Kept(found, machine))
    BY <2>1 DEF InstallRuby
  <2>3. /\ env.info = Recorded(hook, found) /\ env.managed = Kept(found, machine)
        /\ env.programs = InstallGems(hook, machine) \cup {Program("ruby", found.at, "none")}
    BY <2>2 DEF Environment
  <2>4. RecordedOf(env.info, found, hook)
    BY <1>7, <2>3, RecordedSo
  <2>5. Linked(env) = Program("ruby", found.at, "none")
    BY <1>7, <2>4 DEF Linked, RecordedOf
  <2>6. InstallGems(hook, machine) = PackagePrograms(hook, "ruby") \cup DependencyPrograms(hook, "ruby")
    BY <1>7, GemsAre, Supported, TheirsAre DEF InstallGems
  <2>7. Filled(env, hook)
    BY <1>7, <2>3, <2>4, <2>5, <2>6 DEF Filled, RecordedOf
  <2> QED BY <2>1, <2>3, <2>4, <2>7 DEF MadeWith
<1>8. CASE hook.language = "rust"
  <2>1. env \in InstallRust(hook, machine) /\ ToolOf(hook.language) = "rust"
    BY <1>8 DEF Install, ToolOf
  <2>2. PICK found \in Provide("rust", hook, machine) :
          env = Environment([Recorded(hook, found) EXCEPT !.label = RustLabel(hook, found)],
                            InstallLocalProject(hook) \cup Theirs(CliDependencies(hook), "none", machine),
                            Kept(found, machine))
    BY <2>1 DEF InstallRust
  <2>3. /\ env.info = [Recorded(hook, found) EXCEPT !.label = RustLabel(hook, found)]
        /\ env.managed = Kept(found, machine)
        /\ env.programs = InstallLocalProject(hook) \cup Theirs(CliDependencies(hook), "none", machine)
    BY <2>2 DEF Environment
  <2>4. RecordedOf(env.info, found, hook)
    BY <1>8, <2>3, RecordedSo
  <2>5. env.programs = PackagePrograms(hook, "none") \cup DependencyPrograms(hook, "none")
    BY <1>8, <2>3, CratesAre
  <2>6. Filled(env, hook)
    BY <1>8, <2>4, <2>5, FilledWith DEF RecordedOf
  <2> QED BY <2>1, <2>3, <2>4, <2>6 DEF MadeWith
<1> QED BY <1>1, <1>2, <1>3, <1>4, <1>5, <1>6, <1>7, <1>8 DEF SupportsLanguageVersion

LEMMA MiseFills ==
    ASSUME NEW hook, hook.language = "mise", NEW env \in Install(hook, machine), MachineStated(machine),
           HookStated(hook)
    PROVE  \E found : Provided(found, "mise", hook, machine) /\ MadeWith(env, hook, found)
<1> DEFINE supported(ts) == {t \in ts : t.tool = "mise" => ~Smaller(t.version, OldestMise)}
           usable == [machine EXCEPT !.system = supported(@), !.managed = supported(@), !.published = supported(@)]
<1>1. env \in InstallMise(hook, machine)
  BY DEF Install
<1>2. env \in UNION {BuiltOfDependencies(hook, found, "none", machine) : found \in Provide("mise", hook, usable)}
  BY <1>1 DEF InstallMise
<1>3. /\ usable.system = supported(machine.system) /\ usable.managed = supported(machine.managed)
      /\ usable.published = supported(machine.published)
  BY DEF MachineStated
<1> HIDE DEF usable
<1>4. PICK found \in Provide("mise", hook, usable) :
         /\ env.info = Recorded(hook, found) /\ env.managed = Kept(found, machine)
         /\ env.programs = Theirs(Range(hook.dependencies), "none", machine)
  BY <1>2 DEF BuiltOfDependencies, Environment
<1>5. Provided(found, "mise", hook, machine)
  <2>1. Provided(found, "mise", hook, usable)
    BY ProvideGives
  <2> QED BY <1>3, <2>1 DEF Provided
<1>6. RecordedOf(env.info, found, hook)
  BY <1>4, RecordedSo
<1>7. env.programs = PackagePrograms(hook, "none") \cup DependencyPrograms(hook, "none")
  BY <1>4, NothingOfOurs, Supported, TheirsAre
<1>8. Filled(env, hook)
  BY <1>6, <1>7, FilledWith DEF RecordedOf
<1> QED BY <1>4, <1>5, <1>6, <1>8 DEF MadeWith

LEMMA UnversionedFills ==
    ASSUME NEW hook, hook.language \in SupportsInstallEnv \ SupportsLanguageVersion,
           NEW env \in Install(hook, machine), env.info.language = hook.language
    PROVE  IF hook.language = "docker" THEN env.programs = {} ELSE Filled(env, hook)
<1>1. CASE hook.language = "conda"
  <2>1. env \in InstallConda(hook, machine)
    BY <1>1 DEF Install
  <2>2. env.programs = Ours(hook, "environment.yml", "none") \cup Theirs(Range(hook.dependencies), "none", machine)
    BY <2>1 DEF InstallConda, Environment, Dependencies
  <2>3. env.programs = PackagePrograms(hook, "none") \cup DependencyPrograms(hook, "none")
    BY <1>1, <2>2, FilesOf, Supported, OursAre, TheirsAre
  <2> QED BY <1>1, <2>3, FilledWith
<1>2. CASE hook.language = "coursier"
  <2>1. env \in InstallCoursier(hook, machine)
    BY <1>2 DEF Install
  <2>2. env.programs = Ours(hook, ".pre-commit-channel", "none") \cup Theirs(Range(hook.dependencies), "none", machine)
    BY <2>1 DEF InstallCoursier, Environment, Dependencies, CollectChannelApps
  <2>3. env.programs = PackagePrograms(hook, "none") \cup DependencyPrograms(hook, "none")
    BY <1>2, <2>2, FilesOf, Supported, OursAre, TheirsAre
  <2> QED BY <1>2, <2>3, FilledWith
<1>3. CASE hook.language = "haskell"
  <2>1. env \in InstallHaskell(hook, machine)
    BY <1>3 DEF Install
  <2>2. env.programs = FromSource(hook, ".cabal", "none") \cup Theirs(Range(hook.dependencies), "none", machine)
    BY <2>1 DEF InstallHaskell, Environment, Dependencies
  <2>3. FromSource(hook, ".cabal", "none") = PackagePrograms(hook, "none")
    BY <1>3, FilesOf, FromSourceAre
  <2>4. Theirs(Range(hook.dependencies), "none", machine) = DependencyPrograms(hook, "none")
    BY <1>3, Supported, TheirsAre
  <2> QED BY <1>3, <2>2, <2>3, <2>4, FilledWith
<1>4. CASE hook.language = "lua"
  <2>1. env \in InstallLua(hook, machine)
    BY <1>4 DEF Install
  <2>2. env.programs = Ours(hook, "rockspec", "lua") \cup Theirs(Range(hook.dependencies), "lua", machine)
    BY <2>1 DEF InstallLua, Environment, Dependencies
  <2>3. env.programs = PackagePrograms(hook, "lua") \cup DependencyPrograms(hook, "lua")
    BY <1>4, <2>2, FilesOf, Supported, OursAre, TheirsAre
  <2> QED BY <1>4, <2>3, FilledWith
<1>5. CASE hook.language = "perl"
  <2>1. env \in InstallPerl(hook, machine)
    BY <1>5 DEF Install
  <2>2. env.programs = Ours(hook, "Makefile.PL", "perl") \cup Theirs(Range(hook.dependencies), "perl", machine)
    BY <2>1 DEF InstallPerl, Environment, Dependencies
  <2>3. env.programs = PackagePrograms(hook, "perl") \cup DependencyPrograms(hook, "perl")
    BY <1>5, <2>2, FilesOf, Supported, OursAre, TheirsAre
  <2> QED BY <1>5, <2>3, FilledWith
<1>6. CASE hook.language = "php"
  <2>1. env \in InstallPhp(hook, machine)
    BY <1>6 DEF Install
  <2>2. env.programs = Ours(hook, "composer.json", "php") \cup Theirs(Range(hook.dependencies), "php", machine)
    BY <2>1 DEF InstallPhp, Environment, Dependencies
  <2>3. env.programs = PackagePrograms(hook, "php") \cup DependencyPrograms(hook, "php")
    BY <1>6, <2>2, FilesOf, Supported, OursAre, TheirsAre
  <2> QED BY <1>6, <2>3, FilledWith
<1>7. CASE hook.language = "dart"
  <2>1. env \in InstallDart(hook, machine)
    BY <1>7 DEF Install
  <2>2. env.programs = FromSource(hook, "pubspec.yaml", "none")
    BY <2>1 DEF InstallDart, Environment, InstallFromPubspec
  <2>3. FromSource(hook, "pubspec.yaml", "none") = PackagePrograms(hook, "none")
    BY <1>7, FilesOf, FromSourceAre
  <2>4. DependencyPrograms(hook, "none") = {}
    BY <1>7, NothingOfTheirs
  <2> QED BY <1>7, <2>2, <2>3, <2>4, FilledWith
<1>8. CASE hook.language = "swift"
  <2>1. env \in InstallSwift(hook, machine)
    BY <1>8 DEF Install
  <2>2. env.programs = Ours(hook, "Package.swift", "none")
    BY <2>1 DEF InstallSwift, Environment
  <2>3. env.programs = PackagePrograms(hook, "none") \cup DependencyPrograms(hook, "none")
    BY <1>8, <2>2, FilesOf, OursAre, NothingOfTheirs
  <2> QED BY <1>8, <2>3, FilledWith
<1>9. CASE hook.language = "julia"
  <2>1. env \in InstallJulia(hook, machine)
    BY <1>9 DEF Install
  <2>2. env.programs = {}
    BY <2>1 DEF InstallJulia, Environment
  <2>3. env.programs = PackagePrograms(hook, "none") \cup DependencyPrograms(hook, "none")
    BY <1>9, <2>2, NothingOfOurs, NothingOfTheirs
  <2> QED BY <1>9, <2>3, FilledWith
<1>10. CASE hook.language = "r"
  <2>1. env \in InstallR(hook, machine)
    BY <1>10 DEF Install
  <2>2. env.programs = {}
    BY <2>1 DEF InstallR, Environment
  <2>3. env.programs = PackagePrograms(hook, "none") \cup DependencyPrograms(hook, "none")
    BY <1>10, <2>2, NothingOfOurs, NothingOfTheirs
  <2> QED BY <1>10, <2>3, FilledWith
<1>11. CASE hook.language = "pygrep"
  <2>1. env \in InstallPygrep(hook, machine)
    BY <1>11 DEF Install
  <2>2. env.programs = {}
    <3> DEFINE pythons(ts) == {t \in ts : t.tool = "python"}
               offers   == {t \in pythons(machine.published) : IsPrefix(PygrepVersion, t.version)}
               there    == First({[tool |-> t, at |-> InStore(t)] : t \in pythons(machine.managed)},
                                 First({[tool |-> t, at |-> OnSystem(t)] : t \in pythons(machine.system)},
                                       {[tool |-> t, at |-> InStore(t)] : t \in Newest(offers)}))
    <3>1. env \in {Environment([NewInfo(hook) EXCEPT !.toolchain = found.at], {}, Kept(found, machine)) :
                      found \in there}
      BY <2>1 DEF InstallPygrep
    <3> HIDE DEF there
    <3> QED BY <3>1 DEF Environment
  <2>3. env.programs = PackagePrograms(hook, "none") \cup DependencyPrograms(hook, "none")
    BY <1>11, <2>2, NothingOfOurs, NothingOfTheirs
  <2> QED BY <1>11, <2>3, FilledWith
<1>12. CASE hook.language = "docker"
  <2>1. env \in InstallDocker(hook, machine)
    BY <1>12 DEF Install
  <2> QED BY <1>12, <2>1 DEF InstallDocker, Environment
<1>13. hook.language \in {"conda", "coursier", "dart", "docker", "haskell", "julia", "lua", "perl",
                            "php", "pygrep", "r", "swift"}
  BY DEF SupportsInstallEnv, Languages, SupportsLanguageVersion
<1> QED BY <1>13, <1>1, <1>2, <1>3, <1>4, <1>5, <1>6, <1>7, <1>8, <1>9, <1>10, <1>11, <1>12

\* An environment that was filled for a hook has the programs it needs, and no others.
Whole(env, hook) ==
    /\ \A p \in env.programs :
          /\ p.from \in Owners(hook, p.name) \cup {env.info.toolchain}
          /\ p.from = env.info.toolchain \/ p.from.place = "package"
    /\ hook.language = "docker" \/ \A n : Owners(hook, n) # {} => Named1(env.programs, n) # {}
    /\ hook.language = "python" => Named1(env.programs, "python") # {}

LEMMA PackageAre ==
    /\ \A name : Package(name).place = "package"
    /\ \A hook : \E name : Owner(hook) = Package(name)
BY DEF Package, Owner, WorkTree

LEMMA ProgramsAre == \A name, from, with :
    LET p == Program(name, from, with) IN p.name = name /\ p.from = from /\ p.with = with
BY DEF Program

LEMMA FilledIsWhole ==
    ASSUME NEW env, NEW hook, Filled(env, hook)
    PROVE  Whole(env, hook)
<1>1. PICK with :
         /\ PackagePrograms(hook, with) \cup DependencyPrograms(hook, with) \subseteq env.programs
         /\ env.programs \subseteq
               PackagePrograms(hook, with) \cup DependencyPrograms(hook, with) \cup {Linked(env)}
  BY DEF Filled
<1>2. ASSUME NEW p \in env.programs
      PROVE  /\ p.from \in Owners(hook, p.name) \cup {env.info.toolchain}
             /\ p.from = env.info.toolchain \/ p.from.place = "package"
  <2>1. CASE p \in PackagePrograms(hook, with)
    <3>1. p.name \in OwnPrograms(hook) /\ p.from = Owner(hook)
      BY <2>1, ProgramsAre DEF PackagePrograms
    <3> QED BY <3>1, Ownership, PackageAre
  <2>2. CASE p \in DependencyPrograms(hook, with)
    <3>1. PICK d \in Dependencies(hook) : p.name \in Installs(hook, d) /\ p.from = Package(d.package)
      BY <2>2, ProgramsAre DEF DependencyPrograms
    <3> QED BY <3>1, Ownership, PackageAre
  <2>3. CASE p = Linked(env)
    BY <2>3, ProgramsAre DEF Linked
  <2> QED BY <1>1, <2>1, <2>2, <2>3
<1>3. ASSUME NEW n, Owners(hook, n) # {} PROVE Named1(env.programs, n) # {}
  <2>1. PICK x : x \in Owners(hook, n)
    BY <1>3
  <2>2. CASE n \in OwnPrograms(hook)
    <3>1. Program(n, Owner(hook), with) \in env.programs
      BY <1>1, <2>2 DEF PackagePrograms
    <3> QED BY <3>1, ProgramsAre DEF Named1
  <2>3. CASE \E d \in Dependencies(hook) : n \in Installs(hook, d)
    <3>1. PICK d \in Dependencies(hook) : n \in Installs(hook, d)
      BY <2>3
    <3>2. Program(n, Package(d.package), with) \in env.programs
      BY <1>1, <3>1 DEF DependencyPrograms
    <3> QED BY <3>2, ProgramsAre DEF Named1
  <2> QED BY <2>1, <2>2, <2>3, Ownership
<1>4. hook.language = "python" => Named1(env.programs, "python") # {}
  BY ProgramsAre DEF Filled, Linked, Named1
<1> QED BY <1>2, <1>3, <1>4 DEF Whole

\* Hooks that share an environment have their programs of the same packages.
LEMMA OwnersAgree ==
    ASSUME HooksAgree, NEW g \in DOMAIN hooks, NEW h \in DOMAIN hooks, OnePackage(h),
           hooks[g].language = hooks[h].language, hooks[g].repo.identity = hooks[h].repo.identity,
           hooks[g].dependencies = hooks[h].dependencies
    PROVE  \A n : Owners(hooks[g], n) = Owners(hooks[h], n)
<1>1. /\ hooks[g].work = hooks[h].work /\ hooks[g].repo.kind = hooks[h].repo.kind
      /\ hooks[g].repo.tree = hooks[h].repo.tree
  BY DEF HooksAgree
<1>2. /\ Remote(hooks[g]) <=> Remote(hooks[h])
      /\ Source(hooks[g]) = Source(hooks[h]) /\ Owner(hooks[g]) = Owner(hooks[h])
      /\ Dependencies(hooks[g]) = Dependencies(hooks[h])
  BY <1>1 DEF Remote, Source, Owner, Dependencies
<1>3. \A d : Installs(hooks[g], d) = Installs(hooks[h], d)
  BY DEF Installs
<1>4. OwnPrograms(hooks[g]) = OwnPrograms(hooks[h])
  <2>1. CASE hooks[h].language = "rust" /\ Remote(hooks[h])
    <3>1. FindPackageDir(hooks[g]) = FindPackageDir(hooks[h])
      BY <2>1 DEF OnePackage, SameInstallPartition
    <3>2. /\ OwnPrograms(hooks[g]) = IF Remote(hooks[g]) THEN FindPackageDir(hooks[g]) ELSE {}
          /\ OwnPrograms(hooks[h]) = IF Remote(hooks[h]) THEN FindPackageDir(hooks[h]) ELSE {}
      BY <2>1 DEF OwnPrograms
    <3> QED BY <1>2, <2>1, <3>1, <3>2
  <2>2. CASE hooks[h].language = "rust" /\ ~Remote(hooks[h])
    BY <1>2, <2>2, OwnOfLocal
  <2>3. CASE hooks[h].language # "rust"
    <3> DEFINE declared(hook) ==
                  UNION {Source(hook)[f].programs : f \in PackageFiles(hook.language) \cap DOMAIN Source(hook)}
    <3>1. \A hook : hook.language # "rust" =>
             OwnPrograms(hook) = IF Remote(hook) \/ hook.language \in {"dart", "haskell"} THEN declared(hook)
                                 ELSE {}
      BY DEF OwnPrograms
    <3>2. declared(hooks[g]) = declared(hooks[h])
      BY <1>2
    <3> HIDE DEF declared
    <3> QED BY <1>2, <2>3, <3>1, <3>2
  <2> QED BY <2>1, <2>2, <2>3
<1> QED BY <1>2, <1>3, <1>4 DEF Owners

\* Packages install what they did as long as the registry is the same.
LEMMA OwnersStay ==
    ASSUME machine'.registry = machine.registry
    PROVE  \A hook, n : Owners(hook, n)' = Owners(hook, n)
<1>1. \A hook, d : Installs(hook, d)' = Installs(hook, d)
  BY DEF Installs
<1> QED BY <1>1 DEF Owners

LEMMA EquippedForStays ==
    ASSUME machine'.registry = machine.registry, hooks' = hooks
    PROVE  \A env, h : EquippedFor(env, h)' <=> EquippedFor(env, h)
<1> TAKE env, h
<1>1. SharedWith(env.info, h)' <=> SharedWith(env.info, h)
  BY DEF SharedWith
<1>2. OnePackage(h)' <=> OnePackage(h)
  BY DEF OnePackage, SameInstallPartition
<1>3. \A n : Owners(hooks[h], n)' = Owners(hooks[h], n)
  BY OwnersStay
<1> QED BY <1>1, <1>2, <1>3 DEF EquippedFor

\* Tools at one place have one label, and on one machine they are one or of one version.
LEMMA OnePlace ==
    ASSUME NEW m, MachineStated(m), NEW at
    PROVE  \A t, u \in At(at, m) : t.tool = u.tool /\ t.version = u.version /\ t.label = u.label
<1> TAKE t, u \in At(at, m)
<1>1. CASE at.place = "system"
  <2>1. t \in m.system /\ u \in m.system /\ OnSystem(t) = OnSystem(u)
    BY <1>1 DEF At
  <2> QED BY <2>1 DEF MachineStated
<1>2. CASE at.place = "managed"
  <2>1. InStore(t) = InStore(u)
    BY <1>2 DEF At
  <2> QED BY <2>1 DEF InStore
<1>3. CASE at.place \notin {"system", "managed"}
  BY <1>3 DEF At
<1> QED BY <1>1, <1>2, <1>3

LEMMA PlacesAre ==
    ASSUME NEW t
    PROVE  /\ OnSystem(t).place = "system" /\ OnSystem(t).tool = t.tool
           /\ t.tool = "rust" => OnSystem(t).label = t.label
           /\ InStore(t).place = "managed" /\ InStore(t).tool = t.tool
           /\ InStore(t).label = t.label /\ InStore(t).version = t.version
BY DEF OnSystem, InStore

LEMMA RustLabelled ==
    ASSUME NEW hook, NEW found, NEW t, hook.language = "rust", HookStated(hook),
           NEW m, Provided(found, "rust", hook, m), t.label = found.tool.label,
           NEW info, RecordedOf(info, found, hook)
    PROVE  LabelOf(info, t)
<1> DEFINE request == hook.request.version
<1>1. Matches(request, found.tool.version, found.tool.label) /\ RustStated(request)
  BY DEF Provided, HookStated
<1>2. info.language = "rust" /\ info.label = RustLabel(hook, found)
  BY DEF RecordedOf
<1>3. CASE request.kind = "channel"
  <2>1. RustLabel(hook, found) = request.w /\ found.tool.label = request.w
    BY <1>1, <1>3 DEF RustLabel, Matches
  <2> QED BY <1>2, <2>1 DEF LabelOf
<1>4. CASE request.kind = "any"
  <2>1. RustLabel(hook, found) = IF found.tool.label = "none" THEN "stable" ELSE found.tool.label
    BY <1>4 DEF RustLabel
  <2> QED BY <1>2, <2>1 DEF LabelOf
<1>5. CASE request.kind \in {"numbers", "range"}
  <2>1. RustLabel(hook, found) = "none"
    BY <1>5 DEF RustLabel
  <2> QED BY <1>2, <2>1 DEF LabelOf
<1> QED BY <1>1, <1>3, <1>4, <1>5 DEF RustStated

LEMMA Tools ==
    ASSUME NEW language
    PROVE  /\ ToolOf(language) = "rust" => language = "rust"
           /\ language = "rust" => ToolOf(language) = "rust"
           /\ language = "mise" => ToolOf(language) = "mise"
BY DEF ToolOf

\* What a toolchain is recorded with is so when the environment is kept, and on every
\* machine to come.
LEMMA RecordedToolchain ==
    ASSUME MachineStated(machine), WorldStays, UNCHANGED altered,
           NEW hook, HookStated(hook), hook.language \in SupportsLanguageVersion,
           NEW found, Provided(found, ToolOf(hook.language), hook, machine),
           NEW env, RecordedOf(env.info, found, hook), env.managed = Kept(found, machine),
           machine' = [machine EXCEPT !.managed = @ \cup env.managed]
    PROVE  Toolchained(env.info)'
<1> DEFINE info == env.info
<1>1. /\ machine'.system = machine.system
      /\ machine'.managed = machine.managed \cup env.managed
  BY DEF MachineStated
<1>2. /\ info.language = hook.language /\ info.toolchain = found.at /\ info.version = found.tool.version
      /\ found.tool.tool = ToolOf(hook.language)
      /\ \/ found.at = OnSystem(found.tool) /\ found.tool \in machine.system
         \/ found.at = InStore(found.tool)
  BY DEF RecordedOf, Provided
<1>3. info.toolchain.tool = ToolOf(info.language) /\ info.toolchain.place \in {"system", "managed"}
  BY <1>2, PlacesAre
<1>4. SameVersion(info, machine')
  BY <1>2, ProvidedIsThere DEF SameVersion
<1>5. ASSUME NEW m \in {machine'} \cup altered, NEW t \in At(info.toolchain, m), t.version = info.version
      PROVE  LabelOf(info, t)
  <2>1. t.label = found.tool.label
    <3>1. CASE found.at = InStore(found.tool)
      <4>1. InStore(t) = InStore(found.tool)
        BY <1>2, <1>5, <3>1, PlacesAre DEF At
      <4> QED BY <4>1, PlacesAre
    <3>2. CASE found.at = OnSystem(found.tool) /\ found.tool \in machine.system
      <4>1. t \in m.system /\ OnSystem(t) = OnSystem(found.tool)
        BY <1>2, <1>5, <3>2, PlacesAre DEF At
      <4>2. CASE found.tool.tool = "rust"
        BY <4>1, <4>2, PlacesAre
      <4>3. CASE found.tool.tool # "rust" /\ m \in altered
        <5>1. SameWorld(machine, m) /\ t.tool = found.tool.tool /\ t.version = found.tool.version
          BY <1>2, <1>5, <4>1, <4>3, PlacesAre DEF WorldStays
        <5> QED BY <3>2, <4>1, <4>3, <5>1 DEF SameWorld
      <4>4. CASE m = machine'
        BY <1>1, <3>2, <4>1, <4>4 DEF MachineStated
      <4> QED BY <4>2, <4>3, <4>4
    <3> QED BY <1>2, <3>1, <3>2
  <2>2. CASE hook.language = "rust"
    BY <2>1, <2>2, RustLabelled, Tools
  <2>3. CASE hook.language # "rust"
    BY <2>1, <2>3 DEF RecordedOf, LabelOf
  <2> QED BY <2>2, <2>3
<1>6. \A m \in {machine'} \cup altered' : \A t \in At(info.toolchain, m) :
         t.version = info.version => LabelOf(info, t)
  BY <1>5
<1> QED BY <1>3, <1>4, <1>6 DEF Toolchained, SameVersion

\* As long as the toolchain is not removed, it stays so.
LEMMA ToolchainedStays ==
    ASSUME MachineStated(machine), UNCHANGED altered, NEW info, Toolchained(info),
           NEW tools, machine' = [machine EXCEPT !.managed = tools],
           \A t \in machine.managed : InStore(t) = info.toolchain => t \in tools
    PROVE  Toolchained(info)'
<1>1. machine'.system = machine.system /\ machine'.managed = tools
  BY DEF MachineStated
<1> SUFFICES ASSUME info.language \in SupportsLanguageVersion PROVE Toolchained(info)'
  BY DEF Toolchained
<1>2. At(info.toolchain, machine) \subseteq At(info.toolchain, machine')
  BY <1>1 DEF At
<1>3. SameVersion(info, machine) => SameVersion(info, machine)'
  BY <1>2 DEF SameVersion
<1>4. \A t \in At(info.toolchain, machine') : t.version = info.version => LabelOf(info, t)
  <2> SUFFICES ASSUME NEW t \in At(info.toolchain, machine'), t.version = info.version
               PROVE  LabelOf(info, t)
    OBVIOUS
  <2>1. CASE info.toolchain.place = "system"
    <3>1. t \in At(info.toolchain, machine)
      BY <1>1, <2>1 DEF At
    <3> QED BY <3>1 DEF Toolchained
  <2>2. CASE info.toolchain.place = "managed"
    <3>1. PICK u \in At(info.toolchain, machine) : u.version = info.version
      BY <2>2 DEF Toolchained, SameVersion
    <3>2. InStore(t) = InStore(u)
      BY <2>2, <3>1 DEF At
    <3>3. t.label = u.label
      BY <3>2, PlacesAre
    <3>4. LabelOf(info, u)
      BY <3>1 DEF Toolchained
    <3> QED BY <3>3, <3>4 DEF LabelOf
  <2> QED BY <2>1, <2>2 DEF Toolchained
<1> QED BY <1>3, <1>4 DEF Toolchained

\* Nor does the change that was to come change it.
LEMMA ToolchainedAltered ==
    ASSUME NEW m \in altered, MachineStated(m), altered' = {}, NEW info, Toolchained(info),
           machine' = [m EXCEPT !.managed = machine.managed]
    PROVE  Toolchained(info)'
<1>1. machine'.system = m.system /\ machine'.managed = machine.managed
  BY DEF MachineStated
<1> SUFFICES ASSUME info.language \in SupportsLanguageVersion PROVE Toolchained(info)'
  BY DEF Toolchained
<1>2. At(info.toolchain, machine') =
         IF info.toolchain.place = "managed" THEN At(info.toolchain, machine) ELSE At(info.toolchain, m)
  BY <1>1 DEF At, Toolchained
<1>3. info.toolchain.place = "managed" => SameVersion(info, machine)'
  BY <1>2 DEF Toolchained, SameVersion
<1>4. \A t \in At(info.toolchain, machine') : t.version = info.version => LabelOf(info, t)
  BY <1>2 DEF Toolchained
<1> QED BY <1>3, <1>4 DEF Toolchained

(***************************************************************************)
(* Each step preserves the second invariant.                               *)
(***************************************************************************)
LEMMA EquippedWithStays ==
    ASSUME MachineStated(machine), UNCHANGED <<altered, hooks>>, NEW env, EquippedWith(env),
           NEW tools, machine' = [machine EXCEPT !.managed = tools],
           \A t \in machine.managed : InStore(t) = env.info.toolchain => t \in tools
    PROVE  EquippedWith(env)'
<1>1. machine'.registry = machine.registry
  BY DEF MachineStated
<1>2. Toolchained(env.info)'
  BY ToolchainedStays DEF EquippedWith
<1>3. \A h : EquippedFor(env, h)' <=> EquippedFor(env, h)
  BY <1>1, EquippedForStays
<1> QED BY <1>2, <1>3 DEF EquippedWith, Furnished

\* What is installed for a hook equips it and the others that may share it.
LEMMA InstalledEquips ==
    ASSUME MachineStated(machine), WorldStays, HooksAgree, UNCHANGED <<altered, hooks>>,
           NEW h \in DOMAIN hooks, HookStated(hooks[h]), hooks[h].language \in SupportsInstallEnv,
           NEW env \in Install(hooks[h], machine),
           machine' = [machine EXCEPT !.managed = @ \cup env.managed]
    PROVE  EquippedWith(env)'
<1> DEFINE hook == hooks[h]
<1>1. /\ env.info.language = hook.language /\ env.info.repo = hook.repo.identity
      /\ env.info.dependencies = hook.dependencies
  BY InstallServes DEF Serves, IsSatisfiedBy, Requirement
<1>2. ASSUME hook.language \in SupportsLanguageVersion
      PROVE  Whole(env, hook) /\ Toolchained(env.info)'
  <2>1. PICK found : Provided(found, ToolOf(hook.language), hook, machine) /\ MadeWith(env, hook, found)
    <3>1. CASE hook.language = "mise"
      BY <3>1, MiseFills, Tools
    <3>2. CASE hook.language # "mise"
      BY <1>2, <3>2, VersionedFills, ProvideGives
    <3> QED BY <3>1, <3>2
  <2>2. Toolchained(env.info)'
    BY <1>2, <2>1, RecordedToolchain DEF MadeWith
  <2>3. Whole(env, hook)
    BY <2>1, FilledIsWhole DEF MadeWith
  <2> QED BY <2>2, <2>3
<1>3. ASSUME hook.language \notin SupportsLanguageVersion
      PROVE  Whole(env, hook) /\ Toolchained(env.info)'
  <2>1. IF hook.language = "docker" THEN env.programs = {} ELSE Filled(env, hook)
    BY <1>1, <1>3, UnversionedFills
  <2>2. Whole(env, hook)
    BY <2>1, FilledIsWhole DEF Whole
  <2>3. Toolchained(env.info)'
    BY <1>1, <1>3 DEF Toolchained
  <2> QED BY <2>2, <2>3
<1>4. Whole(env, hook) /\ Toolchained(env.info)'
  BY <1>2, <1>3
<1>5. Furnished(env)
  BY <1>1, <1>4 DEF Whole, Furnished
<1>6. ASSUME NEW k \in DOMAIN hooks PROVE EquippedFor(env, k)
  <2> SUFFICES ASSUME SharedWith(env.info, k), OnePackage(k)
               PROVE  /\ \A p \in env.programs : p.from \in Owners(hooks[k], p.name) \cup {env.info.toolchain}
                      /\ \/ env.info.language = "docker" \/ Split(hooks[k].entry) = {}
                         \/ Owners(hooks[k], hooks[k].entry[1].name) = {}
                         \/ Named1(env.programs, hooks[k].entry[1].name) # {}
    BY DEF EquippedFor
  <2>1. \A n : Owners(hooks[h], n) = Owners(hooks[k], n)
    BY <1>1, OwnersAgree DEF SharedWith
  <2> QED BY <1>1, <1>4, <2>1 DEF Whole
<1>7. machine'.registry = machine.registry
  BY DEF MachineStated
<1>8. \A k \in DOMAIN hooks : EquippedFor(env, k)'
  BY <1>6, <1>7, EquippedForStays
<1> QED BY <1>4, <1>5, <1>8 DEF EquippedWith, Furnished

\* A change of the store's toolchains is none of the machine otherwise.
LEMMA WorldStaysSo ==
    ASSUME MachineStated(machine), WorldStays, UNCHANGED altered,
           NEW tools, machine' = [machine EXCEPT !.managed = tools]
    PROVE  WorldStays'
<1>1. machine'.system = machine.system /\ machine'.registry = machine.registry
  BY DEF MachineStated
<1> QED BY <1>1 DEF WorldStays, SameWorld

\* What is known of the second invariant's part that is about environments.
EquipmentInv == HooksAgree /\ WorldStays /\ Equipped

LEMMA EquipmentStays ==
    ASSUME EnvironmentsInv, EquipmentInv, UNCHANGED <<altered, hooks>>,
           NEW tools, machine' = [machine EXCEPT !.managed = tools],
           \A d \in DOMAIN dirs' : dirs'[d].state \in {"kept", "marked"} =>
               \/ \E env : dirs'[d].env = env /\ EquippedWith(env)'
               \/ /\ d \in DOMAIN dirs /\ dirs[d].state \in {"kept", "marked"} /\ dirs'[d].env = dirs[d].env
                  /\ \A t \in machine.managed : InStore(t) = dirs[d].env.info.toolchain => t \in tools
    PROVE  EquipmentInv'
<1>1. MachineStated(machine)
  BY DEF EnvironmentsInv, Stated
<1>2. HooksAgree'
  BY DEF EquipmentInv, HooksAgree
<1>3. WorldStays'
  BY <1>1, WorldStaysSo DEF EquipmentInv
<1>4. ASSUME NEW d \in DOMAIN dirs', dirs'[d].state \in {"kept", "marked"}
      PROVE  \E env : dirs'[d].env = env /\ EquippedWith(env)'
  <2>1. CASE /\ d \in DOMAIN dirs /\ dirs[d].state \in {"kept", "marked"} /\ dirs'[d].env = dirs[d].env
             /\ \A t \in machine.managed : InStore(t) = dirs[d].env.info.toolchain => t \in tools
    <3>1. PICK env : env = dirs[d].env
      OBVIOUS
    <3>2. EquippedWith(env)
      BY <2>1, <3>1 DEF EquipmentInv, Equipped
    <3>3. EquippedWith(env)'
      BY <1>1, <2>1, <3>1, <3>2, EquippedWithStays
    <3> QED BY <2>1, <3>1, <3>3
  <2> QED BY <1>4, <2>1
<1>5. Equipped'
  BY <1>4 DEF Equipped
<1> QED BY <1>2, <1>3, <1>5 DEF EquipmentInv

LEMMA EquipmentUnchanged ==
    ASSUME EnvironmentsInv, EquipmentInv, UNCHANGED <<machine, altered, hooks>>,
           \A d \in DOMAIN dirs' : dirs'[d].state \in {"kept", "marked"} =>
               d \in DOMAIN dirs /\ dirs[d].state \in {"kept", "marked"} /\ dirs'[d].env = dirs[d].env
    PROVE  EquipmentInv'
<1>1. machine' = [machine EXCEPT !.managed = machine.managed]
  BY DEF EnvironmentsInv, Stated, MachineStated
<1> QED BY <1>1, EquipmentStays

LEMMA DirsKnown ==
    ASSUME TypeOK
    PROVE  /\ Len(dirs) \in Nat /\ DOMAIN dirs = 1 .. Len(dirs)
           /\ \A d \in DOMAIN dirs : dirs[d] = [state |-> dirs[d].state, env |-> dirs[d].env]
BY DirsAre DEF TypeOK, DirsTyped

LEMMA PersistEquips ==
    ASSUME EnvironmentsInv, EquipmentInv, NEW p \in DOMAIN parts, NEW h \in Turn(p), Persist(p, h)
    PROVE  EquipmentInv'
<1> USE DEF EnvironmentsInv
<1>0. PICK d : d = parts[p].dir
  OBVIOUS
<1>1. PICK env \in Install(hooks[h], machine) :
         /\ dirs' = [dirs EXCEPT ![d] = [state |-> "kept", env |-> env]]
         /\ machine' = [machine EXCEPT !.managed = @ \cup env.managed]
  BY <1>0 DEF Persist
<1>2. UNCHANGED <<altered, hooks>>
  BY DEF Persist
<1>3. h \in DOMAIN hooks /\ HookStated(hooks[h]) /\ hooks[h].language \in SupportsInstallEnv
  BY PartTyped DEF Turn, Stated, Progress, ProgressOf, NeedsInstallEnv
<1>4. EquippedWith(env)'
  BY <1>1, <1>2, <1>3, InstalledEquips DEF Stated, EquipmentInv
<1>5. \A e \in DOMAIN dirs' : dirs'[e].state \in {"kept", "marked"} =>
         \/ \E made : dirs'[e].env = made /\ EquippedWith(made)'
         \/ e \in DOMAIN dirs /\ dirs[e].state \in {"kept", "marked"} /\ dirs'[e].env = dirs[e].env
  <2> TAKE e \in DOMAIN dirs'
  <2>1. DOMAIN dirs' = DOMAIN dirs
    BY <1>1
  <2>2. CASE e = d
    <3>1. dirs'[e].env = env
      BY <1>1, <2>1, <2>2
    <3> QED BY <1>4, <3>1
  <2>3. CASE e # d
    BY <1>1, <2>1, <2>3
  <2> QED BY <2>2, <2>3
<1>6. machine' = [machine EXCEPT !.managed = machine.managed \cup env.managed]
  BY <1>1
<1> QED BY <1>2, <1>5, <1>6, EquipmentStays

LEMMA CollectEquips ==
    ASSUME EnvironmentsInv, EquipmentInv, Collect
    PROVE  EquipmentInv'
<1>1. /\ dirs' = [d \in DOMAIN dirs |-> IF d \in Used THEN dirs[d] ELSE [state |-> "removed", env |-> NoEnv]]
      /\ machine' = [machine EXCEPT !.managed = KeptTools]
      /\ UNCHANGED <<altered, hooks>>
  BY DEF Collect
<1>2. \A d \in DOMAIN dirs' : dirs'[d].state \in {"kept", "marked"} =>
         /\ d \in DOMAIN dirs /\ dirs[d].state \in {"kept", "marked"} /\ dirs'[d].env = dirs[d].env
         /\ \A t \in machine.managed : InStore(t) = dirs[d].env.info.toolchain => t \in KeptTools
  <2> SUFFICES ASSUME NEW d \in DOMAIN dirs', dirs'[d].state \in {"kept", "marked"}
               PROVE  /\ d \in DOMAIN dirs /\ dirs[d].state \in {"kept", "marked"} /\ dirs'[d].env = dirs[d].env
                      /\ \A t \in machine.managed : InStore(t) = dirs[d].env.info.toolchain => t \in KeptTools
    OBVIOUS
  <2>1. d \in DOMAIN dirs /\ d \in Used /\ dirs'[d] = dirs[d]
    BY <1>1
  <2> QED BY <2>1 DEF KeptTools
<1> QED BY <1>1, <1>2, EquipmentStays

LEMMA AlterEquips ==
    ASSUME EnvironmentsInv, EquipmentInv, Alter
    PROVE  EquipmentInv'
<1>1. PICK m \in altered : machine' = [m EXCEPT !.managed = machine.managed]
  BY DEF Alter
<1>2. altered' = {} /\ UNCHANGED <<hooks, dirs>>
  BY DEF Alter
<1>3. MachineStated(m) /\ SameWorld(machine, m)
  BY DEF EnvironmentsInv, Stated, EquipmentInv, WorldStays
<1>4. machine'.registry = machine.registry
  BY <1>1, <1>3 DEF MachineStated, SameWorld
<1>5. ASSUME NEW d \in DOMAIN dirs', dirs'[d].state \in {"kept", "marked"}
      PROVE  \E env : dirs'[d].env = env /\ EquippedWith(env)'
  <2>1. PICK env : env = dirs[d].env
    OBVIOUS
  <2>2. EquippedWith(env)
    BY <1>2, <1>5, <2>1 DEF EquipmentInv, Equipped
  <2>3. Toolchained(env.info)'
    BY <1>1, <1>2, <1>3, <2>2, ToolchainedAltered DEF EquippedWith
  <2>4. \A h : EquippedFor(env, h)' <=> EquippedFor(env, h)
    BY <1>2, <1>4, EquippedForStays
  <2>5. EquippedWith(env)'
    BY <1>2, <2>2, <2>3, <2>4 DEF EquippedWith, Furnished
  <2> QED BY <1>2, <2>1, <2>5
<1>6. Equipped'
  BY <1>5 DEF Equipped
<1>7. HooksAgree' /\ WorldStays'
  BY <1>2 DEF EquipmentInv, HooksAgree, WorldStays
<1> QED BY <1>6, <1>7 DEF EquipmentInv

LEMMA StepEquips ==
    ASSUME EnvironmentsInv, EquipmentInv, [Next]_vars
    PROVE  EquipmentInv'
<1>1. CASE Begin
  BY <1>1, EquipmentUnchanged DEF Begin
<1>2. CASE Installed
  BY <1>2, EquipmentUnchanged DEF Installed
<1>3. CASE Run
  BY <1>3, EquipmentUnchanged DEF Run
<1>4. CASE Die
  BY <1>4, EquipmentUnchanged DEF Die
<1>5. CASE Alter
  BY <1>5, AlterEquips
<1>6. CASE Collect
  BY <1>6, CollectEquips
<1>7. ASSUME NEW p \in DOMAIN parts, NEW h \in Turn(p), Share(p, h) PROVE EquipmentInv'
  BY <1>7, EquipmentUnchanged DEF Share
<1>8. ASSUME NEW p \in DOMAIN parts, NEW h \in Turn(p), MakeDir(p, h) PROVE EquipmentInv'
  <2>1. dirs' = Append(dirs, [state |-> "temporary", env |-> NoEnv]) /\ UNCHANGED <<machine, altered, hooks>>
    BY <1>8 DEF MakeDir
  <2>2. /\ DOMAIN dirs = 1 .. Len(dirs) /\ Len(dirs) \in Nat
        /\ DOMAIN dirs' = 1 .. Len(dirs') /\ Len(dirs') = Len(dirs) + 1
        /\ \A d \in 1 .. Len(dirs) : dirs'[d] = dirs[d]
        /\ dirs'[Len(dirs')].state = "temporary"
    <3>1. DirsTyped(dirs)
      BY DEF EnvironmentsInv, TypeOK, DirsTyped
    <3> DEFINE new == [state |-> "temporary", env |-> NoEnv]
    <3>2. dirs' = Append(dirs, new) /\ new.state = "temporary"
      BY <2>1
    <3>3. /\ DirsTyped(dirs') /\ Len(dirs') = Len(dirs) + 1
          /\ \A d \in 1 .. Len(dirs) : dirs'[d] = dirs[d]
          /\ dirs'[Len(dirs')] = new
      BY <3>1, <3>2, DirsGrow
    <3> HIDE DEF new
    <3> QED BY <3>1, <3>2, <3>3, DirsAre
  <2>3. \A d \in DOMAIN dirs' : d \notin 1 .. Len(dirs) => d = Len(dirs')
    BY <2>2
  <2> QED BY <2>1, <2>2, <2>3, EquipmentUnchanged
<1>9. ASSUME NEW p \in DOMAIN parts, NEW h \in Turn(p), Persist(p, h) PROVE EquipmentInv'
  BY <1>9, PersistEquips
<1>10. ASSUME NEW p \in DOMAIN parts, NEW h \in Turn(p), MarkAsInstalled(p, h) PROVE EquipmentInv'
  <2>1. PICK d : d = parts[p].dir /\ dirs[d].state = "kept" /\ dirs' = [dirs EXCEPT ![d].state = "marked"]
    BY <1>10 DEF MarkAsInstalled
  <2>2. \A e \in DOMAIN dirs' :
           e \in DOMAIN dirs /\ (e = d \/ dirs'[e].state = dirs[e].state) /\ dirs'[e].env = dirs[e].env
    <3>1. \A e \in DOMAIN dirs : dirs[e] = [state |-> dirs[e].state, env |-> dirs[e].env]
      BY DirsKnown DEF EnvironmentsInv
    <3>2. DOMAIN dirs' = DOMAIN dirs
      BY <2>1
    <3> TAKE e \in DOMAIN dirs'
    <3>3. CASE e = d
      BY <2>1, <3>1, <3>2, <3>3
    <3>4. CASE e # d
      BY <2>1, <3>2, <3>4
    <3> QED BY <3>3, <3>4
  <2>3. UNCHANGED <<machine, altered, hooks>>
    BY <1>10 DEF MarkAsInstalled
  <2> QED BY <2>1, <2>2, <2>3, EquipmentUnchanged
<1>11. ASSUME NEW p \in DOMAIN parts, Fail(p) PROVE EquipmentInv'
  <2>1. /\ dirs' = [d \in DOMAIN dirs |->
                      IF dirs[d].state = "temporary" THEN [state |-> "removed", env |-> NoEnv] ELSE dirs[d]]
        /\ UNCHANGED <<machine, altered, hooks>>
    BY <1>11 DEF Fail
  <2>2. \A d \in DOMAIN dirs' : dirs'[d].state # "removed" => d \in DOMAIN dirs /\ dirs'[d] = dirs[d]
    BY <2>1
  <2> QED BY <2>1, <2>2, EquipmentUnchanged
<1>12. CASE UNCHANGED vars
  BY <1>12, EquipmentUnchanged DEF vars
<1> QED BY <1>1, <1>2, <1>3, <1>4, <1>5, <1>6, <1>7, <1>8, <1>9, <1>10, <1>11, <1>12 DEF Next, Step

LEMMA InitEquipped == ASSUME Init PROVE EquipmentInv
<1>1. PICK s \in Scenarios : /\ machine = s.machine /\ altered = s.altered /\ dirs = <<>>
                             /\ hooks \in BuildHooks(s.project, Predefined)
  BY DEF Init
<1>2. /\ ProjectStated(s.project) /\ PredefinedStated
      /\ \A m \in s.altered : SameWorld(s.machine, m)
  BY ScenariosAssumption DEF PredefinedStated
<1>3. /\ DOMAIN hooks = DOMAIN Entries(s.project)
      /\ \A h \in DOMAIN hooks :
            hooks[h].repo = Entries(s.project)[h].repo /\ hooks[h].work = s.project.tree
  BY <1>1, <1>2, BuiltHooksStated
<1>4. HooksAgree
  BY <1>2, <1>3 DEF ProjectStated, HooksAgree
<1>5. WorldStays
  BY <1>1, <1>2 DEF WorldStays
<1>6. Equipped
  BY <1>1, NoParts DEF Equipped
<1> QED BY <1>4, <1>5, <1>6 DEF EquipmentInv

(***************************************************************************)
(* Running the hooks.                                                      *)
(***************************************************************************)
\* A path is looked through from its front.
LEMMA FindIn ==
    ASSUME NEW path, NEW name, NEW p \in Find(path, name)
    PROVE  \E i \in DOMAIN path :
              /\ p \in path[i] /\ p.name = name
              /\ \A k \in 1 .. i - 1 : Named1(path[k], name) = {}
<1>1. PICK d \in FirstOf(path, LAMBDA x : Named1(x, name) # {}) : p \in Named1(d, name)
  BY DEF Find
<1>2. PICK i \in DOMAIN path : d = path[i] /\ \A k \in 1 .. i - 1 : ~(Named1(path[k], name) # {})
  BY <1>1 DEF FirstOf
<1> QED BY <1>1, <1>2 DEF Named1

LEMMA FindFront ==
    ASSUME NEW path, 1 \in DOMAIN path, DOMAIN path \subseteq Nat \ {0}, NEW name, Named1(path[1], name) # {}
    PROVE  Find(path, name) = Named1(path[1], name)
<1> DEFINE Has(x) == Named1(x, name) # {}
           first == {path[i] : i \in {j \in DOMAIN path : Has(path[j]) /\ \A k \in 1 .. j - 1 : ~Has(path[k])}}
<1>1. Find(path, name) = UNION {Named1(d, name) : d \in first}
  BY DEF Find, FirstOf
<1>2. path[1] \in first
  <2>1. Has(path[1]) /\ \A k \in 1 .. 1 - 1 : ~Has(path[k])
    OBVIOUS
  <2> HIDE DEF Has
  <2> QED BY <2>1
<1>3. \A d \in first : d = path[1]
  <2> TAKE d \in first
  <2>1. PICK j \in DOMAIN path : d = path[j] /\ \A k \in 1 .. j - 1 : ~Has(path[k])
    <3> HIDE DEF Has
    <3> QED OBVIOUS
  <2>2. j \in Nat \ {0} /\ (j = 1 \/ 1 \in 1 .. j - 1)
    OBVIOUS
  <2> QED BY <2>1, <2>2
<1> HIDE DEF first
<1>4. first = {path[1]}
  BY <1>2, <1>3
<1> QED BY <1>1, <1>4

LEMMA Before ==
    ASSUME NEW x, NEW y, NEW z
    PROVE  <<x>> \o <<y, z>> = <<x, y, z>> /\ <<x>> \o <<y>> = <<x, y>>
<1> DEFINE S == {x, y, z}
<1>1. <<x>> \in Seq(S) /\ <<y, z>> \in Seq(S) /\ <<y>> \in Seq(S)
  OBVIOUS
<1>2. <<x>> \o <<y, z>> = <<x, y, z>>
  <2> DEFINE w == <<x>> \o <<y, z>>
  <2>1. w \in Seq(S) /\ Len(w) = 3 /\ \A i \in 1 .. 3 : w[i] = <<x, y, z>>[i]
    BY <1>1
  <2>2. <<x, y, z>> \in Seq(S) /\ Len(<<x, y, z>>) = 3
    OBVIOUS
  <2> HIDE DEF w
  <2>3. w = <<x, y, z>>
    BY <2>1, <2>2
  <2> QED BY <2>3 DEF w
<1>3. <<x>> \o <<y>> = <<x, y>>
  <2> DEFINE w == <<x>> \o <<y>>
  <2>1. w \in Seq(S) /\ Len(w) = 2 /\ \A i \in 1 .. 2 : w[i] = <<x, y>>[i]
    BY <1>1
  <2>2. <<x, y>> \in Seq(S) /\ Len(<<x, y>>) = 2
    OBVIOUS
  <2> HIDE DEF w
  <2>3. w = <<x, y>>
    BY <2>1, <2>2
  <2> QED BY <2>3 DEF w
<1> QED BY <1>2, <1>3

\* The languages that have toolchains and where their hooks' programs are looked up.
LEMMA PathsAre ==
    ASSUME NEW env, NEW m, NEW language \in SupportsLanguageVersion
    PROVE  LET programs == env.programs
               tools    == ToolchainDir(env.info.toolchain, m)
               path     == LanguagePath(language, env, m)
           IN  /\ language = "python" => path = <<programs, SystemDir(m)>>
               /\ language = "mise" =>
                      /\ env.info.dependencies # <<>> => path[1] = programs
                      /\ path \in IF env.info.toolchain.place = "managed"
                                  THEN {<<programs, tools, SystemDir(m)>>, <<tools, SystemDir(m)>>}
                                  ELSE {<<programs, SystemDir(m)>>, <<SystemDir(m)>>}
               /\ language \notin {"python", "mise"} => path = <<programs, tools, SystemDir(m)>>
<1>1. CASE language = "python"
  BY <1>1 DEF LanguagePath, PythonPath
<1>2. CASE language = "mise"
  <2>1. LanguagePath(language, env, m) = MisePath(env, m)
    BY <1>2 DEF LanguagePath
  <2>2. CASE env.info.toolchain.place = "managed"
    <3>1. ManagedMisePath(env, m) = <<ToolchainDir(env.info.toolchain, m), SystemDir(m)>>
      BY <2>2 DEF ManagedMisePath
    <3>2. MisePath(env, m) = IF env.info.dependencies = <<>> THEN ManagedMisePath(env, m)
                             ELSE <<env.programs, ToolchainDir(env.info.toolchain, m), SystemDir(m)>>
      BY <3>1, Before DEF MisePath
    <3> QED BY <1>2, <2>1, <2>2, <3>1, <3>2
  <2>3. CASE env.info.toolchain.place # "managed"
    <3>1. ManagedMisePath(env, m) = <<SystemDir(m)>>
      BY <2>3 DEF ManagedMisePath
    <3>2. MisePath(env, m) = IF env.info.dependencies = <<>> THEN ManagedMisePath(env, m)
                             ELSE <<env.programs, SystemDir(m)>>
      BY <3>1, Before DEF MisePath
    <3> QED BY <1>2, <2>1, <2>3, <3>1, <3>2
  <2> QED BY <2>2, <2>3
<1>3. CASE language \notin {"python", "mise"}
  <2>1. LanguagePath(language, env, m) = EnvThenToolchain(env, m)
    BY <1>3 DEF SupportsLanguageVersion, LanguagePath, BunPath, DenoPath, DotnetPath, GolangPath,
                NodePath, RubyPath, RustPath
  <2> QED BY <1>3, <2>1 DEF EnvThenToolchain
<1> QED BY <1>1, <1>2, <1>3

\* What stands in a directory of the machine.
LEMMA SystemDirIs ==
    ASSUME NEW m, MachineStated(m), NEW p \in SystemDir(m)
    PROVE  \/ p.from.place = "package"
           \/ \E t \in m.system : p = Program(t.tool, OnSystem(t), "none")
BY DEF SystemDir, MachineStated

LEMMA SameOnSystem ==
    ASSUME NEW t, NEW u, t.tool = u.tool, t.tool # "rust"
    PROVE  OnSystem(t) = OnSystem(u)
BY DEF OnSystem

\* A program that a hook is run with is of one of three directories, and those before it
\* have none of its name.
LEMMA FoundAlong ==
    ASSUME NEW env, NEW m, NEW language \in SupportsLanguageVersion, NEW name,
           NEW p \in Find(LanguagePath(language, env, m), name)
    PROVE  /\ p.name = name
           /\ \/ p \in env.programs
              \/ p \in ToolchainDir(env.info.toolchain, m) /\ language # "python"
              \/ /\ p \in SystemDir(m)
                 /\ language = "python" => Named1(env.programs, name) = {}
                 /\ \/ language = "python"
                    \/ language = "mise" /\ env.info.toolchain.place # "managed"
                    \/ Named1(ToolchainDir(env.info.toolchain, m), name) = {}
<1> DEFINE programs == env.programs
           tools    == ToolchainDir(env.info.toolchain, m)
           others   == SystemDir(m)
           path     == LanguagePath(language, env, m)
<1>1. PICK i \in DOMAIN path :
         /\ p \in path[i] /\ p.name = name
         /\ \A k \in 1 .. i - 1 : Named1(path[k], name) = {}
  BY FindIn
<1>2. /\ language = "python" => path = <<programs, others>>
      /\ language = "mise" =>
            path \in IF env.info.toolchain.place = "managed"
                     THEN {<<programs, tools, others>>, <<tools, others>>}
                     ELSE {<<programs, others>>, <<others>>}
      /\ language \notin {"python", "mise"} => path = <<programs, tools, others>>
  BY PathsAre
<1> HIDE DEF programs, tools, others, path
<1>3. CASE path = <<programs, tools, others>>
  <2>1. language # "python"
    BY <1>2, <1>3
  <2>2. i \in 1 .. 3
    BY <1>3
  <2>3. i = 1 => p \in programs
    BY <1>1, <1>3
  <2>4. i = 2 => p \in tools
    BY <1>1, <1>3
  <2>5. i = 3 => p \in others /\ Named1(tools, name) = {}
    BY <1>1, <1>3
  <2> QED BY <1>1, <2>1, <2>2, <2>3, <2>4, <2>5 DEF programs, tools, others
<1>4. CASE path = <<tools, others>> /\ language = "mise"
  <2>1. i \in 1 .. 2
    BY <1>4
  <2>2. i = 1 => p \in tools
    BY <1>1, <1>4
  <2>3. i = 2 => p \in others /\ Named1(tools, name) = {}
    BY <1>1, <1>4
  <2> QED BY <1>1, <1>4, <2>1, <2>2, <2>3 DEF programs, tools, others
<1>5. CASE path = <<programs, others>> /\
           (language = "python" \/ (language = "mise" /\ env.info.toolchain.place # "managed"))
  <2>1. i \in 1 .. 2
    BY <1>5
  <2>2. i = 1 => p \in programs
    BY <1>1, <1>5
  <2>3. i = 2 => p \in others /\ Named1(programs, name) = {}
    BY <1>1, <1>5
  <2> QED BY <1>1, <1>5, <2>1, <2>2, <2>3 DEF programs, tools, others
<1>6. CASE path = <<others>> /\ language = "mise" /\ env.info.toolchain.place # "managed"
  <2>1. i = 1
    BY <1>6
  <2>2. p \in others
    BY <1>1, <1>6, <2>1
  <2> QED BY <1>1, <1>6, <2>2 DEF programs, tools, others
<1> QED BY <1>2, <1>3, <1>4, <1>5, <1>6

\* It is a program of a package, or of a toolchain of the machine, or of the toolchain
\* the environment was recorded with: of that one when it is still there and the program
\* is the language's tool.
LEMMA FoundToolchain ==
    ASSUME NEW env, NEW m, MachineStated(m), NEW language \in SupportsLanguageVersion,
           env.info.language = language, Furnished(env),
           env.info.toolchain.tool = ToolOf(language),
           env.info.toolchain.place \in {"system", "managed"},
           NEW name, NEW p \in Find(LanguagePath(language, env, m), name),
           p.from.tool = ToolOf(language), p.from.place # "package"
    PROVE  /\ env.info.toolchain.place = "system" => p.from.place = "system"
           /\ At(env.info.toolchain, m) # {} => p.from = env.info.toolchain
<1> DEFINE tc == env.info.toolchain
<1>1. ASSUME NEW q \in SystemDir(m), q.from.place # "package"
      PROVE  /\ q.from.place = "system" /\ q.name = q.from.tool
             /\ tc.place = "system" /\ tc.tool # "rust" /\ At(tc, m) # {} /\ q.from.tool = tc.tool => q.from = tc
  <2>1. PICK t \in m.system : q = Program(t.tool, OnSystem(t), "none")
    BY <1>1, SystemDirIs
  <2>2. q.name = t.tool /\ q.from = OnSystem(t) /\ q.from.tool = t.tool /\ q.from.place = "system"
    BY <2>1, ProgramsAre, PlacesAre
  <2>3. ASSUME tc.place = "system", tc.tool # "rust", At(tc, m) # {}, q.from.tool = tc.tool
        PROVE  q.from = tc
    <3>1. PICK u \in m.system : OnSystem(u) = tc
      BY <2>3 DEF At
    <3>2. u.tool = t.tool
      BY <2>2, <2>3, <3>1, PlacesAre
    <3> QED BY <2>2, <2>3, <3>1, <3>2, SameOnSystem
  <2> QED BY <2>2, <2>3
<1>2. CASE p \in env.programs
  BY <1>2 DEF Furnished
<1>3. CASE p \in ToolchainDir(tc, m)
  <2>1. CASE tc.place = "system" /\ tc.tool # "rust"
    <3>1. p \in SystemDir(m)
      BY <1>3, <2>1 DEF ToolchainDir
    <3> QED BY <1>1, <2>1, <3>1
  <2>2. CASE ~(tc.place = "system" /\ tc.tool # "rust")
    <3>1. p.from = tc
      BY <1>3, <2>2, ProgramsAre DEF ToolchainDir
    <3> QED BY <3>1
  <2> QED BY <2>1, <2>2
<1>4. CASE p \in SystemDir(m) /\ tc.place = "system" /\ tc.tool # "rust"
  BY <1>1, <1>4
<1>5. CASE /\ p \in SystemDir(m) /\ ~(tc.place = "system" /\ tc.tool # "rust")
           /\ Named1(ToolchainDir(tc, m), name) = {}
  <2>1. p.name = name /\ p.name = tc.tool
    BY <1>1, <1>5, FoundAlong
  <2>2. ASSUME At(tc, m) # {} PROVE FALSE
    <3>1. PICK u \in At(tc, m) : TRUE
      BY <2>2
    <3>2. u.tool = tc.tool
      <4>1. OnSystem(u) = tc \/ InStore(u) = tc
        BY <3>1 DEF At
      <4> QED BY <4>1, PlacesAre
    <3>3. Program(u.tool, tc, "none") \in ToolchainDir(tc, m)
      BY <1>5, <3>1 DEF ToolchainDir
    <3> QED BY <1>5, <2>1, <3>2, <3>3, ProgramsAre DEF Named1
  <2> QED BY <1>1, <1>5, <2>2
<1>6. CASE language = "python" /\ p \in SystemDir(m) /\ Named1(env.programs, name) = {}
  <2>1. p.name = name /\ p.name = "python"
    BY <1>1, <1>6, FoundAlong DEF ToolOf
  <2> QED BY <1>6, <2>1 DEF Furnished
<1>7. language = "mise" => tc.tool # "rust"
  BY DEF ToolOf
<1> QED BY <1>2, <1>3, <1>4, <1>5, <1>6, <1>7, FoundAlong

\* What accepts what was recorded accepts the toolchain that has its version and label,
\* but for one of no channel that was recorded as a stable one.
LEMMA LabelSatisfies ==
    ASSUME NEW h \in DOMAIN hooks, HookStated(hooks[h]), NEW info, info.language = hooks[h].language,
           SatisfiedBy(hooks[h].language, hooks[h].request.version, info),
           NEW t, LabelOf(info, t), t.version = info.version,
           hooks[h].language = "rust" => t.version[1] > 0
    PROVE  SatisfiedBy(hooks[h].language, hooks[h].request.version, t) \/ TakenForStable(h, t)
<1> DEFINE request == hooks[h].request.version
<1>1. CASE info.label = t.label
  BY <1>1 DEF SatisfiedBy, RustSatisfiedBy
<1>2. CASE hooks[h].language = "rust" /\ (info.label = "none" \/ (info.label = "stable" /\ t.label = "none"))
  <2>1. RustStated(request) /\ RustSatisfiedBy(request, info) /\ t.version[1] > 0
    BY <1>2 DEF HookStated, SatisfiedBy
  <2>2. CASE request.kind = "any"
    <3>1. RustSatisfiedBy(request, t)
      BY <2>1, <2>2 DEF RustSatisfiedBy
    <3> QED BY <1>2, <3>1 DEF SatisfiedBy
  <2>3. CASE request.kind = "channel"
    <3>1. PICK w \in {"stable", "beta", "nightly"} : request = [kind |-> "channel", w |-> w]
      BY <2>1, <2>3 DEF RustStated
    <3>2. info.label = w
      BY <2>1, <3>1 DEF RustSatisfiedBy, Matches
    <3> QED BY <1>2, <3>1, <3>2 DEF TakenForStable
  <2>4. CASE request.kind \in {"numbers", "range"}
    <3>1. RustSatisfiedBy(request, t)
      BY <2>1, <2>4 DEF RustSatisfiedBy, Matches
    <3> QED BY <1>2, <3>1 DEF SatisfiedBy
  <2> QED BY <2>1, <2>2, <2>3, <2>4 DEF RustStated
<1> QED BY <1>1, <1>2 DEF LabelOf

\* The programs a hook is run with are found along its language's path, or are files.
LEMMA RunAlong ==
    ASSUME NEW hook, "PATH" \notin DOMAIN hook.env, NEW env, NEW m,
           NEW path, path = LanguagePath(hook.language, env, m),
           NEW x \in RunCommand(hook, path), NEW p \in {x.program} \cup x.with
    PROVE  p.from.place = "package" \/ \E name : p \in Find(path, name)
<1>1. PICK f : /\ x = ResolveCommand(f, path)
              /\ f \in IF hook.shell = {} THEN FirstWord(hook, hook.entry[1], path)
                       ELSE Find(path, Some(hook.shell))
  BY DEF RunCommand
<1>2. x.program = f /\ \A q \in x.with : q \in Find(path, f.with)
  BY <1>1 DEF ResolveCommand
<1>3. f.from.place = "package" \/ \E name : f \in Find(path, name)
  <2>1. \A tree, owner, name : \A q \in FileOf(tree, owner, name) : q.from = owner
    BY ProgramsAre DEF FileOf
  <2>2. Owner(hook).place = "package" /\ WorkTree.place = "package"
    BY PackageAre DEF WorkTree
  <2>3. \A word : \A q \in FirstWord(hook, word, path) :
           q.from \in {Owner(hook), WorkTree} \/ \E name : q \in Find(path, name)
    BY <2>1 DEF FirstWord
  <2> QED BY <1>1, <2>2, <2>3
<1> QED BY <1>2, <1>3

LEMMA VersionedRun ==
    ASSUME NEW hook, hook.language \in SupportsLanguageVersion, "PATH" \notin DOMAIN hook.env,
           NEW env, NEW m, NEW x \in Execute(hook, env, m)
    PROVE  x \in RunCommand(hook, LanguagePath(hook.language, env, m))
<1>1. PathOf(hook, env, m) = LanguagePath(hook.language, env, m)
  BY DEF PathOf
<1>2. /\ hook.language \in (SupportsShell \cup {"rust", "dart"}) \ {"script"}
      /\ hook.language \notin {"fail", "pygrep", "julia", "docker", "docker_image", "script", "r"}
  BY DEF SupportsLanguageVersion, SupportsShell, Languages
<1>3. Execute(hook, env, m) =
         IF hook.shell # {} \/ Split(hook.entry) # {} THEN RunCommand(hook, PathOf(hook, env, m)) ELSE {}
  BY <1>2 DEF Execute
<1> QED BY <1>1, <1>3

\* A directory that is in use holds what its hook requires.
LEMMA UsedHolds ==
    ASSUME EnvironmentsInv, EquipmentInv, command = "running", NEW h \in DOMAIN hooks, using[h] # 0
    PROVE  \E env : /\ env = EnvOf(h) /\ env.info.language = hooks[h].language
                    /\ SharedWith(env.info, h) /\ EquippedWith(env) /\ CheckHealth(env, machine)
                    /\ SatisfiedBy(hooks[h].language, hooks[h].request.version, env.info)
<1>1. using[h] \in InstalledHook(h)
  BY DEF EnvironmentsInv, UsedServe
<1>2. PICK env : env = dirs[using[h]].env
  OBVIOUS
<1>3. /\ using[h] \in DOMAIN dirs /\ dirs[using[h]].state = "marked"
      /\ IsSatisfiedBy(Requirement(hooks[h]), env.info) /\ CheckHealth(env, machine)
  BY <1>1, <1>2 DEF InstalledHook, LoadStoreInstalledHooks
<1>4. EquippedWith(env)
  BY <1>2, <1>3 DEF EquipmentInv, Equipped
<1>5. /\ env.info.language = hooks[h].language /\ SharedWith(env.info, h)
      /\ SatisfiedBy(hooks[h].language, hooks[h].request.version, env.info)
  BY <1>3 DEF IsSatisfiedBy, Requirement, SharedWith
<1> QED BY <1>2, <1>3, <1>4, <1>5 DEF EnvOf

LEMMA SoundVersion ==
    ASSUME NEW env, NEW m, CheckHealth(env, m),
           env.info.language \in SupportsLanguageVersion \ NotRechecked
    PROVE  SameVersion(env.info, m)
<1>1. env.info.language \in {"bun", "deno", "mise", "node", "python", "ruby"}
  BY DEF SupportsLanguageVersion, NotRechecked
<1> QED BY <1>1, HealthOf DEF BunHealthy, DenoHealthy, MiseHealthy, NodeHealthy, PythonHealthy, RubyHealthy

LEMMA RunHonours ==
    ASSUME EnvironmentsInv, EquipmentInv, Run
    PROVE  HonoursRequest'
<1>1. /\ command = "running"
      /\ ran' = [h \in DOMAIN hooks |-> IF OfPrek(hooks[h]) THEN {} ELSE Execute(hooks[h], EnvOf(h), machine)]
      /\ UNCHANGED <<machine, altered, hooks>>
  BY DEF Run
<1> SUFFICES ASSUME NEW h \in DOMAIN hooks,
                    hooks[h].language \in SupportsLanguageVersion, "PATH" \notin DOMAIN hooks[h].env,
                    NEW t \in machine.system \cup machine.managed,
                    NEW x \in ran'[h], NEW p \in {x.program} \cup x.with,
                    t \in At(p.from, machine), p.from.tool = ToolOf(hooks[h].language),
                    altered = {} /\ p.from.place = "system" => hooks[h].language \notin NotRechecked
             PROVE  SatisfiedBy(hooks[h].language, hooks[h].request.version, t) \/ TakenForStable(h, t)
  BY <1>1 DEF HonoursRequest, RunWith, TakenForStable
<1> DEFINE language == hooks[h].language
<1>2. ~OfPrek(hooks[h]) /\ x \in Execute(hooks[h], EnvOf(h), machine)
  BY <1>1
<1>3. /\ MachineStated(machine) /\ HookStated(hooks[h])
      /\ using[h] # 0
  <2>1. NeedsInstallEnv(hooks[h])
    BY <1>2 DEF OfPrek, NeedsInstallEnv, SupportsInstallEnv, SupportsLanguageVersion, Languages
  <2> QED BY <1>1, <2>1 DEF EnvironmentsInv, Stated, UsedServe
<1>4. PICK env : /\ env = EnvOf(h) /\ env.info.language = language
                 /\ EquippedWith(env) /\ CheckHealth(env, machine)
                 /\ SatisfiedBy(language, hooks[h].request.version, env.info)
  BY <1>1, <1>3, UsedHolds
<1>5. Toolchained(env.info) /\ Furnished(env)
  BY <1>4 DEF EquippedWith
<1>6. p.from.place \in {"system", "managed"}
  BY DEF At
<1>7. PICK name : p \in Find(LanguagePath(language, env, machine), name)
  <2>1. x \in RunCommand(hooks[h], LanguagePath(language, env, machine))
    BY <1>2, <1>4, VersionedRun
  <2> QED BY <1>6, <2>1, RunAlong
<1>8. /\ env.info.toolchain.tool = ToolOf(language)
      /\ env.info.toolchain.place \in {"system", "managed"}
  BY <1>4, <1>5 DEF Toolchained
<1>9. /\ env.info.toolchain.place = "system" => p.from.place = "system"
      /\ At(env.info.toolchain, machine) # {} => p.from = env.info.toolchain
  BY <1>3, <1>4, <1>5, <1>6, <1>7, <1>8, FoundToolchain
<1>10. SameVersion(env.info, machine)
  <2>1. CASE language \in NotRechecked
    BY <1>4, <1>5, <1>8, <1>9, <2>1 DEF Toolchained
  <2>2. CASE language \notin NotRechecked
    BY <1>4, <2>2, SoundVersion
  <2> QED BY <2>1, <2>2
<1>11. PICK u \in At(env.info.toolchain, machine) : u.version = env.info.version
  BY <1>10 DEF SameVersion
<1>12. t \in At(env.info.toolchain, machine) /\ t.version = env.info.version
  <2>1. t \in At(env.info.toolchain, machine)
    BY <1>9, <1>11
  <2> QED BY <1>3, <1>11, <2>1, OnePlace
<1>13. LabelOf(env.info, t)
  BY <1>4, <1>5, <1>12 DEF Toolchained
<1>14. language = "rust" => t.version[1] > 0
  <2>1. t.tool = p.from.tool
    <3>1. OnSystem(t) = p.from \/ InStore(t) = p.from
      BY DEF At
    <3> QED BY <3>1, PlacesAre
  <2> QED BY <1>3, <2>1, Tools DEF MachineStated
<1> QED BY <1>3, <1>4, <1>12, <1>13, <1>14, LabelSatisfies

\* The languages whose hooks' programs are looked up in their environments first.
LooksInside ==
    {"bun", "conda", "coursier", "dart", "deno", "dotnet", "golang", "haskell", "lua", "mise", "node",
     "perl", "php", "python", "ruby", "rust", "swift"}

LEMMA InsideFirst ==
    ASSUME NEW env, NEW m, NEW language \in LooksInside,
           language = "mise" => env.info.dependencies # <<>>
    PROVE  LET path == LanguagePath(language, env, m)
           IN  1 \in DOMAIN path /\ DOMAIN path \subseteq Nat \ {0} /\ path[1] = env.programs
<1> DEFINE path == LanguagePath(language, env, m)
<1>1. CASE language \in SupportsLanguageVersion
  <2> DEFINE tools == ToolchainDir(env.info.toolchain, m)
             others == SystemDir(m)
  <2>1. /\ path \in {<<env.programs, tools, others>>, <<env.programs, others>>, <<tools, others>>, <<others>>}
        /\ path \in {<<env.programs, tools, others>>, <<env.programs, others>>} \/ path[1] = env.programs
    BY <1>1, PathsAre
  <2> HIDE DEF path, tools, others
  <2>2. 1 \in DOMAIN path /\ DOMAIN path \subseteq Nat \ {0}
    BY <2>1
  <2>3. path[1] = env.programs
    BY <2>1
  <2> QED BY <2>2, <2>3 DEF path
<1>2. CASE language \notin SupportsLanguageVersion
  <2>1. language \in {"conda", "coursier", "dart", "haskell", "lua", "perl", "php", "swift"}
    BY <1>2 DEF LooksInside, SupportsLanguageVersion
  <2>2. path = EnvThenSystem(env, m) \/ path = EnvThenToolchain(env, m)
    BY <2>1 DEF LanguagePath, CondaPath, CoursierPath, DartPath, HaskellPath, LuaPath, PerlPath, PhpPath, SwiftPath
  <2> QED BY <2>2 DEF EnvThenSystem, EnvThenToolchain
<1> QED BY <1>1, <1>2

LEMMA RunOwns ==
    ASSUME EnvironmentsInv, EquipmentInv, Run
    PROVE  RunsItsOwn'
<1>1. /\ command = "running"
      /\ ran' = [h \in DOMAIN hooks |-> IF OfPrek(hooks[h]) THEN {} ELSE Execute(hooks[h], EnvOf(h), machine)]
      /\ UNCHANGED <<machine, altered, hooks, dirs, using>>
  BY DEF Run
<1> SUFFICES ASSUME NEW h \in DOMAIN hooks, NamesProgram(h), OnePackage(h),
                    Owners(hooks[h], hooks[h].entry[1].name) # {}
             PROVE  LET owners == Owners(hooks[h], hooks[h].entry[1].name)
                    IN  /\ ran'[h] # {} \/ hooks[h].language = "docker"
                        /\ \A x \in ran'[h] : x.program.from \in owners \cup {EnvOf(h).info.toolchain}
  <2>1. \A hook, n : Owners(hook, n)' = Owners(hook, n)
    BY <1>1, OwnersStay
  <2>2. \A h : /\ OnePackage(h)' <=> OnePackage(h)
               /\ NamesProgram(h)' <=> NamesProgram(h)
               /\ EnvOf(h)' = EnvOf(h)
    BY <1>1 DEF OnePackage, SameInstallPartition, NamesProgram, EnvOf
  <2> QED BY <1>1, <2>1, <2>2 DEF RunsItsOwn
<1> DEFINE hook   == hooks[h]
           name   == hooks[h].entry[1].name
           owners == Owners(hook, name)
<1>2. using[h] # 0 /\ hook.shell = {} /\ Split(hook.entry) # {} /\ hook.entry[1].at = "path"
      /\ "PATH" \notin DOMAIN hook.env
  BY DEF NamesProgram
<1>3. NeedsInstallEnv(hook) /\ ~OfPrek(hook) /\ ran'[h] = Execute(hook, EnvOf(h), machine)
  BY <1>1, <1>2 DEF EnvironmentsInv, UsedServe, NeedsInstallEnv, OfPrek
<1>4. PICK env : /\ env = EnvOf(h) /\ env.info.language = hook.language
                 /\ SharedWith(env.info, h) /\ EquippedWith(env)
  BY <1>1, <1>2, UsedHolds
<1>5. CASE hook.language \in {"pygrep", "julia", "r"}
  <2>1. OwnPrograms(hook) = {} /\ \A d : Installs(hook, d) = {}
    BY <1>5, NothingOfOurs, NothingOfTheirs
  <2>2. owners = {}
    BY <2>1 DEF Owners
  <2> QED BY <2>2
<1>6. CASE hook.language = "docker"
  <2>1. ASSUME NEW x \in ran'[h] PROVE x.program.from \in owners
    <3>1. x \in RunDocker(hook, machine)
      <4>1. "docker" \notin (SupportsShell \cup {"rust", "dart"}) \ {"script"}
        BY DEF SupportsShell
      <4>2. Execute(hook, EnvOf(h), machine) = RunDocker(hook, machine)
        BY <1>2, <1>6, <4>1 DEF Execute
      <4> QED BY <1>3, <2>1, <4>2
    <3>2. PICK image \in BuildDockerImage(hook, machine) : x.program \in Named1(image, name)
      BY <3>1 DEF RunDocker
    <3>3. Remote(hook) /\ image = FromSource(hook, "Dockerfile", "none")
      BY <3>2 DEF BuildDockerImage
    <3>4. image = PackagePrograms(hook, "none")
      BY <1>6, <3>3, FilesOf, FromSourceAre
    <3>5. x.program.name = name /\ name \in OwnPrograms(hook) /\ x.program.from = Owner(hook)
      BY <3>2, <3>4, ProgramsAre DEF PackagePrograms, Named1
    <3> QED BY <3>5, Ownership
  <2> QED BY <1>6, <2>1
<1>7. CASE hook.language \in LooksInside
  <2>1. hook.language = "mise" => env.info.dependencies # <<>>
    <3> SUFFICES ASSUME hook.language = "mise", env.info.dependencies = <<>> PROVE FALSE
      OBVIOUS
    <3>1. OwnPrograms(hook) = {}
      BY NothingOfOurs
    <3>2. Dependencies(hook) = {}
      BY <1>4 DEF SharedWith, Dependencies, Range
    <3>3. owners = {}
      BY <3>1, <3>2 DEF Owners
    <3> QED BY <3>3
  <2> DEFINE path == LanguagePath(hook.language, env, machine)
  <2>2. /\ \A p \in env.programs : p.from \in Owners(hook, p.name) \cup {env.info.toolchain}
        /\ Named1(env.programs, name) # {}
    BY <1>2, <1>4, <1>7 DEF EquippedWith, EquippedFor, LooksInside
  <2>3. Find(path, name) = Named1(env.programs, name)
    <3>1. 1 \in DOMAIN path /\ DOMAIN path \subseteq Nat \ {0} /\ path[1] = env.programs
      BY <1>7, <2>1, InsideFirst
    <3> HIDE DEF path
    <3> QED BY <2>2, <3>1, FindFront
  <2>4. ran'[h] = RunCommand(hook, path)
    <3>1. PathOf(hook, env, machine) = path
      BY <1>2 DEF PathOf
    <3>2. /\ hook.language \in (SupportsShell \cup {"rust", "dart"}) \ {"script"}
          /\ hook.language \notin {"fail", "pygrep", "julia", "docker", "docker_image", "script", "r"}
      BY <1>7 DEF LooksInside, SupportsShell, Languages
    <3>3. Execute(hook, env, machine) = RunCommand(hook, PathOf(hook, env, machine))
      BY <1>2, <3>2 DEF Execute
    <3> QED BY <1>3, <1>4, <3>1, <3>3
  <2> HIDE DEF path
  <2>5. FirstWord(hook, hook.entry[1], path) = Named1(env.programs, name)
    BY <1>2, <2>3 DEF FirstWord
  <2>6. ran'[h] = {ResolveCommand(f, path) : f \in Named1(env.programs, name)}
    BY <1>2, <2>4, <2>5 DEF RunCommand
  <2>7. ran'[h] # {}
    BY <2>2, <2>6
  <2>8. ASSUME NEW x \in ran'[h] PROVE x.program.from \in owners \cup {env.info.toolchain}
    <3>1. PICK f \in Named1(env.programs, name) : x = ResolveCommand(f, path)
      BY <2>6
    <3>2. x.program = f
      BY <3>1 DEF ResolveCommand
    <3> QED BY <2>2, <3>2 DEF Named1
  <2> QED BY <1>4, <2>7, <2>8
<1>8. hook.language \in LooksInside \cup {"pygrep", "julia", "r", "docker"}
  BY <1>3 DEF NeedsInstallEnv, SupportsInstallEnv, Languages, LooksInside
<1> QED BY <1>5, <1>6, <1>7, <1>8

\* The steps that are not the hooks' leave what was run as it was, and only take away
\* from the machine what was run with.
LEMMA RanStays ==
    ASSUME EnvironmentsInv, HonoursRequest, RunsItsOwn, [Next]_vars, ~Run
    PROVE  HonoursRequest' /\ RunsItsOwn'
<1>1. CASE command' # "ended"
  BY <1>1 DEF HonoursRequest, RunsItsOwn
<1>2. CASE command' = "ended" /\ UNCHANGED vars
  <2>1. HonoursRequest'
    BY <1>2 DEF vars, HonoursRequest, RunWith, TakenForStable
  <2>2. RunsItsOwn'
    <3>1. \A hook, n : Owners(hook, n)' = Owners(hook, n)
      BY <1>2, OwnersStay DEF vars
    <3>2. \A h : /\ OnePackage(h)' <=> OnePackage(h)
                 /\ NamesProgram(h)' <=> NamesProgram(h)
                 /\ EnvOf(h)' = EnvOf(h)
      BY <1>2 DEF vars, OnePackage, SameInstallPartition, NamesProgram, EnvOf
    <3> QED BY <1>2, <3>1, <3>2 DEF vars, RunsItsOwn
  <2> QED BY <2>1, <2>2
<1>3. CASE command' = "ended" /\ Collect
  <2>1. /\ command = "ended" /\ machine' = [machine EXCEPT !.managed = KeptTools]
        /\ using' = [h \in DOMAIN hooks |-> 0]
        /\ UNCHANGED <<altered, hooks, ran>>
    BY <1>3 DEF Collect
  <2>2. RunsItsOwn'
    <3>1. \A h \in DOMAIN hooks' : ~NamesProgram(h)'
      BY <2>1 DEF NamesProgram
    <3> QED BY <3>1 DEF RunsItsOwn
  <2>3. machine'.system = machine.system /\ machine'.managed \subseteq machine.managed
    BY <2>1 DEF EnvironmentsInv, Stated, MachineStated, KeptTools
  <2>4. \A toolchain : At(toolchain, machine') \subseteq At(toolchain, machine)
    BY <2>3 DEF At
  <2>5. \A h \in DOMAIN hooks : RunWith(h)' \subseteq RunWith(h)
    BY <2>1, <2>3, <2>4 DEF RunWith
  <2>6. HonoursRequest'
    BY <2>1, <2>5 DEF HonoursRequest, TakenForStable
  <2> QED BY <2>2, <2>6
<1>4. Begin \/ Installed \/ Die \/ Alter => command' # "ended"
  BY DEF Begin, Installed, Die, Alter
<1>5. \A p \in DOMAIN parts : Fail(p) => command' # "ended"
  BY DEF Fail
<1>6. \A p \in DOMAIN parts : Step(p) => command' # "ended"
  BY DEF Step, Turn, Share, MakeDir, Persist, MarkAsInstalled
<1> QED BY <1>1, <1>2, <1>3, <1>4, <1>5, <1>6 DEF Next

LEMMA RunsHold == ASSUME RunsInv, [Next]_vars PROVE RunsInv'
<1>1. EnvironmentsInv /\ EquipmentInv
  BY DEF RunsInv, EquipmentInv
<1>2. EnvironmentsInv' /\ EquipmentInv'
  BY <1>1, StepHolds, StepEquips
<1>3. HonoursRequest' /\ RunsItsOwn'
  <2>1. CASE Run
    BY <1>1, <2>1, RunHonours, RunOwns
  <2>2. CASE ~Run
    BY <2>2, RanStays DEF RunsInv
  <2> QED BY <2>1, <2>2
<1> QED BY <1>2, <1>3 DEF RunsInv, EquipmentInv

LEMMA RunsInvariant == Spec => []RunsInv
<1>1. Init => RunsInv
  <2> SUFFICES ASSUME Init PROVE RunsInv
    OBVIOUS
  <2>1. EnvironmentsInv /\ EquipmentInv
    BY InitHolds, InitEquipped
  <2>2. command = "none"
    BY DEF Init
  <2> QED BY <2>1, <2>2 DEF RunsInv, EquipmentInv, HonoursRequest, RunsItsOwn
<1>2. RunsInv /\ [Next]_vars => RunsInv'
  BY RunsHold
<1> QED BY <1>1, <1>2, PTL DEF Spec

\* Whichever hook an environment was made for, a hook is run with a toolchain its own
\* version request accepts, also when the machine has changed and the collector has
\* passed (check_health and is_satisfied_by, of every language that has versions).
THEOREM RequestsAreHonoured == Spec => []HonoursRequest
<1>1. RunsInv => HonoursRequest
  BY DEF RunsInv
<1> QED BY <1>1, RunsInvariant, PTL

\* A hook whose entry names a program of its own package or dependencies runs it and no
\* other of the name on the machine, whichever hook its environment was made for (install
\* of each language, and the path its hooks are run with).
THEOREM HooksRunTheirOwn == Spec => []RunsItsOwn
<1>1. RunsInv => RunsItsOwn
  BY DEF RunsInv
<1> QED BY <1>1, RunsInvariant, PTL
=============================================================================
