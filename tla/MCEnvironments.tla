---------------------------- MODULE MCEnvironments ----------------------------
(***************************************************************************)
(* Projects, repositories and machines for Environments: one remote        *)
(* repository and one local hook of every language, the version requests   *)
(* and preferences where there are several toolchains to choose from, and  *)
(* hooks that share an environment.                                        *)
(***************************************************************************)
EXTENDS Environments

Tool(tool, version, label) == [tool |-> tool, version |-> version, label |-> label]
Plain(name) == Program(name, Package("machine"), "none")

\* three versions of every toolchain
V(tool, i) == IF tool = "mise" THEN <<2025 + i, 6, 0>> ELSE <<<<3, 12, 0>>, <<3, 13, 0>>, <<4, 0, 0>>>>[i]
Label(tool, i) == CASE tool = "node" /\ i = 2 -> "jod"
                    [] tool = "rust" /\ i = 3 -> "stable"
                    [] OTHER                  -> "none"
Versioned(tool, i) == Tool(tool, V(tool, i), Label(tool, i))

Toolchains == {ToolOf(l) : l \in SupportsLanguageVersion}
Interpreters == {"dart", "php", "lua", "julia", "cs", "swift", "Rscript"}
Managers == {"composer", "luarocks", "cpan", "cabal", "micromamba", "docker", "sh", "tool"}

Registry == "dep" :> {"dep"} @@ "other" :> {"other", "tool"}

\* a machine with tool versions of these numbers on the PATH and in the store
Machine(system, managed) ==
    [system    |-> {Versioned(t, i) : t \in Toolchains, i \in system}
                       \cup {Tool(t, <<1, 0, 0>>, "none") : t \in Interpreters},
     managed   |-> {Versioned(t, i) : t \in Toolchains, i \in managed},
     published |-> {Versioned(t, i) : t \in Toolchains, i \in 1 .. 3},
     programs  |-> {Plain(n) : n \in Managers},
     registry  |-> Registry, vars |-> {}, settings |-> <<>>]

Upgraded(m) == [m EXCEPT !.system = {[t EXCEPT !.version = <<@[1] + 1, 0, 0>>] : t \in m.system}]
Emptied(m)  == [m EXCEPT !.system = {}]
Altered(m)  == {Upgraded(m), Emptied(m)}

-----------------------------------------------------------------------------
Dep(package) == [package |-> package, version |-> "any", as |-> "", cli |-> TRUE]

Wire(id, name, entry, language, options) ==
    [id |-> id, name |-> {name}, entry |-> {entry}, language |-> {language}, priority |-> {},
     groups |-> {}, options |-> options @@ NoOptions]

\* an entry of the configuration that says nothing but options
Asking(id, options) ==
    [id |-> id, name |-> {}, entry |-> {}, language |-> {}, priority |-> {}, groups |-> {},
     options |-> options @@ NoOptions]

\* every file that a language looks for
File(language) ==
    CASE language = "python" -> "pyproject.toml" [] language \in {"node", "bun"} -> "package.json"
      [] language = "golang" -> "go.mod"         [] language = "ruby"    -> "gemspec"
      [] language = "rust"   -> "Cargo.toml"     [] language = "dart"    -> "pubspec.yaml"
      [] language = "php"    -> "composer.json"  [] language = "lua"     -> "rockspec"
      [] language = "perl"   -> "Makefile.PL"    [] language = "haskell" -> ".cabal"
      [] language = "conda"  -> "environment.yml" [] language = "coursier" -> ".pre-commit-channel"
      [] language = "swift"  -> "Package.swift"  [] language = "r"       -> "renv.lock"
      [] language = "docker" -> "Dockerfile"     [] OTHER -> "tool"

Tree(language) ==
    File(language) :>
        [programs |-> IF File(language) \in {"tool", "renv.lock"} THEN {} ELSE {"tool"}, with |-> "none",
         requires |-> {Text("", Compare({<<">=", <<3, 13>>>>}))},
         script |-> {}, go |-> {<<3, 13>>}, toolchain |-> {}, members |-> <<{"other"}, {"tool"}>>]

Entry(language) == IF language = "r" THEN <<Bare("Rscript"), Bare("-e")>> ELSE <<Bare("tool")>>

RemoteRepo(language, options) ==
    [kind |-> "remote", identity |-> "repo", tree |-> Tree(language),
     manifest |-> <<Wire("hook", "hook", Entry(language), language, options)>>]
LocalRepo == [kind |-> "local", identity |-> "local", tree |-> <<>>, manifest |-> <<>>]
OwnRepo(kind) == [kind |-> kind, identity |-> kind, tree |-> <<>>, manifest |-> <<>>]

Project(tree, defaults, repos) ==
    [tree |-> tree,
     config |-> [language_version |-> defaults, stages |-> {}, env |-> {}, priorities |-> "late" :> 7,
                 repos |-> repos]]

Of(repo, wires) == [repo |-> repo, hooks |-> wires]
On(p, m) == [project |-> p, machine |-> m, altered |-> Altered(m)]

-----------------------------------------------------------------------------
Ordinary == Machine({1}, {})

With(l, package) == IF l \in SupportsDependency THEN "dependencies" :> {<<Dep(package)>>} ELSE <<>>

\* the repository's hook alone, of every language, with and without a dependency
RemoteHooks ==
    {On(Project(<<>>, <<>>, <<Of(RemoteRepo(l, <<>>), <<Asking("hook", options)>>)>>), Ordinary) :
        <<l, options>> \in {<<k, o>> \in SupportsInstallEnv \X {<<>>, With("python", "dep")} :
                               k \in SupportsDependency \/ o = <<>>}}

\* the hook twice, and the same with another dependency
TwoOfOneRepository ==
    {On(Project(<<>>, <<>>,
            <<Of(RemoteRepo(l, <<>>),
                 <<Asking("hook", <<>>), Asking("hook", With(l, "dep")), Asking("hook", <<>>)>>)>>),
        Ordinary) : l \in {"python", "node", "rust", "docker"}}

\* three installations, on a machine that stays as it is
ApartHooks ==
    {[On(Project(<<>>, <<>>,
             <<Of(RemoteRepo("python", <<>>),
                  <<Asking("hook", <<>>), Asking("hook", With("python", "dep")),
                    Asking("hook", With("python", "other"))>>)>>),
         Ordinary) EXCEPT !.altered = {}]}

\* a local hook that runs the program of a dependency
LocalHooks ==
    {On(Project(<<>>, <<>>,
            <<Of(LocalRepo, <<Wire("local", "local", <<Bare("dep")>>, l,
                                   "dependencies" :> {<<Dep("dep")>>})>>)>>),
        Ordinary) : l \in SupportsDependency \ {"dart", "julia", "r", "rust"}}
    \cup {On(Project(<<>>, <<>>,
            <<Of(LocalRepo, <<Wire("local", "local", <<Bare("dep")>>, "rust",
                                   "dependencies" :> {<<Dep("dep")>>})>>)>>), Ordinary)}

\* hooks that install nothing, a pygrep, prek's own, and a script with metadata
Script == "tool" :> [programs |-> {}, with |-> "python", requires |-> {}, go |-> {}, toolchain |-> {},
                     members |-> <<>>,
                     script |-> {[dependencies |-> {<<Dep("dep")>>}, requires |-> {Text("", Compare({<<"<", <<3, 13>>>>}))}]}]

OtherHooks ==
    {On(Project(Script, <<>>,
            <<Of(LocalRepo, <<Wire("one", "one", <<Beside("tool")>>, "python", <<>>),
                              Wire("two", "two", <<Beside("tool")>>, l,
                                   IF l = "pygrep" THEN "args" :> {<<"--negate">>} ELSE <<>>)>>),
              Of(OwnRepo("builtin"), <<Asking("identity", <<>>)>>)>>), Ordinary) :
        l \in {"script", "system", "fail", "docker_image", "pygrep"}}
    \cup {On(Project(Script, <<>>,
            <<Of(LocalRepo, <<Wire("shell", "shell", <<Beside("tool")>>, "system", "shell" :> {"sh"})>>)>>), Ordinary)}

\* Requests and preferences, each in the entry, the manifest or the defaults
Fragment(request, text, preference) == {LanguageVersion(request, text, preference, TRUE)}
Fragments ==
    {{}, Fragment("unspecified", NoText, "only-system"),
     Fragment("explicit", Text("", Numbers(<<3, 13>>)), "none"),
     Fragment("explicit", Text("", Compare({<<">", <<3, 12>>>>})), "system"),
     {FromWire({Text("", Word("system"))}, "none")}}

Requests ==
    {On(Project(<<>>, IF d = {} THEN <<>> ELSE l :> Some(d),
            <<Of(RemoteRepo(l, "language_version" :> f), <<Asking("hook", "language_version" :> e)>>)>>),
        Machine({1}, {2})) :
        l \in {"python", "node"}, e \in Fragments, f \in Fragments, d \in Fragments}

\* hooks that are installed one after the other and need an environment each: another
\* version of the language, or the language that looks for its interpreter alike
OneAfterTheOther ==
    {On(Project(<<>>, <<>>,
            <<Of(RemoteRepo(l, <<>>),
                 <<Asking("hook", "language_version" :> Fragment("explicit", Text("", Numbers(<<3, 12>>)), "none")),
                   Asking("hook", "language_version" :> Fragment("explicit", Text("", Numbers(<<3, 13>>)), "none"))>>)>>),
        Ordinary) : l \in {"python", "golang", "rust"}}
    \cup {On(Project(<<>>, <<>>,
            <<Of(LocalRepo, <<Wire("grep", "grep", <<Bare("tool")>>, "pygrep", <<>>),
                              Wire("run", "run", <<Bare("python")>>, "python", <<>>)>>)>>), Ordinary)}

\* two hooks of rust that share an environment: one asks for the stable channel, the other
\* for nothing, on a machine whose rustup has releases; and their programs are in two
\* packages of a workspace
WithRust(m, labels) ==
    [m EXCEPT !.system = {t \in m.system : t.tool # "rust"}
                             \cup {Tool("rust", <<1, 80, 0>>, label) : label \in labels}]
Channel(w) == Fragment("explicit", Text("", Word(w)), "none")

RustChannels(first, then, labels) ==
    On(Project(<<>>, <<>>,
           <<Of(LocalRepo, <<Wire("fmt", "fmt", <<Bare("rust")>>, "rust", "language_version" :> first),
                             Wire("doc", "doc", <<Bare("rust")>>, "rust", "language_version" :> then)>>)>>),
       WithRust(Ordinary, labels))

RustMembers(first, then) ==
    On(Project(<<>>, <<>>,
           <<Of([RemoteRepo("rust", <<>>) EXCEPT !.manifest =
                    <<Wire("first", "first", <<Bare(first)>>, "rust", <<>>),
                      Wire("then", "then", <<Bare(then)>>, "rust", <<>>)>>],
                <<Asking("first", <<>>), Asking("then", <<>>)>>)>>), Ordinary)

RustHooks ==
    {RustChannels(first, then, labels) :
        first \in {{}, Channel("stable")}, then \in {{}, Channel("stable"), Channel("beta")},
        labels \in {{"none"}, {"none", "beta"}, {"stable", "none"}}}
    \cup {RustMembers(first, then) : first \in {"tool", "other"}, then \in {"tool", "other"}}

MCScenarios ==
    RustHooks \cup OneAfterTheOther \cup RemoteHooks \cup TwoOfOneRepository \cup ApartHooks \cup LocalHooks \cup OtherHooks \cup Requests
MCPredefined == [builtin |-> "identity" :> NoOptions, meta |-> "identity" :> NoOptions]
=============================================================================
