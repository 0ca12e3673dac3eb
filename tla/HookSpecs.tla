----------------------------- MODULE HookSpecs -----------------------------
(***************************************************************************)
(* From a configuration to the hooks of a run (workspace.rs, hook.rs,      *)
(* config/hook.rs): the hook a manifest declares under the entry of the    *)
(* configuration, the project's defaults, the checks of what a language    *)
(* supports, the metadata read from the hook's own files, and what the     *)
(* hook requires of an environment.                                        *)
(*                                                                         *)
(* An optional value is {} or the set of the value.  A tree of files is a  *)
(* function from the names of the files that matter to their contents.     *)
(***************************************************************************)
EXTENDS Versions, TLC

Some(s) == CHOOSE v \in s : TRUE
Or(s, default) == IF s = {} THEN default ELSE Some(s)
First(s, t) == IF s = {} THEN t ELSE s

\* the first of a sequence that passes a test: {} or the one
FirstOf(seq, Test(_)) ==
    {seq[i] : i \in {j \in DOMAIN seq : Test(seq[j]) /\ \A k \in 1 .. j - 1 : ~Test(seq[k])}}

-----------------------------------------------------------------------------
(* What each language supports (languages/mod.rs).                         *)

Languages ==
    {"bun", "conda", "coursier", "dart", "deno", "docker", "docker_image", "dotnet", "fail",
     "golang", "haskell", "julia", "lua", "mise", "node", "perl", "php", "pygrep", "python",
     "r", "ruby", "rust", "script", "swift", "system"}

SupportsInstallEnv == Languages \ {"docker_image", "fail", "script", "system"}

SupportsLanguageVersion ==
    {"bun", "deno", "dotnet", "golang", "mise", "node", "python", "ruby", "rust"}

SupportsDependency ==
    Languages \ {"docker", "docker_image", "fail", "pygrep", "script", "swift", "system"}

SupportsShell ==
    Languages \ {"r", "dart", "docker", "docker_image", "fail", "julia", "rust", "pygrep"}

CanModifyFiles == Languages \ {"fail", "pygrep"}

\* the directories of the store under which a language keeps its tools
ToolBuckets(language) ==
    CASE language \in {"python", "pygrep"} -> {"uv", "python"}
      [] language = "golang"               -> {"go"}
      [] language = "rust"                 -> {"rustup"}
      [] language \in SupportsLanguageVersion -> {language}
      [] OTHER                             -> {}

CacheBuckets(language) ==
    CASE language \in {"python", "pygrep"} -> {"uv", "python"}
      [] language = "golang"               -> {"go"}
      [] language = "node"                 -> {"npm"}
      [] language = "rust"                 -> {"cargo"}
      [] language \in {"coursier", "deno"} -> {language}
      [] OTHER                             -> {}

\* Language::ensure_exec_supported
ExecSupported(hook) ==
    /\ hook.repo.kind \in {"remote", "local"}
    /\ hook.language \notin {"docker", "docker_image", "fail", "julia", "pygrep"}

-----------------------------------------------------------------------------
(* An entry: the words it splits into.  An entry whose quotes do not match *)
(* has the single word Unbalanced; a word is looked up on the PATH (Bare), *)
(* names a file beside the hook (Beside), or names one under {hook_repo}.  *)

Unbalanced   == [at |-> "unbalanced", name |-> ""]
Bare(name)   == [at |-> "path", name |-> name]
Beside(name) == [at |-> "cwd", name |-> name]
InRepo(name) == [at |-> "hook_repo", name |-> name]

\* ArgvHookEntry::split and split_expanded: {} when there is no command
Split(entry) == IF entry = <<>> \/ entry[1] = Unbalanced THEN {} ELSE {entry}

-----------------------------------------------------------------------------
(* The options of a hook and how an entry of the configuration overrides   *)
(* those of the manifest.                                                  *)

OptionFields == {"dependencies", "args", "env", "language_version", "shell", "stages", "files",
                 "exclude", "types", "always_run", "pass_filenames", "require_serial"}

NoOptions == [f \in OptionFields |-> {}]

UpdateOptions(mine, other) ==
    [f \in OptionFields |->
        IF mine[f] = {} \/ other[f] = {} THEN First(other[f], mine[f])
        ELSE CASE f = "language_version" -> {UpdateVersion(Some(mine[f]), Some(other[f]))}
               [] f = "env"              -> {Some(other[f]) @@ Some(mine[f])}
               [] OTHER                  -> other[f]]

\* What the file says of a hook: RemoteHook.  pass_filenames is all, none or a
\* positive number.
WireValid(wire) ==
    /\ \A n \in wire.options["pass_filenames"] : n # 0
    /\ \A g \in Or(wire.groups, {}) : g.valid

\* a hook that must say what to run: ManifestHook and LocalHook
Declared(wire) == wire.name # {} /\ wire.entry # {} /\ wire.language # {}

FromManifest(wire) ==
    [id |-> wire.id, name |-> Some(wire.name), entry |-> Some(wire.entry),
     language |-> Some(wire.language), overridden |-> FALSE, priority |-> {}, groups |-> {},
     options |-> wire.options]

FromLocal(wire) ==
    [FromManifest(wire) EXCEPT !.priority = wire.priority, !.groups = wire.groups]

FromRemote(manifest, wire) ==
    LET spec == FromManifest(manifest)
    IN  [spec EXCEPT !.name       = Or(wire.name, @),
                     !.entry      = Or(wire.entry, @),
                     !.language   = Or(wire.language, @),
                     !.overridden = wire.language # {},
                     !.priority   = First(wire.priority, @),
                     !.groups     = First(wire.groups, @),
                     !.options    = UpdateOptions(@, wire.options)]

\* meta and builtin hooks: prek's own, of which only some things may be said
PredefinedValid(predefined, wire) ==
    /\ wire.id \in DOMAIN predefined
    /\ Or(wire.language, "system") = "system"
    /\ wire.entry = {}

FromPredefined(predefined, wire) ==
    [id |-> wire.id, name |-> Or(wire.name, wire.id), entry |-> <<Bare(wire.id)>>,
     language |-> "system", overridden |-> FALSE, priority |-> wire.priority,
     groups |-> wire.groups, options |-> UpdateOptions(predefined[wire.id], wire.options)]

-----------------------------------------------------------------------------
(* The project's defaults and what the language supports.                  *)

WithProjectDefaults(spec, config) ==
    LET mine     == spec.options
        default  == {config.language_version[l] : l \in DOMAIN config.language_version \cap {spec.language}}
        version  == IF default = {} THEN mine["language_version"]
                    ELSE IF mine["language_version"] = {} THEN default
                    ELSE {ApplyDefaults(Some(mine["language_version"]), Some(default))}
        stages   == IF Or(mine["stages"], {}) = {} THEN {Or(config.stages, "all")}
                    ELSE mine["stages"]
        env      == IF config.env = {} THEN mine["env"]
                    ELSE {Or(mine["env"], <<>>) @@ Some(config.env)}
    IN  [spec EXCEPT !.options["language_version"] = version,
                     !.options["stages"]           = stages,
                     !.options["env"]              = env]

SpecValid(spec, kind) ==
    /\ Or(spec.options["dependencies"], <<>>) # <<>> =>
           spec.language \in SupportsInstallEnv \cap SupportsDependency
    /\ spec.language \in SupportsLanguageVersion
           \/ \A v \in spec.options["language_version"] : IsDefault(v)
    /\ spec.options["shell"] # {} => kind \notin {"meta", "builtin"} /\ spec.language \in SupportsShell

\* LanguageRequest::from_config
RequestFrom(language, versions) ==
    RequestOf(language, Or(versions, LanguageVersion("unspecified", NoText, "none", TRUE)))

ResolvePriority(priority, priorities, position) ==
    CASE priority = {}               -> {position}
      [] Some(priority).t = "number" -> {Some(priority).n}
      [] OTHER                       -> {priorities[a] : a \in DOMAIN priorities \cap {Some(priority).n}}

-----------------------------------------------------------------------------
(* The metadata of a hook's own files.  Where a file cannot be read or     *)
(* understood the hook is used as it is.                                   *)

WithVersion(hook, text) ==
    LET request == ParseRequest(hook.language, text)
    IN  IF request = Invalid THEN hook ELSE [hook EXCEPT !.request.version = request]

UnlessConfigured(hook, texts) ==
    IF hook.request.version # AnyVersion \/ hook.repo.kind # "remote" \/ texts = {} THEN hook
    ELSE WithVersion(hook, Some(texts))

\* pyproject.toml: requires-python
ExtractPyproject(hook) ==
    UnlessConfigured(hook, IF "pyproject.toml" \in DOMAIN hook.repo.tree
                           THEN hook.repo.tree["pyproject.toml"].requires ELSE {})

\* a script that carries its dependencies: they are read only when none are
\* configured, and its requires-python replaces a configured version
ExtractScript(hook) ==
    LET tree   == IF hook.repo.kind = "remote" THEN hook.repo.tree ELSE hook.work
        argv   == Split(hook.entry)
        script == IF hook.shell = {} /\ hook.dependencies = <<>> /\ argv # {}
                     /\ Some(argv)[1].name \in DOMAIN tree
                  THEN tree[Some(argv)[1].name].script ELSE {}
    IN  IF script = {} THEN hook
        ELSE LET with == [hook EXCEPT !.dependencies = Or(Some(script).dependencies, @)]
             IN  IF Some(script).requires = {} THEN with
                 ELSE WithVersion(with, Some(Some(script).requires))

\* go.mod: at least the version of the go directive, or else of the toolchain
ExtractGoMod(hook) ==
    LET mod  == IF "go.mod" \in DOMAIN hook.repo.tree THEN {hook.repo.tree["go.mod"]} ELSE {}
        said == IF mod = {} THEN {} ELSE First(Some(mod).go, Some(mod).toolchain)
    IN  UnlessConfigured(hook, {Text("", Compare({<<">=", v \o [i \in 1 .. 3 - Len(v) |-> 0]>>})) : v \in said})

ExtractMetadata(hook) ==
    CASE hook.language = "python" -> ExtractScript(ExtractPyproject(hook))
      [] hook.language = "golang" -> ExtractGoMod(hook)
      [] OTHER                    -> hook

-----------------------------------------------------------------------------
(* The hooks of a project.                                                 *)

\* Hook::from_spec: {} when the configuration is refused
FromSpec(raw, repo, project, position) ==
    LET spec     == WithProjectDefaults(raw, project.config)
        request  == RequestFrom(spec.language, spec.options["language_version"])
        priority == ResolvePriority(spec.priority, project.config.priorities, position)
        hook     == [idx |-> position, id |-> spec.id, repo |-> repo, language |-> spec.language,
                     overridden |-> spec.overridden, entry |-> spec.entry,
                     dependencies |-> Or(spec.options["dependencies"], <<>>),
                     args |-> Or(spec.options["args"], <<>>), env |-> Or(spec.options["env"], <<>>),
                     shell |-> spec.options["shell"], stages |-> Some(spec.options["stages"]),
                     request |-> request, priority |-> Or(priority, position),
                     groups |-> Or(spec.groups, {}), work |-> project.tree]
    IN  IF SpecValid(spec, repo.kind) /\ priority # {} /\ request.version # Invalid
        THEN {ExtractMetadata(hook)} ELSE {}

\* the hook of the manifest with the id: the first
ManifestHook(manifest, id) == FirstOf(manifest, LAMBDA h : h.id = id)

\* the specification of an entry of the configuration, {} when it is refused
SpecOf(repo, wire, predefined) ==
    CASE ~WireValid(wire)       -> {}
      [] repo.kind = "remote"   -> {FromRemote(h, wire) : h \in ManifestHook(repo.manifest, wire.id)}
      [] repo.kind = "local"    -> IF Declared(wire) THEN {FromLocal(wire)} ELSE {}
      [] OTHER                  -> IF PredefinedValid(predefined[repo.kind], wire)
                                   THEN {FromPredefined(predefined[repo.kind], wire)} ELSE {}

\* the entries of a project in the order of its file
Entries(project) ==
    FlattenSeq([r \in DOMAIN project.config.repos |->
        [h \in DOMAIN project.config.repos[r].hooks |->
            [repo |-> project.config.repos[r].repo, wire |-> project.config.repos[r].hooks[h]]]])

\* Project::build_hooks: {} when one of the hooks is refused
BuildHooks(project, predefined) ==
    LET entries == Entries(project)
        hook(i) == UNION {FromSpec(s, entries[i].repo, project, i - 1) :
                              s \in SpecOf(entries[i].repo, entries[i].wire, predefined)}
    IN  IF \E i \in DOMAIN entries :
               entries[i].repo.kind = "remote"
               /\ \E m \in Range(entries[i].repo.manifest) : ~WireValid(m) \/ ~Declared(m)
        THEN {}
        ELSE IF \E i \in DOMAIN entries : hook(i) = {} THEN {}
        ELSE {[i \in DOMAIN entries |-> Some(hook(i))]}

-----------------------------------------------------------------------------
(* What a hook requires of an environment, and which one gives it.         *)

NeedsInstallEnv(hook) ==
    hook.repo.kind \notin {"meta", "builtin"} /\ hook.language \in SupportsInstallEnv

Requirement(hook) ==
    [language |-> hook.language, repo |-> hook.repo.identity, dependencies |-> hook.dependencies,
     request |-> hook.request]

\* the collector's requirement of a configured hook: from the file alone
RequirementFromSpec(spec, config, repo) ==
    LET with    == WithProjectDefaults(spec, config)
        request == RequestFrom(with.language, with.options["language_version"])
    IN  IF with.language \notin SupportsInstallEnv \/ request.version = Invalid THEN {}
        ELSE {[language |-> with.language, repo |-> repo.identity,
               dependencies |-> Or(with.options["dependencies"], <<>>), request |-> request]}

CurrentSchema == 1
Nowhere == [tool |-> "none", place |-> "none", version |-> Unrecorded, label |-> "none"]

IsSatisfiedBy(requirement, info) ==
    /\ info.schema = CurrentSchema
    /\ info.language = requirement.language
    /\ info.repo = requirement.repo
    /\ info.dependencies = requirement.dependencies
    /\ SatisfiedBy(requirement.language, requirement.request.version, info)

\* InstallInfo::new
NewInfo(hook) ==
    [schema |-> CurrentSchema, language |-> hook.language, version |-> Unrecorded,
     repo |-> hook.repo.identity, dependencies |-> hook.dependencies, toolchain |-> Nowhere,
     label |-> "none"]
=============================================================================
