----------------------------- MODULE Toolchains -----------------------------
(***************************************************************************)
(* The toolchains prek finds or installs for the environments of its       *)
(* hooks: one directory of the store per language, a lock in it, a         *)
(* directory (or, for uv and rustup, a file) per version.  Tasks are the   *)
(* installations of one process; a kill loses them all, and a new process  *)
(* starts over with what is on disk.  The store's lock keeps other         *)
(* processes away (see Store).                                             *)
(***************************************************************************)
EXTENDS Naturals, Sequences, FiniteSetsExt, SequencesExt

CONSTANTS
    Task,       \* installations that need a toolchain of the same language
    Version,    \* versions, numbered in their order
    Wants,      \* [Task -> SUBSET Version]: the versions a request accepts
    World,      \* what an installation may meet: a set of env records
    MaxFaults   \* kills, failures and altered downloads of a behaviour

VARIABLES
    env,      \* the language, its configuration and the world: never changes
    tool,     \* what is at the place of each version
    holder,   \* the task that has the lock, or NoTask
    pc,       \* where each task is
    tried,    \* how many sources of the policy a task has searched
    plan,     \* the version a task is installing
    source,   \* where uv comes from; "release" for the others
    body,     \* what the task has downloaded
    step,     \* how many steps of putting it in place are done
    found,    \* the result: <<"system" or "managed", version>>
    blind,    \* tasks that could not ask something installed for its version
    faults

vars == <<env, tool, holder, pc, tried, plan, source, body, step, found, blind, faults>>

NoTask == "nobody"
Preference == {"only-managed", "managed", "system", "only-system"}

(* "damaged" does not run or lacks its gem; "empty" is the directory        *)
(* without the executable, "rough" with one that may not be executed yet,   *)
(* "altered" is another thing than was published.                           *)
State == {"absent", "damaged", "empty", "rough", "altered", "good"}
Present == State \ {"absent"}
Runs == {"altered", "good"}

(* A level of language_version: left out, or a request and a preference.    *)
ConfigLevel ==
    {<<>>} \cup ({"unspecified", "default", "system", "explicit"}
                    \X (Preference \cup {"none"}))

Env ==
    [language : {"node", "golang", "ruby", "bun", "deno", "mise", "dotnet", "rust",
                 "rustup", "uv", "python"},
     manifest : ConfigLevel, project : ConfigLevel, default : ConfigLevel,
     checksums : {"warn-missing", "required", "disabled"},
     listed : BOOLEAN,                    \* a digest is published
     remote : SUBSET Version,             \* what is published
     system : SUBSET Version,             \* what PATH has that tells its version
     loader : {"usual", "static-helps", "unusual"},
     uv : {"auto", "none", "archive", "pypi", "tuna", "aliyun", "tencent", "pip"},
                                          \* PREK_UV_SOURCE
     tools : [Version -> State]]          \* what is in the store

ASSUME ToolchainsAssumption ==
    /\ Version \subseteq Nat \ {0} /\ Version # {}
    /\ \A some \in SUBSET Version : some # {} => \E v \in some : \A w \in some : v >= w
    /\ Wants \in [Task -> SUBSET Version]
    /\ World \subseteq Env
    /\ MaxFaults \in Nat
    /\ NoTask \notin Task

(* What earlier processes have left: where a search does not try what it    *)
(* finds, only what can be run is there (bun and deno see below).           *)
ASSUME StoreAssumption ==
    \A e \in World : \A v \in Version :
        /\ e.language \in {"node", "golang", "bun", "deno", "dotnet", "rustup"}
              => e.tools[v] \in {"absent"} \cup Runs
        /\ e.tools[v] = "altered" =>
              e.checksums = "disabled" \/ (e.checksums = "warn-missing" /\ ~e.listed)

-----------------------------------------------------------------------------
(* The languages: what is accepted when it is found, how a download is put  *)
(* in its place, what is looked at again before it is handed out.           *)

Release(accepts, place, final) ==
    [accepts |-> accepts, place |-> place, final |-> final, early |-> FALSE,
     lock |-> TRUE, by |-> "download"]

(* A directory named after a version is that version.                       *)
Node == Release(Present, <<"clear", "rename">>, Present)
Golang == Release(Present, <<"clear", "rename">>, Present)

(* The gem command must be there, before and after.                         *)
Ruby == Release(Runs, <<"clear", "rename">>, Runs)

(* The directory of the version is made before its executable is moved in.  *)
Bun == Release(Present, <<"clear", "mkdir", "rename">>, Present)
Deno == Release(Present, <<"clear", "mkdir", "move", "chmod">>, Present)

(* Faulty: the executable is built in the directory of the version.         *)
MiseInPlace == Release(Present, <<"clear", "mkdir", "rename">>, Present)

(* Built in a directory of its own; found only if it runs and says so.      *)
Mise == Release(Runs, <<"stage", "clear", "rename">>, Present)

(* Microsoft's script fills a directory of its own, and the SDK in it tells *)
(* the version that names it.                                               *)
Dotnet == [Release(Present, <<"stage", "clear", "rename">>, Present)
             EXCEPT !.by = "script"]

(* rustup keeps the toolchains; rustc of each is run when they are listed   *)
(* and when one was installed.                                              *)
Rust == [Release(Runs, <<>>, Runs) EXCEPT !.by = "manager"]

(* One file, looked for before the lock is taken and again under it.        *)
Rustup == [Release(Present, <<"clear", "rename">>, Present) EXCEPT !.early = TRUE]
Uv == [Release(Runs, <<>>, Runs) EXCEPT !.early = TRUE]

(* uv venv finds, or is told to download, an interpreter; no lock of prek.  *)
Python == [Release(Runs, <<>>, Runs) EXCEPT !.by = "manager", !.lock = FALSE]

Language ==
    [node |-> Node, golang |-> Golang, ruby |-> Ruby, bun |-> Bun, deno |-> Deno,
     mise |-> Mise, dotnet |-> Dotnet, rust |-> Rust, rustup |-> Rustup,
     uv |-> Uv, python |-> Python]

L == Language[env.language]

(* uv's sources: an archive is run before it replaces anything, the wheel   *)
(* of PyPI and its mirrors and what pip installed only afterwards.          *)
UvPlace(s) ==
    CASE s \in {"archive", "static"} -> <<"validate", "clear", "rename">>
      [] s \in {"pypi", "tuna", "aliyun", "tencent"} -> <<"clear", "move", "chmod">>
      [] s = "pip" -> <<"clear", "rename">>

UvSources == <<"archive", "pypi", "tuna", "aliyun", "tencent", "pip">>

Place(t) == IF env.language = "uv" THEN UvPlace(source[t]) ELSE L.place

-----------------------------------------------------------------------------
(* language_version: the manifest's, the project's for the hook and the     *)
(* project's default, each possibly left out.                               *)

NotSet == [request |-> "unspecified", preference |-> "none", downloads |-> TRUE]

LanguageVersion(request, preference) ==
    [request |-> IF request = "system" THEN "default" ELSE request,
     preference |-> preference,
     downloads |-> request # "system"]

Update(lv, other) ==
    [request |-> IF other.request # "unspecified" THEN other.request ELSE lv.request,
     downloads |-> IF other.request # "unspecified" THEN other.downloads ELSE lv.downloads,
     preference |-> IF other.preference # "none" THEN other.preference ELSE lv.preference]

(* Faulty: the request is inherited without its ban on downloads.           *)
ApplyDefaultsAllowing(lv, defaults) ==
    [request |-> IF lv.request = "unspecified" THEN defaults.request ELSE lv.request,
     downloads |-> lv.downloads,
     preference |-> IF lv.preference = "none" THEN defaults.preference ELSE lv.preference]

ApplyDefaults(lv, defaults) ==
    [request |-> IF lv.request = "unspecified" THEN defaults.request ELSE lv.request,
     downloads |-> IF lv.request = "unspecified" THEN defaults.downloads ELSE lv.downloads,
     preference |-> IF lv.preference = "none" THEN defaults.preference ELSE lv.preference]

Level(l) == IF l = <<>> THEN NotSet ELSE LanguageVersion(l[1], l[2])

Policy ==
    LET lv == ApplyDefaults(Update(Level(env.manifest), Level(env.project)),
                            Level(env.default))
        preference == IF lv.preference = "none" THEN "managed" ELSE lv.preference
    IN  [preference |-> preference,
         downloads |-> lv.downloads /\ preference # "only-system"]

SearchOrder ==
    IF L.early THEN <<"managed">>
    ELSE CASE Policy.preference = "only-managed" -> <<"managed">>
           [] Policy.preference = "managed" -> <<"managed", "system">>
           [] Policy.preference = "system" -> <<"system", "managed">>
           [] Policy.preference = "only-system" -> <<"system">>

-----------------------------------------------------------------------------
(* There is one uv and one rustup, whatever a hook asks of its language.    *)
Wanted(t) == IF L.early THEN {Max(Version)} ELSE Wants[t]

Installed(t) == {v \in Wanted(t) : tool[v] \in L.accepts}
OnSystem(t) == env.system \cap Wanted(t)

Init ==
    /\ env \in World
    /\ tool = env.tools
    /\ holder = NoTask
    /\ pc = [t \in Task |-> "idle"]
    /\ tried = [t \in Task |-> 0]
    /\ plan = [t \in Task |-> 0]
    /\ source = [t \in Task |-> "release"]
    /\ body = [t \in Task |-> "none"]
    /\ step = [t \in Task |-> 0]
    /\ found = [t \in Task |-> <<>>]
    /\ blind = {}
    /\ faults = 0

Goto(t, label) == pc' = [pc EXCEPT ![t] = label]

(* Returning drops the lock.                                                *)
Unlock(t) == holder' = IF holder = t THEN NoTask ELSE holder

Return(t, from, v) ==
    /\ found' = [found EXCEPT ![t] = <<from, v>>]
    /\ Goto(t, "done")
    /\ Unlock(t)

(* Faulty: a failing installation keeps the lock.                            *)
FailHolding(t) == Goto(t, "failed") /\ UNCHANGED <<holder, found>>

Fail(t) ==
    /\ Goto(t, "failed")
    /\ Unlock(t)
    /\ UNCHANGED found

(* A source of uv that fails gives way to the next; any other failure, and  *)
(* that of a source that was asked for by name, is the installation's.      *)
NextSource(t) ==
    LET s == IF source[t] = "static" THEN "archive" ELSE source[t]
        i == CHOOSE i \in DOMAIN UvSources : UvSources[i] = s
        last == env.language # "uv" \/ env.uv # "auto" \/ i = Len(UvSources)
    IN  IF last THEN Fail(t) /\ UNCHANGED <<source, step>>
        ELSE /\ source' = [source EXCEPT ![t] = UvSources[i + 1]]
             /\ step' = [step EXCEPT ![t] = 0]
             /\ Goto(t, "fetch")
             /\ UNCHANGED <<holder, found>>

-----------------------------------------------------------------------------
(* rustup and uv are first looked for without the lock: in PATH, then in    *)
(* their place; PREK_UV_SOURCE=none ends it there.                          *)
Start(t) ==
    /\ pc[t] = "idle"
    /\ \/ /\ L.early /\ env.system # {}
          /\ Return(t, "system", Max(Version))
       \/ /\ L.early /\ env.system = {} /\ Installed(t) # {}
          /\ Return(t, "managed", Max(Version))
       \/ /\ L.early /\ env.system = {} /\ Installed(t) = {}
          /\ IF env.language = "uv" /\ env.uv = "none"
             THEN Fail(t)
             ELSE Goto(t, "waiting") /\ UNCHANGED <<holder, found>>
       \/ /\ ~L.early
          /\ Goto(t, IF L.lock THEN "waiting" ELSE "search")
          /\ UNCHANGED <<holder, found>>
    /\ tried' = [tried EXCEPT ![t] = 0]
    /\ UNCHANGED <<env, tool, plan, source, body, step, blind, faults>>

(* Faulty: the directory is not locked.                                     *)
AcquireShared(t) ==
    /\ pc[t] = "waiting"
    /\ holder' = t
    /\ Goto(t, "search")
    /\ UNCHANGED <<env, tool, tried, plan, source, body, step, found, blind, faults>>

(* Faulty: what was seen before waiting is not looked at again.             *)
AcquireOnce(t) ==
    /\ pc[t] = "waiting" /\ holder = NoTask
    /\ holder' = t
    /\ Goto(t, IF L.early THEN "resolve" ELSE "search")
    /\ UNCHANGED <<env, tool, tried, plan, source, body, step, found, blind, faults>>

Acquire(t) ==
    /\ pc[t] = "waiting" /\ holder = NoTask
    /\ holder' = t
    /\ Goto(t, "search")
    /\ UNCHANGED <<env, tool, tried, plan, source, body, step, found, blind, faults>>

(* The newest managed one that matches, or the first of PATH that does.     *)
Take(t, from, matches) ==
    \/ matches = {} /\ UNCHANGED <<pc, holder, found>>
    \/ \E v \in matches :
          /\ from = "managed" => v = Max(matches)
          /\ Return(t, from, v)

Search(t) ==
    /\ pc[t] = "search" /\ tried[t] < Len(SearchOrder)
    /\ tried' = [tried EXCEPT ![t] = @ + 1]
    /\ LET from == SearchOrder[tried[t] + 1]
       IN  Take(t, from, IF from = "managed" THEN Installed(t) ELSE OnSystem(t))
    /\ UNCHANGED <<env, tool, plan, source, body, step, blind, faults>>

(* No source had it: download, if the policy allows.  For Python the error  *)
(* of a last search of the system is final unless uv says that there is a   *)
(* download.                                                                *)
Decide(t) ==
    /\ pc[t] = "search" /\ tried[t] = Len(SearchOrder)
    /\ \/ /\ L.early \/ Policy.downloads
          /\ Goto(t, "resolve") /\ UNCHANGED <<holder, found>>
       \/ /\ \/ ~L.early /\ ~Policy.downloads
             \/ env.language = "python" /\ Last(SearchOrder) = "system"
          /\ Fail(t)
    /\ UNCHANGED <<env, tool, tried, plan, source, body, step, blind, faults>>

(* The newest published version that matches; the script of .NET decides    *)
(* by itself which of them a channel means.                                 *)
Resolve(t) ==
    /\ pc[t] = "resolve"
    /\ LET matches == IF L.early THEN Wanted(t) ELSE env.remote \cap Wanted(t)
       IN  \/ /\ matches = {} /\ Fail(t) /\ UNCHANGED <<plan, source>>
           \/ /\ \E v \in matches :
                    /\ env.language # "dotnet" => v = Max(matches)
                    /\ plan' = [plan EXCEPT ![t] = v]
              /\ source' = [source EXCEPT ![t] =
                    IF env.language # "uv" THEN "release"
                    ELSE IF env.uv = "auto" THEN UvSources[1] ELSE env.uv]
              /\ Goto(t, "fetch") /\ UNCHANGED <<holder, found>>
    /\ step' = [step EXCEPT ![t] = 0]
    /\ UNCHANGED <<env, tool, tried, body, blind, faults>>

(* Faulty: a missing digest counts as a matching one.                       *)
AcceptedIfMissing(b) == env.checksums = "disabled" \/ ~env.listed \/ b = "good"

(* The digest is compared if one is published, and else it depends.         *)
Accepted(b) ==
    \/ env.checksums = "disabled"
    \/ env.listed /\ b = "good"
    \/ ~env.listed /\ env.checksums = "warn-missing"

(* What was published does not run everywhere: uv's archive and wheel need  *)
(* the loader they were linked for, the static archive does not.            *)
Delivered(t, b) ==
    IF env.language = "uv" /\ env.loader # "usual" /\ source[t] # "static"
    THEN "damaged" ELSE b

Fetch(t) ==
    /\ pc[t] = "fetch" /\ L.by \in {"download", "script"}
    /\ \E b \in {"good", "altered"} :
          LET checked == L.by = "download" /\ source[t] # "pip"
          IN  /\ b = "altered" => checked /\ faults < MaxFaults
              /\ faults' = IF b = "altered" THEN faults + 1 ELSE faults
              /\ IF checked => Accepted(b)
                 THEN /\ body' = [body EXCEPT ![t] = Delivered(t, b)]
                      /\ step' = [step EXCEPT ![t] = 0]
                      /\ Goto(t, "place")
                      /\ UNCHANGED <<holder, found, source>>
                 ELSE NextSource(t) /\ UNCHANGED body
    /\ UNCHANGED <<env, tool, tried, plan, blind>>

(* rustup toolchain install, or uv venv with downloads allowed: uv takes an *)
(* interpreter that has appeared since.                                     *)
Delegate(t) ==
    /\ pc[t] = "fetch" /\ L.by = "manager"
    /\ LET v == IF env.language = "python" /\ Installed(t) # {}
                THEN Max(Installed(t)) ELSE plan[t]
       IN  /\ tool' = [tool EXCEPT ![v] = IF @ \in Runs THEN @ ELSE "good"]
           /\ Return(t, "managed", v)
    /\ UNCHANGED <<env, tried, plan, source, body, step, blind, faults>>

-----------------------------------------------------------------------------
(* One step of putting a download in its place.                             *)
After(op, old, new) ==
    CASE op \in {"stage", "validate"} -> old
      [] op = "clear" -> "absent"
      [] op = "mkdir" -> "empty"
      [] op = "move" -> "rough"
      [] op \in {"rename", "chmod"} -> new

Put(t) ==
    /\ pc[t] = "place" /\ step[t] < Len(Place(t))
    /\ LET op == Place(t)[step[t] + 1]
       IN  IF op = "validate" /\ body[t] \notin Runs
           THEN \/ /\ source[t] = "archive" /\ env.loader = "static-helps"
                   /\ source' = [source EXCEPT ![t] = "static"]
                   /\ Goto(t, "fetch")
                   /\ UNCHANGED <<tool, step, holder, found>>
                \/ /\ ~(source[t] = "archive" /\ env.loader = "static-helps")
                   /\ NextSource(t)
                   /\ UNCHANGED tool
           ELSE /\ tool' = [tool EXCEPT ![plan[t]] = After(op, @, body[t])]
                /\ step' = [step EXCEPT ![t] = @ + 1]
                /\ UNCHANGED <<source, pc, holder, found>>
    /\ UNCHANGED <<env, tried, plan, body, blind, faults>>

(* It is in place: what is looked at again decides.                         *)
Finish(t) ==
    /\ pc[t] = "place" /\ step[t] = Len(Place(t))
    /\ IF tool[plan[t]] \in L.final
       THEN Return(t, "managed", plan[t]) /\ UNCHANGED <<source, step>>
       ELSE NextSource(t)
    /\ UNCHANGED <<env, tool, tried, plan, body, blind, faults>>

(* Where an error of the search is the installation's: uv that cannot be    *)
(* started, rustup that cannot list, a PATH that cannot be searched for npm.*)
Brittle(from) ==
    \/ env.language = "python"
    \/ env.language \in {"node", "rust"} /\ from = "system"

(* The network, the disk, the lock or a command fails.  What was done so    *)
(* far stays.                                                               *)
Stumble(t) ==
    /\ faults < MaxFaults
    /\ \/ pc[t] \in {"waiting", "resolve", "fetch"}
       \/ /\ pc[t] = "search" /\ tried[t] < Len(SearchOrder)
          /\ Brittle(SearchOrder[tried[t] + 1])
       \/ pc[t] = "place" /\ step[t] < Len(Place(t))
    /\ faults' = faults + 1
    /\ IF pc[t] \in {"waiting", "search", "resolve"}
       THEN Fail(t) /\ UNCHANGED <<source, step>>
       ELSE NextSource(t)
    /\ UNCHANGED <<env, tool, tried, plan, body, blind>>

(* Languages that ask what is installed for its version.  If that fails for *)
(* one that runs, it is passed over like one that does not.                 *)
Asking == {"rust", "mise", "uv", "python"}

Overlook(t) ==
    /\ faults < MaxFaults
    /\ pc[t] = "search" /\ tried[t] < Len(SearchOrder)
    /\ env.language \in Asking /\ SearchOrder[tried[t] + 1] = "managed"
    /\ faults' = faults + 1
    /\ tried' = [tried EXCEPT ![t] = @ + 1]
    /\ blind' = blind \cup {t}
    /\ \E seen \in SUBSET Installed(t) : seen # Installed(t) /\ Take(t, "managed", seen)
    /\ UNCHANGED <<env, tool, plan, source, body, step>>

(* The process dies with all its tasks and its lock; another one starts.    *)
(* What it had downloaded was in scratch directories.                       *)
Kill ==
    /\ faults < MaxFaults /\ \E t \in Task : pc[t] \notin {"idle", "done", "failed"}
    /\ faults' = faults + 1
    /\ holder' = NoTask
    /\ pc' = [t \in Task |-> "idle"]
    /\ found' = [t \in Task |-> <<>>]
    /\ blind' = {}
    /\ UNCHANGED <<env, tool, tried, plan, source, body, step>>

Step(t) ==
    \/ Start(t) \/ Acquire(t) \/ Search(t) \/ Decide(t) \/ Resolve(t)
    \/ Fetch(t) \/ Delegate(t) \/ Put(t) \/ Finish(t)

AllEnded == \A t \in Task : pc[t] \in {"done", "failed"}

Next ==
    \/ \E t \in Task : Step(t) \/ Stumble(t) \/ Overlook(t)
    \/ Kill
    \/ AllEnded /\ UNCHANGED vars

(* Requests time out and commands end: no task waits for ever.              *)
Spec == Init /\ [][Next]_vars /\ \A t \in Task : WF_vars(Step(t))

-----------------------------------------------------------------------------
TypeOK ==
    /\ env \in Env
    /\ tool \in [Version -> State]
    /\ holder \in Task \cup {NoTask}
    /\ pc \in [Task -> {"idle", "waiting", "search", "resolve", "fetch", "place",
                        "done", "failed"}]
    /\ tried \in [Task -> 0..2]
    /\ plan \in [Task -> Version \cup {0}]
    /\ source \in [Task -> {"release", "archive", "static", "pypi", "tuna", "aliyun",
                            "tencent", "pip"}]
    /\ body \in [Task -> {"none", "damaged", "altered", "good"}]
    /\ step \in [Task -> 0..4]
    /\ found \in [Task -> {<<>>} \cup ({"system", "managed"} \X Version)]
    /\ blind \in SUBSET Task
    /\ faults \in 0..MaxFaults

(* A managed toolchain that a hook was given runs, and still does while     *)
(* other tasks install theirs.  bun and deno make the directory that their  *)
(* search trusts before the executable is in it: after a failure or a kill  *)
(* in between they give away what does not run, in every later run too.     *)
(* mise and uv clear what is in place: for a task that could not ask it,    *)
(* also what another one was given.                                         *)
InPlace == {"bun", "deno"}
Clearing == {"mise", "uv"}

GivenToolchainRuns ==
    \A t \in Task :
        pc[t] = "done" /\ found[t][1] = "managed" =>
            \/ tool[found[t][2]] \in Runs
            \/ env.language \in InPlace /\ faults > 0
            \/ env.language \in Clearing /\ blind # {}

(* An installed toolchain is not installed again, replaced or taken away:   *)
(* hooks of this and of other processes use it without a lock.  Only a task *)
(* that could not ask it for its version puts another in its place.         *)
InstalledStays ==
    [][\A v \in Version :
          tool[v] \in Runs =>
              \/ tool'[v] = tool[v]
              \/ \E t \in blind : pc[t] = "place" /\ plan[t] = v]_vars

(* Something else than what was published gets into the store only when     *)
(* PREK_DOWNLOAD_CHECKSUM_POLICY lets it: never under required, and under   *)
(* warn-missing only where no digest is published.                          *)
AlteredOnlyIfAllowed ==
    \A v \in Version :
        tool[v] = "altered" =>
            \/ env.checksums = "disabled"
            \/ env.checksums = "warn-missing" /\ ~env.listed

(* A task downloads only with the lock, while no source that its policy     *)
(* lets it search has what it wants, or could tell that it has it.          *)
FetchesOnlyWhatIsMissing ==
    \A t \in Task :
        pc[t] \in {"resolve", "fetch"} /\ L.lock =>
            /\ holder = t
            /\ "managed" \in {SearchOrder[i] : i \in DOMAIN SearchOrder}
                  => Installed(t) = {} \/ t \in blind
            /\ L.early \/ "system" \in {SearchOrder[i] : i \in DOMAIN SearchOrder}
                  => OnSystem(t) = {}

(* What the levels say, read from the last one that speaks of it.           *)
Levels == <<env.project, env.manifest, env.default>>
Spoken(i, silent) ==
    LET said == {k \in 1..3 : Levels[k] # <<>> /\ Levels[k][i] # silent}
    IN  IF said = {} THEN silent ELSE Levels[Min(said)][i]

(* `system` bans downloads whatever preference comes from another level,    *)
(* and only-managed and only-system keep to their side, in every            *)
(* combination of manifest, project and defaults.                           *)
ConfigurationHonoured ==
    ~L.early =>
        \A t \in Task :
            LET request == Spoken(1, "unspecified")
                preference == Spoken(2, "none")
            IN  /\ request = "system" \/ preference = "only-system"
                      => pc[t] \notin {"resolve", "fetch", "place"}
                /\ pc[t] = "done" /\ preference = "only-managed" => found[t][1] = "managed"
                /\ pc[t] = "done" /\ preference = "only-system" => found[t][1] = "system"

(* Every installation ends: the lock is passed on by whoever fails.         *)
TasksEnd == <>[]AllEnded
=============================================================================
