-------------------------- MODULE ToolchainsProofs --------------------------
(***************************************************************************)
(* Proofs about Toolchains for any versions, requests, worlds and number   *)
(* of tasks and faults.                                                    *)
(***************************************************************************)
EXTENDS Toolchains, TLAPS

Trusting == {"node", "golang", "bun", "deno", "dotnet", "rustup"}
Places == {"idle", "waiting", "search", "resolve", "fetch", "place", "done", "failed"}
Sources == {"release", "archive", "static", "pypi", "tuna", "aliyun", "tencent", "pip"}

Fault(t) == Stumble(t) \/ Overlook(t)

LEMMA MaxFact ==
  ASSUME NEW some \in SUBSET Version, some # {}
  PROVE  Max(some) \in some /\ Max(some) \in Version
BY ToolchainsAssumption DEF Max

(***************************************************************************)
(* What the table of languages says.                                       *)
(***************************************************************************)
LEMMA LanguageFacts ==
  ASSUME env \in Env
  PROVE  /\ L.accepts \in {Present, Runs} /\ L.final \in {Present, Runs}
         /\ L.accepts = Present <=> env.language \in Trusting
         /\ L.early <=> env.language \in {"rustup", "uv"}
         /\ L.lock <=> env.language # "python"
         /\ L.by \in {"download", "script", "manager"}
         /\ L.by = "manager" <=> env.language \in {"rust", "python"}
         /\ L.place \in {<<>>, <<"clear", "rename">>, <<"clear", "mkdir", "rename">>,
                         <<"clear", "mkdir", "move", "chmod">>, <<"stage", "clear", "rename">>}
         /\ env.language = "uv" => L.final = Runs
         /\ env.language \notin {"uv", "rust", "python"} => L.place # <<>>
         /\ env.language \notin InPlace =>
              L.place \in {<<>>, <<"clear", "rename">>, <<"stage", "clear", "rename">>}
<1>1. env.language \in {"node", "golang", "ruby", "bun", "deno", "mise", "dotnet", "rust",
                        "rustup", "uv", "python"}
  BY DEF Env
<1>2. Present # Runs
  BY DEF Present, Runs, State
<1> USE <1>2 DEF Release, Trusting, InPlace
<1>3. CASE env.language = "node"
  <2>1. L = Node
    BY <1>3 DEF L, Language
  <2> QED
    BY <1>3, <2>1 DEF Node
<1>4. CASE env.language = "golang"
  <2>1. L = Golang
    BY <1>4 DEF L, Language
  <2> QED
    BY <1>4, <2>1 DEF Golang
<1>5. CASE env.language = "ruby"
  <2>1. L = Ruby
    BY <1>5 DEF L, Language
  <2> QED
    BY <1>5, <2>1 DEF Ruby
<1>6. CASE env.language = "bun"
  <2>1. L = Bun
    BY <1>6 DEF L, Language
  <2> QED
    BY <1>6, <2>1 DEF Bun
<1>7. CASE env.language = "deno"
  <2>1. L = Deno
    BY <1>7 DEF L, Language
  <2> QED
    BY <1>7, <2>1 DEF Deno
<1>8. CASE env.language = "mise"
  <2>1. L = Mise
    BY <1>8 DEF L, Language
  <2> QED
    BY <1>8, <2>1 DEF Mise
<1>9. CASE env.language = "dotnet"
  <2>1. L = Dotnet
    BY <1>9 DEF L, Language
  <2> QED
    BY <1>9, <2>1 DEF Dotnet
<1>10. CASE env.language = "rust"
  <2>1. L = Rust
    BY <1>10 DEF L, Language
  <2> QED
    BY <1>10, <2>1 DEF Rust
<1>11. CASE env.language = "rustup"
  <2>1. L = Rustup
    BY <1>11 DEF L, Language
  <2> QED
    BY <1>11, <2>1 DEF Rustup
<1>12. CASE env.language = "uv"
  <2>1. L = Uv
    BY <1>12 DEF L, Language
  <2> QED
    BY <1>12, <2>1 DEF Uv
<1>13. CASE env.language = "python"
  <2>1. L = Python
    BY <1>13 DEF L, Language
  <2> QED
    BY <1>13, <2>1 DEF Python
<1> QED
  BY <1>1, <1>3, <1>4, <1>5, <1>6, <1>7, <1>8, <1>9, <1>10, <1>11, <1>12, <1>13

-----------------------------------------------------------------------------
(***************************************************************************)
(* What the levels of language_version come to.                            *)
(***************************************************************************)
Resolved ==
  [request : {"unspecified", "default", "explicit"}, preference : Preference \cup {"none"},
   downloads : BOOLEAN]

LEMMA LevelFacts ==
  ASSUME NEW l \in ConfigLevel
  PROVE  Level(l) \in Resolved
<1>1. CASE l = <<>>
  BY <1>1 DEF Level, NotSet, Resolved
<1>2. CASE l \in {"unspecified", "default", "system", "explicit"} \X (Preference \cup {"none"})
  <2>1. l # <<>> /\ l[1] \in {"unspecified", "default", "system", "explicit"}
        /\ l[2] \in Preference \cup {"none"} /\ (l[1] # "system") \in BOOLEAN
    BY <1>2
  <2> QED
    BY <2>1 DEF Level, LanguageVersion, Resolved
<1> QED
  BY <1>1, <1>2 DEF ConfigLevel

LEMMA MergeFacts ==
  ASSUME NEW x \in Resolved, NEW y \in Resolved
  PROVE  Update(x, y) \in Resolved /\ ApplyDefaults(x, y) \in Resolved
BY DEF Update, ApplyDefaults, Resolved

LEMMA PolicyFacts ==
  ASSUME env \in Env
  PROVE  /\ Policy.preference \in Preference
         /\ Policy.preference = "only-system" => ~Policy.downloads
<1> DEFINE lv == ApplyDefaults(Update(Level(env.manifest), Level(env.project)), Level(env.default))
<1>1. env.manifest \in ConfigLevel /\ env.project \in ConfigLevel /\ env.default \in ConfigLevel
  BY DEF Env
<1>2. lv \in Resolved
  BY <1>1, LevelFacts, MergeFacts
<1>3. lv.preference \in Preference \cup {"none"}
  BY <1>2 DEF Resolved
<1> HIDE DEF lv
<1>4. Policy = LET preference == IF lv.preference = "none" THEN "managed" ELSE lv.preference
               IN  [preference |-> preference,
                    downloads |-> lv.downloads /\ preference # "only-system"]
  BY DEF Policy, lv
<1> QED
  BY <1>3, <1>4 DEF Preference

LEMMA OrderFacts ==
  ASSUME env \in Env
  PROVE  /\ SearchOrder \in {<<"managed">>, <<"managed", "system">>, <<"system", "managed">>, <<"system">>}
         /\ L.early => SearchOrder = <<"managed">>
         /\ L.early \/ Policy.downloads => SearchOrder # <<"system">>
<1>1. CASE L.early
  BY <1>1 DEF SearchOrder
<1>2. CASE ~L.early
  BY <1>2, PolicyFacts DEF SearchOrder, Preference
<1> QED
  BY <1>1, <1>2

(***************************************************************************)
(* What putting something in its place looks like.                         *)
(***************************************************************************)
WellMade(place) ==
  /\ Len(place) \in 2..4
  /\ \A i \in 1..Len(place) :
       /\ place[i] \in {"stage", "validate", "clear", "mkdir", "move", "rename", "chmod"}
       /\ place[i] \in {"rename", "chmod"} <=> i = Len(place)

LEMMA PlaceFacts ==
  ASSUME env \in Env, NEW t \in Task, L.by # "manager",
         env.language = "uv" => source[t] \in {"archive", "static", "pypi", "tuna", "aliyun", "tencent", "pip"}
  PROVE  /\ WellMade(Place(t))
         /\ \A i \in 1..Len(Place(t)) :
              /\ Place(t)[i] \in {"mkdir", "move"} => env.language \in InPlace \cup {"uv"}
              /\ Place(t)[i] = "validate" => env.language = "uv"
<1>1. WellMade(<<"clear", "rename">>) /\ WellMade(<<"stage", "clear", "rename">>)
  BY DEF WellMade
<1>2. WellMade(<<"clear", "mkdir", "rename">>) /\ WellMade(<<"clear", "mkdir", "move", "chmod">>)
  BY DEF WellMade
<1>3. WellMade(<<"validate", "clear", "rename">>) /\ WellMade(<<"clear", "move", "chmod">>)
  BY DEF WellMade
<1>4. CASE env.language = "uv"
  <2>1. Place(t) \in {<<"validate", "clear", "rename">>, <<"clear", "move", "chmod">>, <<"clear", "rename">>}
    BY <1>4 DEF Place, UvPlace
  <2> QED
    BY <1>1, <1>3, <1>4, <2>1
<1>5. CASE env.language \in InPlace
  <2>1. Place(t) \in {<<"clear", "rename">>, <<"clear", "mkdir", "rename">>,
                      <<"clear", "mkdir", "move", "chmod">>, <<"stage", "clear", "rename">>}
    BY <1>5, LanguageFacts DEF Place, InPlace
  <2>2. \A i \in 1..Len(Place(t)) : Place(t)[i] # "validate"
    BY <2>1
  <2> QED
    BY <1>1, <1>2, <1>5, <2>1, <2>2
<1>6. CASE env.language \notin InPlace \cup {"uv"}
  <2>1. Place(t) \in {<<"clear", "rename">>, <<"stage", "clear", "rename">>}
    BY <1>6, LanguageFacts DEF Place
  <2> QED
    BY <1>1, <2>1
<1> QED
  BY <1>4, <1>5, <1>6

-----------------------------------------------------------------------------
(***************************************************************************)
(* Types, and what a task knows of what it is installing.                  *)
(***************************************************************************)
UvSource == {"archive", "static", "pypi", "tuna", "aliyun", "tencent", "pip"}

TypeInv == env \in World /\ TypeOK /\ (blind # {} => env.language \in Asking)

Plan(t) ==
  /\ L.early /\ pc[t] \notin {"idle", "done", "failed"} => env.system = {}
  /\ env.language = "uv" => /\ pc[t] \notin {"idle", "done", "failed"} => env.uv # "none"
                            /\ pc[t] \in {"fetch", "place"} => source[t] \in UvSource
  /\ pc[t] \in {"fetch", "place"} => plan[t] \in Wanted(t)
  /\ pc[t] = "place" => /\ L.by # "manager" /\ body[t] # "none"
                        /\ env.language # "uv" => body[t] \in Runs

LEMMA WantedFacts ==
  ASSUME TypeInv
  PROVE  /\ env \in Env /\ Max(Version) \in Version
         /\ \A t \in Task : /\ Wanted(t) \subseteq Version /\ Installed(t) \subseteq Version
                            /\ OnSystem(t) \subseteq Version
                            /\ L.early => Wanted(t) = {Max(Version)}
<1>1. env \in Env
  BY DEF TypeInv, TypeOK
<1>2. Max(Version) \in Version
  BY ToolchainsAssumption, MaxFact
<1>3. \A t \in Task : Wants[t] \subseteq Version
  BY ToolchainsAssumption
<1>4. env.system \subseteq Version
  BY <1>1 DEF Env
<1> QED
  BY <1>1, <1>2, <1>3, <1>4 DEF Wanted, Installed, OnSystem

LEMMA EnvStays == [Next]_vars => env' = env
BY DEF Next, Step, Start, Acquire, Search, Decide, Resolve, Fetch, Delegate, Put, Finish, Stumble,
       Overlook, Kill, vars

(***************************************************************************)
(* A source that fails gives way to another one of uv's, or ends it.       *)
(***************************************************************************)
LEMMA NextSourceFacts ==
  ASSUME TypeInv, NEW t \in Task, Plan(t), pc[t] \in {"fetch", "place"}, NextSource(t)
  PROVE  \/ Fail(t) /\ UNCHANGED <<source, step>>
         \/ /\ env.language = "uv"
            /\ \E s \in UvSource : source' = [source EXCEPT ![t] = s]
            /\ step' = [step EXCEPT ![t] = 0] /\ Goto(t, "fetch") /\ UNCHANGED <<holder, found>>
<1> DEFINE s == IF source[t] = "static" THEN "archive" ELSE source[t]
           i == CHOOSE i \in DOMAIN UvSources : UvSources[i] = s
<1>1. CASE env.language = "uv" /\ i # 6
  <2>1. s \in {"archive", "pypi", "tuna", "aliyun", "tencent", "pip"}
    BY <1>1 DEF Plan, UvSource
  <2>2. /\ DOMAIN UvSources = 1..6 /\ UvSources[1] = "archive" /\ UvSources[2] = "pypi"
        /\ UvSources[3] = "tuna" /\ UvSources[4] = "aliyun" /\ UvSources[5] = "tencent"
        /\ UvSources[6] = "pip"
    BY DEF UvSources
  <2>3. \E k \in DOMAIN UvSources : UvSources[k] = s
    BY <2>1, <2>2
  <2>4. i \in DOMAIN UvSources
    BY <2>3
  <2>5. i \in 1..5
    <3> HIDE DEF i
    <3> QED
      BY <1>1, <2>2, <2>4
  <2>6. UvSources[i + 1] \in UvSource
    <3>1. \A k \in 1..5 : UvSources[k + 1] \in UvSource
      BY <2>2 DEF UvSource
    <3> HIDE DEF i
    <3> QED
      BY <2>5, <3>1
  <2>7. \/ Fail(t) /\ UNCHANGED <<source, step>>
        \/ /\ source' = [source EXCEPT ![t] = UvSources[i + 1]]
           /\ step' = [step EXCEPT ![t] = 0] /\ Goto(t, "fetch") /\ UNCHANGED <<holder, found>>
    BY DEF NextSource
  <2> HIDE DEF i
  <2> QED
    BY <1>1, <2>6, <2>7
<1>2. CASE env.language # "uv" \/ i = 6
  <2>1. Len(UvSources) = 6
    BY DEF UvSources
  <2> HIDE DEF i
  <2> QED
    BY <1>2, <2>1 DEF NextSource, i
<1> QED
  BY <1>1, <1>2

(***************************************************************************)
(* What the ends of a task and a change of source do.                      *)
(***************************************************************************)
Unlocked(t) == holder' = IF holder = t THEN NoTask ELSE holder

LEMMA EndFacts ==
  ASSUME TypeInv, NEW t \in Task
  PROVE  /\ Fail(t) => pc' = [pc EXCEPT ![t] = "failed"] /\ Unlocked(t) /\ found' = found
         /\ pc[t] \in {"fetch", "place"} /\ Plan(t) /\ NextSource(t) =>
              /\ found' = found
              /\ \/ pc' = [pc EXCEPT ![t] = "failed"] /\ Unlocked(t) /\ UNCHANGED <<source, step>>
                 \/ /\ env.language = "uv" /\ pc' = [pc EXCEPT ![t] = "fetch"] /\ holder' = holder
                    /\ \E s \in UvSource : source' = [source EXCEPT ![t] = s]
                    /\ step' = [step EXCEPT ![t] = 0]
BY NextSourceFacts DEF Fail, Unlock, Unlocked, Goto

LEMMA ReturnFacts ==
  ASSUME NEW t \in Task, NEW from, NEW v, Return(t, from, v)
  PROVE  /\ pc' = [pc EXCEPT ![t] = "done"] /\ Unlocked(t)
         /\ found' = [found EXCEPT ![t] = <<from, v>>]
BY DEF Return, Unlock, Unlocked, Goto

(***************************************************************************)
(* A step of one task leaves what the others know alone.                   *)
(***************************************************************************)
Same(t) ==
  /\ pc'[t] = pc[t] /\ tried'[t] = tried[t] /\ plan'[t] = plan[t] /\ source'[t] = source[t]
  /\ body'[t] = body[t] /\ step'[t] = step[t] /\ found'[t] = found[t]

LEMMA OthersWait ==
  ASSUME TypeInv, NEW t \in Task, Plan(t), Step(t) \/ Fault(t), NEW u \in Task, u # t
  PROVE  Same(u)
<1> USE DEF Same, TypeInv, TypeOK
<1>r. ASSUME NEW from, NEW v, Return(t, from, v) PROVE pc'[u] = pc[u] /\ found'[u] = found[u]
  BY <1>r, ReturnFacts
<1>1. CASE Start(t)
  <2>1. pc'[u] = pc[u] /\ found'[u] = found[u]
    BY <1>1, <1>r, EndFacts DEF Start, Goto
  <2> QED
    BY <1>1, <2>1 DEF Start
<1>2. CASE Acquire(t)
  BY <1>2 DEF Acquire, Goto
<1>3. CASE Search(t)
  <2>1. pc'[u] = pc[u] /\ found'[u] = found[u]
    <3>1. CASE UNCHANGED <<pc, holder, found>>
      BY <3>1
    <3> QED
      BY <1>3, <1>r, <3>1 DEF Search, Take
  <2> QED
    BY <1>3, <2>1 DEF Search
<1>4. CASE Decide(t)
  BY <1>4, EndFacts DEF Decide, Goto
<1>5. CASE Resolve(t)
  <2>1. pc'[u] = pc[u] /\ found'[u] = found[u]
    BY <1>5, EndFacts DEF Resolve, Goto
  <2>2. plan'[u] = plan[u] /\ source'[u] = source[u]
    BY <1>5 DEF Resolve
  <2> QED
    BY <1>5, <2>1, <2>2 DEF Resolve
<1>6. CASE Fetch(t)
  <2>1. CASE NextSource(t) /\ UNCHANGED body
    BY <1>6, <2>1, EndFacts DEF Fetch
  <2> QED
    BY <1>6, <2>1 DEF Fetch, Goto
<1>7. CASE Delegate(t)
  <2>1. pc'[u] = pc[u] /\ found'[u] = found[u]
    BY <1>7, <1>r DEF Delegate
  <2> QED
    BY <1>7, <2>1 DEF Delegate
<1>8. CASE Put(t)
  <2>1. CASE NextSource(t)
    BY <1>8, <2>1, EndFacts DEF Put
  <2> QED
    BY <1>8, <2>1 DEF Put, Goto
<1>9. CASE Finish(t)
  <2>1. CASE NextSource(t)
    BY <1>9, <2>1, EndFacts DEF Finish
  <2>2. CASE Return(t, "managed", plan[t]) /\ UNCHANGED <<source, step>>
    BY <1>9, <1>r, <2>2 DEF Finish
  <2> QED
    BY <1>9, <2>1, <2>2 DEF Finish
<1>10. CASE Stumble(t)
  <2>1. CASE pc[t] \notin {"waiting", "search", "resolve"} /\ NextSource(t)
    BY <1>10, <2>1, EndFacts DEF Stumble
  <2> QED
    BY <1>10, <2>1, EndFacts DEF Stumble
<1>11. CASE Overlook(t)
  <2>1. pc'[u] = pc[u] /\ found'[u] = found[u]
    <3>1. CASE UNCHANGED <<pc, holder, found>>
      BY <3>1
    <3> QED
      BY <1>11, <1>r, <3>1 DEF Overlook, Take
  <2> QED
    BY <1>11, <2>1 DEF Overlook
<1> QED
  BY <1>1, <1>2, <1>3, <1>4, <1>5, <1>6, <1>7, <1>8, <1>9, <1>10, <1>11 DEF Step, Fault

LEMMA TypeStep == TypeInv /\ (\A t \in Task : Plan(t)) /\ [Next]_vars => TypeInv'
<1> SUFFICES ASSUME TypeInv, \A t \in Task : Plan(t), [Next]_vars PROVE TypeInv'
  OBVIOUS
<1>a. env \in Env /\ Max(Version) \in Version
      /\ \A t \in Task : Wanted(t) \subseteq Version /\ Installed(t) \subseteq Version
                         /\ OnSystem(t) \subseteq Version
  BY WantedFacts
<1> USE DEF TypeInv, TypeOK
<1>g. \A t \in Task : /\ pc[t] \in Places /\ plan[t] \in Version \cup {0}
                      /\ source[t] \in Sources /\ step[t] \in 0..4 /\ tried[t] \in 0..2
                      /\ body[t] \in {"none", "damaged", "altered", "good"}
  BY DEF Places, Sources
<1>u. ASSUME NEW t \in Task, Unlocked(t) PROVE holder' \in Task \cup {NoTask}
  BY <1>u DEF Unlocked
<1>r. ASSUME NEW t \in Task, NEW from \in {"system", "managed"}, NEW v \in Version, Return(t, from, v)
      PROVE  /\ holder' \in Task \cup {NoTask}
             /\ pc' \in [Task -> Places]
             /\ found' \in [Task -> {<<>>} \cup ({"system", "managed"} \X Version)]
  BY <1>r, <1>u, ReturnFacts DEF Places
<1>f. ASSUME NEW t \in Task, Fail(t)
      PROVE  holder' \in Task \cup {NoTask} /\ pc' \in [Task -> Places] /\ found' = found
  BY <1>f, <1>u, EndFacts DEF Places
<1>n. ASSUME NEW t \in Task, pc[t] \in {"fetch", "place"}, NextSource(t)
      PROVE  /\ holder' \in Task \cup {NoTask} /\ pc' \in [Task -> Places] /\ found' = found
             /\ source' \in [Task -> Sources] /\ step' \in [Task -> 0..4]
  BY <1>n, <1>u, EndFacts DEF Places, Sources, UvSource
<1>1. ASSUME NEW t \in Task, Start(t) PROVE TypeInv'
  <2>1. UNCHANGED <<env, tool, plan, source, body, step, blind, faults>> /\ tried' \in [Task -> 0..2]
    BY <1>1 DEF Start
  <2>2. /\ holder' \in Task \cup {NoTask} /\ pc' \in [Task -> Places]
        /\ found' \in [Task -> {<<>>} \cup ({"system", "managed"} \X Version)]
    <3>1. CASE pc' = [pc EXCEPT ![t] = IF L.lock THEN "waiting" ELSE "search"] /\ UNCHANGED <<holder, found>>
      BY <3>1 DEF Places
    <3>2. CASE pc' = [pc EXCEPT ![t] = "waiting"] /\ UNCHANGED <<holder, found>>
      BY <3>2 DEF Places
    <3> QED
      BY <1>1, <1>a, <1>f, <1>r, <3>1, <3>2 DEF Start, Goto
  <2> QED
    BY <2>1, <2>2 DEF Places
<1>2. ASSUME NEW t \in Task, Acquire(t) PROVE TypeInv'
  BY <1>2 DEF Acquire, Goto
<1>3. ASSUME NEW t \in Task, Search(t) PROVE TypeInv'
  <2>1. tried[t] + 1 \in 1..Len(SearchOrder) /\ Len(SearchOrder) \in {1, 2}
    BY <1>3, <1>g, <1>a, OrderFacts DEF Search
  <2>2. UNCHANGED <<env, tool, plan, source, body, step, blind, faults>> /\ tried' \in [Task -> 0..2]
    BY <1>3, <2>1 DEF Search
  <2>3. SearchOrder[tried[t] + 1] \in {"system", "managed"}
    BY <1>a, <2>1, OrderFacts
  <2>4. CASE UNCHANGED <<pc, holder, found>>
    BY <2>2, <2>4
  <2>5. CASE \E v \in Version : Return(t, SearchOrder[tried[t] + 1], v)
    BY <2>2, <2>3, <2>5, <1>r DEF Places
  <2> QED
    BY <1>3, <1>a, <2>4, <2>5 DEF Search, Take
<1>4. ASSUME NEW t \in Task, Decide(t) PROVE TypeInv'
  <2>1. UNCHANGED <<env, tool, tried, plan, source, body, step, blind, faults>>
    BY <1>4 DEF Decide
  <2>2. CASE Fail(t)
    BY <1>f, <2>1, <2>2 DEF Places
  <2> QED
    BY <1>4, <2>1, <2>2 DEF Decide, Goto
<1>5. ASSUME NEW t \in Task, Resolve(t) PROVE TypeInv'
  <2>1. UNCHANGED <<env, tool, tried, body, blind, faults>> /\ step' \in [Task -> 0..4]
    BY <1>5 DEF Resolve
  <2>2. CASE Fail(t) /\ UNCHANGED <<plan, source>>
    BY <1>f, <2>1, <2>2 DEF Places
  <2>3. CASE /\ \E v \in Version : plan' = [plan EXCEPT ![t] = v]
             /\ source' = [source EXCEPT ![t] = IF env.language # "uv" THEN "release"
                           ELSE IF env.uv = "auto" THEN UvSources[1] ELSE env.uv]
             /\ Goto(t, "fetch") /\ UNCHANGED <<holder, found>>
    <3>1. env.language = "uv" => env.uv # "none"
      BY <1>5 DEF Resolve, Plan
    <3>2. env.uv \in {"auto", "none", "archive", "pypi", "tuna", "aliyun", "tencent", "pip"} /\ UvSources[1] = "archive"
      BY <1>a DEF Env, UvSources
    <3>3. source' \in [Task -> Sources]
      BY <2>3, <3>1, <3>2 DEF Sources
    <3>4. pc' = [pc EXCEPT ![t] = "fetch"] /\ plan' \in [Task -> Version \cup {0}]
      BY <2>3 DEF Goto
    <3> QED
      BY <2>1, <2>3, <3>3, <3>4 DEF Sources
  <2> QED
    BY <1>5, <1>a, <2>2, <2>3 DEF Resolve
<1>6. ASSUME NEW t \in Task, Fetch(t) PROVE TypeInv'
  <2>1. UNCHANGED <<env, tool, tried, plan, blind>> /\ faults' \in 0..MaxFaults /\ pc[t] = "fetch"
    BY <1>6, ToolchainsAssumption DEF Fetch
  <2>2. body' \in [Task -> {"none", "damaged", "altered", "good"}]
    BY <1>6 DEF Fetch, Delivered
  <2>3. CASE NextSource(t)
    BY <1>n, <2>1, <2>2, <2>3 DEF Sources, Places
  <2>4. CASE step' = [step EXCEPT ![t] = 0] /\ Goto(t, "place") /\ UNCHANGED <<holder, found, source>>
    BY <2>1, <2>2, <2>4 DEF Goto
  <2> QED
    BY <1>6, <2>3, <2>4 DEF Fetch
<1>7. ASSUME NEW t \in Task, Delegate(t) PROVE TypeInv'
  <2>1. PICK v : tool' = [tool EXCEPT ![v] = IF @ \in Runs THEN @ ELSE "good"]
                 /\ Return(t, "managed", v)
                 /\ v = IF env.language = "python" /\ Installed(t) # {}
                        THEN Max(Installed(t)) ELSE plan[t]
    BY <1>7 DEF Delegate
  <2>2. v \in Version
    <3>1. plan[t] \in Version
      BY <1>7, <1>a DEF Delegate, Plan
    <3>2. Installed(t) # {} => Max(Installed(t)) \in Version
      BY <1>a, MaxFact
    <3> QED
      BY <2>1, <3>1, <3>2
  <2>3. UNCHANGED <<env, tried, plan, source, body, step, blind, faults>>
    BY <1>7 DEF Delegate
  <2>4. tool' \in [Version -> State]
    BY <2>1, <2>2 DEF State
  <2> QED
    BY <1>r, <2>1, <2>2, <2>3, <2>4 DEF Places
<1>8. ASSUME NEW t \in Task, Put(t) PROVE TypeInv'
  <2>1. UNCHANGED <<env, tried, plan, body, blind, faults>> /\ pc[t] = "place"
    BY <1>8 DEF Put
  <2>2. CASE NextSource(t) /\ UNCHANGED tool
    BY <1>n, <2>1, <2>2 DEF Sources, Places
  <2>3. CASE /\ source' = [source EXCEPT ![t] = "static"] /\ Goto(t, "fetch")
             /\ UNCHANGED <<tool, step, holder, found>>
    BY <2>1, <2>3 DEF Goto
  <2>4. CASE /\ tool' = [tool EXCEPT ![plan[t]] = After(Place(t)[step[t] + 1], @, body[t])]
             /\ step' = [step EXCEPT ![t] = @ + 1]
             /\ UNCHANGED <<source, pc, holder, found>>
    <3>1. /\ L.by # "manager" /\ body[t] \in State /\ plan[t] \in Version
          /\ env.language = "uv" => source[t] \in UvSource
      BY <2>1, <1>a, <1>g DEF Plan, State
    <3>2. WellMade(Place(t))
      BY <1>a, <3>1, PlaceFacts DEF UvSource
    <3>3. step[t] + 1 \in 1..Len(Place(t)) /\ Len(Place(t)) \in 2..4
      BY <1>8, <1>g, <3>2 DEF Put, WellMade
    <3>4. Place(t)[step[t] + 1] \in {"stage", "validate", "clear", "mkdir", "move", "rename", "chmod"}
      BY <3>2, <3>3 DEF WellMade
    <3>5. After(Place(t)[step[t] + 1], tool[plan[t]], body[t]) \in State
      BY <3>1, <3>4 DEF After, State
    <3>6. tool' \in [Version -> State] /\ step' \in [Task -> 0..4]
      BY <2>4, <3>1, <3>3, <3>5
    <3> QED
      BY <2>1, <2>4, <3>6
  <2> QED
    BY <1>8, <2>2, <2>3, <2>4 DEF Put
<1>9. ASSUME NEW t \in Task, Finish(t) PROVE TypeInv'
  <2>1. UNCHANGED <<env, tool, tried, plan, body, blind, faults>> /\ pc[t] = "place"
    BY <1>9 DEF Finish
  <2>2. CASE NextSource(t)
    BY <1>n, <2>1, <2>2 DEF Sources, Places
  <2>3. CASE Return(t, "managed", plan[t]) /\ UNCHANGED <<source, step>>
    <3>1. plan[t] \in Version
      BY <1>a, <2>1 DEF Plan
    <3> QED
      BY <1>r, <2>1, <2>3, <3>1 DEF Places
  <2> QED
    BY <1>9, <2>2, <2>3 DEF Finish
<1>10. ASSUME NEW t \in Task, Stumble(t) PROVE TypeInv'
  <2>1. UNCHANGED <<env, tool, tried, plan, body, blind>> /\ faults' \in 0..MaxFaults
        /\ pc[t] \in {"waiting", "search", "resolve", "fetch", "place"}
    BY <1>10, ToolchainsAssumption DEF Stumble
  <2>2. CASE pc[t] \notin {"waiting", "search", "resolve"} /\ NextSource(t)
    BY <1>n, <2>1, <2>2 DEF Sources, Places
  <2>3. CASE Fail(t) /\ UNCHANGED <<source, step>>
    BY <1>f, <2>1, <2>3 DEF Places
  <2> QED
    BY <1>10, <2>2, <2>3 DEF Stumble
<1>13. ASSUME NEW t \in Task, Overlook(t) PROVE TypeInv'
  <2>1. tried[t] + 1 \in 1..Len(SearchOrder) /\ Len(SearchOrder) \in {1, 2}
    BY <1>13, <1>g, <1>a, OrderFacts DEF Overlook
  <2>2. /\ UNCHANGED <<env, tool, plan, source, body, step>> /\ tried' \in [Task -> 0..2]
        /\ faults' \in 0..MaxFaults /\ blind' \in SUBSET Task /\ env.language \in Asking
    BY <1>13, <2>1, ToolchainsAssumption DEF Overlook
  <2>3. CASE UNCHANGED <<pc, holder, found>>
    BY <2>2, <2>3
  <2>4. CASE \E v \in Version : Return(t, "managed", v)
    BY <2>2, <2>4, <1>r DEF Places
  <2> QED
    BY <1>13, <1>a, <2>3, <2>4 DEF Overlook, Take
<1>11. CASE Kill
  BY <1>11, ToolchainsAssumption DEF Kill
<1>12. CASE UNCHANGED vars
  BY <1>12 DEF vars
<1> QED
  BY <1>1, <1>2, <1>3, <1>4, <1>5, <1>6, <1>7, <1>8, <1>9, <1>10, <1>11, <1>12, <1>13 DEF Next, Step

\* Everything that is read from env alone stays.
LEMMA ReadStays ==
  ASSUME env' = env
  PROVE  /\ L' = L /\ Policy' = Policy /\ SearchOrder' = SearchOrder
         /\ \A t \in Task : Wanted(t)' = Wanted(t) /\ OnSystem(t)' = OnSystem(t)
<1>1. L' = L
  BY DEF L, Language, Node, Golang, Ruby, Bun, Deno, Mise, Dotnet, Rust, Rustup, Uv, Python,
         Release, Present, Runs, State
<1>2. Policy' = Policy
  BY DEF Policy
<1> QED
  BY <1>1, <1>2 DEF SearchOrder, Wanted, OnSystem

LEMMA PlanStep ==
  ASSUME TypeInv, \A t \in Task : Plan(t), [Next]_vars, NEW u \in Task
  PROVE  Plan(u)'
<1>0. env' = env /\ L' = L /\ Wanted(u)' = Wanted(u)
  BY EnvStays, ReadStays
<1>a. env \in Env /\ Max(Version) \in Version
  BY WantedFacts
<1>p. Plan(u) /\ pc[u] \in Places
  BY DEF TypeInv, TypeOK, Places
<1>s. ASSUME Same(u) PROVE Plan(u)'
  BY <1>0, <1>p, <1>s DEF Plan, Same
<1>e. ASSUME pc'[u] \in {"failed", "done", "idle"} PROVE Plan(u)'
  BY <1>e, <1>0 DEF Plan
<1>n. ASSUME NextSource(u), pc[u] \in {"fetch", "place"}, plan' = plan PROVE Plan(u)'
  <2>1. CASE pc' = [pc EXCEPT ![u] = "failed"]
    BY <1>e, <2>1 DEF TypeInv, TypeOK
  <2>2. CASE /\ env.language = "uv" /\ pc' = [pc EXCEPT ![u] = "fetch"]
             /\ \E s \in UvSource : source' = [source EXCEPT ![u] = s]
    <3>1. pc'[u] = "fetch" /\ source'[u] \in UvSource
      BY <2>2 DEF TypeInv, TypeOK
    <3> QED
      BY <1>0, <1>p, <1>n, <2>2, <3>1 DEF Plan
  <2> QED
    BY <1>n, <1>p, <2>1, <2>2, EndFacts
<1>1. ASSUME NEW t \in Task, Step(t) \/ Fault(t), t # u PROVE Plan(u)'
  BY <1>1, <1>s, OthersWait
<1> USE DEF TypeInv, TypeOK
<1>f. ASSUME Fail(u) PROVE Plan(u)'
  BY <1>e, <1>f, EndFacts
<1>r. ASSUME NEW from, NEW v, Return(u, from, v) PROVE Plan(u)'
  BY <1>e, <1>r, ReturnFacts
<1>2. CASE Start(u)
  <2>1. CASE L.early /\ env.system = {} /\ Installed(u) = {} /\ Goto(u, "waiting") /\ ~(env.language = "uv" /\ env.uv = "none")
    BY <1>0, <2>1 DEF Plan, Goto
  <2>2. CASE ~L.early /\ Goto(u, IF L.lock THEN "waiting" ELSE "search")
    <3>1. env.language # "uv"
      BY <1>a, <2>2, LanguageFacts
    <3> QED
      BY <1>0, <2>2, <3>1 DEF Plan, Goto
  <2> QED
    BY <1>2, <1>f, <1>r, <2>1, <2>2 DEF Start
<1>3. CASE Acquire(u)
  BY <1>0, <1>p, <1>3 DEF Acquire, Goto, Plan
<1>4. CASE Search(u)
  <2>1. CASE UNCHANGED <<pc, holder, found>>
    BY <1>0, <1>p, <1>4, <2>1 DEF Search, Plan
  <2> QED
    BY <1>4, <1>r, <2>1 DEF Search, Take
<1>5. CASE Decide(u)
  <2>1. CASE Goto(u, "resolve")
    BY <1>0, <1>p, <1>5, <2>1 DEF Decide, Goto, Plan
  <2> QED
    BY <1>5, <1>f, <2>1 DEF Decide
<1>6. CASE Resolve(u)
  <2>1. CASE /\ \E v \in Wanted(u) : plan' = [plan EXCEPT ![u] = v]
             /\ source' = [source EXCEPT ![u] = IF env.language # "uv" THEN "release"
                           ELSE IF env.uv = "auto" THEN UvSources[1] ELSE env.uv]
             /\ Goto(u, "fetch")
    <3>1. env.language = "uv" => env.uv # "none"
      BY <1>6, <1>p DEF Resolve, Plan
    <3>2. env.uv \in {"auto", "none", "archive", "pypi", "tuna", "aliyun", "tencent", "pip"} /\ UvSources[1] = "archive"
      BY <1>a DEF Env, UvSources
    <3>3. pc'[u] = "fetch" /\ plan'[u] \in Wanted(u) /\ (env.language = "uv" => source'[u] \in UvSource)
      BY <2>1, <3>1, <3>2 DEF Goto, UvSource
    <3>4. L.early => env.system = {}
      BY <1>6, <1>p DEF Resolve, Plan
    <3> QED
      BY <1>0, <3>1, <3>3, <3>4 DEF Plan
  <2> QED
    BY <1>6, <1>f, <2>1 DEF Resolve
<1>7. CASE Fetch(u)
  <2>1. CASE NextSource(u)
    BY <1>7, <1>n, <2>1 DEF Fetch
  <2>2. CASE \E b \in {"good", "altered"} : /\ body' = [body EXCEPT ![u] = Delivered(u, b)]
                                            /\ Goto(u, "place") /\ UNCHANGED <<holder, found, source>>
    <3>1. pc'[u] = "place" /\ body'[u] # "none" /\ (env.language # "uv" => body'[u] \in Runs)
      BY <2>2 DEF Goto, Delivered, Runs
    <3>2. L.by # "manager" /\ plan' = plan /\ source' = source /\ pc[u] = "fetch"
      BY <1>7, <2>2 DEF Fetch
    <3> QED
      BY <1>0, <1>p, <3>1, <3>2 DEF Plan
  <2> QED
    BY <1>7, <2>1, <2>2 DEF Fetch
<1>8. CASE Delegate(u)
  BY <1>8, <1>r DEF Delegate
<1>9. CASE Put(u)
  <2>1. CASE NextSource(u)
    BY <1>9, <1>n, <2>1 DEF Put
  <2>2. CASE source' = [source EXCEPT ![u] = "static"] /\ Goto(u, "fetch")
    BY <1>0, <1>p, <1>9, <2>2 DEF Put, Plan, Goto, UvSource
  <2>3. CASE UNCHANGED <<source, pc>>
    BY <1>0, <1>p, <1>9, <2>3 DEF Put, Plan
  <2> QED
    BY <1>9, <2>1, <2>2, <2>3 DEF Put
<1>10. CASE Finish(u)
  BY <1>10, <1>n, <1>r DEF Finish
<1>11. CASE Stumble(u)
  BY <1>11, <1>n, <1>f DEF Stumble
<1>12. CASE Kill
  BY <1>12, <1>e DEF Kill
<1>14. CASE Overlook(u)
  <2>1. CASE UNCHANGED <<pc, holder, found>>
    BY <1>0, <1>p, <1>14, <2>1 DEF Overlook, Plan
  <2> QED
    BY <1>14, <1>r, <2>1 DEF Overlook, Take
<1>13. CASE UNCHANGED vars
  BY <1>13, <1>s DEF vars, Same
<1> QED
  BY <1>1, <1>2, <1>3, <1>4, <1>5, <1>6, <1>7, <1>8, <1>9, <1>10, <1>11, <1>12, <1>13, <1>14 DEF Next, Step, Fault

-----------------------------------------------------------------------------
(***************************************************************************)
(* What holds while a task has the lock: nothing that it may use was there *)
(* when it looked, and what it puts in place replaces nothing that runs.   *)
(***************************************************************************)
LockedPlaces == {"search", "resolve", "fetch", "place"}

Lock(t) == L.lock /\ pc[t] \in LockedPlaces => holder = t

NotAt(t, from) ==
  IF from = "managed" THEN Installed(t) = {} \/ t \in blind ELSE OnSystem(t) = {}

Looked(t) ==
  /\ pc[t] = "waiting" => tried[t] = 0
  /\ pc[t] = "search" => tried[t] <= Len(SearchOrder)
  /\ pc[t] \in {"resolve", "fetch", "place"} => L.early \/ Policy.downloads
  /\ L.lock /\ pc[t] = "search" => \A i \in 1..tried[t] : NotAt(t, SearchOrder[i])
  /\ L.lock /\ pc[t] \in {"resolve", "fetch"} => \A i \in 1..Len(SearchOrder) : NotAt(t, SearchOrder[i])

Placing(t) ==
  pc[t] = "place" => /\ step[t] <= Len(Place(t))
                     /\ step[t] < Len(Place(t)) => tool[plan[t]] \notin Runs \/ t \in blind
                     /\ step[t] = Len(Place(t)) => tool[plan[t]] = body[t]

InstallInv ==
  /\ TypeInv
  /\ \A t \in Task : Plan(t) /\ Lock(t) /\ Looked(t) /\ Placing(t)

LEMMA NothingThere ==
  ASSUME InstallInv, NEW t \in Task, pc[t] \in {"resolve", "fetch"}, L.lock, t \notin blind
  PROVE  /\ Installed(t) = {}
         /\ \A v \in Wanted(t) : tool[v] \notin Runs
<1>1. env \in Env /\ L.accepts \in {Present, Runs}
  BY WantedFacts, LanguageFacts DEF InstallInv
<1>2. \E i \in 1..Len(SearchOrder) : SearchOrder[i] = "managed"
  BY <1>1, OrderFacts DEF InstallInv, Looked
<1>3. Installed(t) = {}
  BY <1>2 DEF InstallInv, Looked, NotAt
<1> QED
  BY <1>1, <1>3 DEF Installed, Present, Runs, State

LEMMA HolderAlone ==
  ASSUME InstallInv, NEW t \in Task, Step(t) \/ Fault(t), NEW u \in Task, u # t,
         L.lock, pc[u] \in LockedPlaces
  PROVE  tool' = tool /\ holder' = holder /\ (u \in blind' <=> u \in blind)
<1>1. holder = u /\ pc[t] \notin LockedPlaces
  BY DEF InstallInv, Lock
<1>2. CASE Start(t)
  <2>1. tool' = tool /\ blind' = blind
    BY <1>2 DEF Start
  <2>2. \/ Fail(t) \/ (\E from, v : Return(t, from, v)) \/ UNCHANGED <<holder, found>>
    BY <1>2 DEF Start
  <2> QED
    BY <1>1, <2>1, <2>2, EndFacts, ReturnFacts DEF InstallInv, Unlocked
<1>3. ~Acquire(t)
  BY <1>1, ToolchainsAssumption DEF Acquire
<1>4. CASE Stumble(t)
  <2>1. pc[t] = "waiting" /\ Fail(t) /\ tool' = tool /\ blind' = blind
    BY <1>1, <1>4 DEF Stumble, LockedPlaces
  <2> QED
    BY <1>1, <2>1, EndFacts DEF InstallInv, Unlocked
<1> QED
  BY <1>1, <1>2, <1>3, <1>4 DEF LockedPlaces, Step, Fault, Search, Decide, Resolve, Fetch, Delegate, Put,
     Finish, Overlook

\* What a step of a task changes in the store.
LEMMA PutFacts ==
  ASSUME InstallInv, NEW t \in Task, Put(t)
  PROVE  \/ tool' = tool
         \/ /\ tool' = [tool EXCEPT ![plan[t]] = After(Place(t)[step[t] + 1], @, body[t])]
            /\ step' = [step EXCEPT ![t] = @ + 1] /\ UNCHANGED <<source, pc, holder, found, plan, body>>
            /\ plan[t] \in Version /\ (tool[plan[t]] \notin Runs \/ t \in blind) /\ step[t] + 1 \in 1..Len(Place(t))
            /\ WellMade(Place(t))
            /\ Place(t)[step[t] + 1] = "validate" => env.language = "uv" /\ body[t] \in Runs
<1>1. pc[t] = "place" /\ step[t] < Len(Place(t)) /\ step[t] \in Nat
  BY DEF Put, InstallInv, TypeInv, TypeOK
<1>2. env \in Env /\ plan[t] \in Version
  BY <1>1, WantedFacts DEF InstallInv, Plan
<1>3. /\ WellMade(Place(t))
      /\ \A i \in 1..Len(Place(t)) : Place(t)[i] = "validate" => env.language = "uv"
  BY <1>1, <1>2, PlaceFacts DEF InstallInv, Plan, UvSource
<1>4. step[t] + 1 \in 1..Len(Place(t))
  BY <1>1, <1>3 DEF WellMade
<1>5. tool[plan[t]] \notin Runs \/ t \in blind
  BY <1>1 DEF InstallInv, Placing
<1> QED
  BY <1>2, <1>3, <1>4, <1>5 DEF Put

\* An installed toolchain is not touched by any step.
LEMMA RunsStays ==
  ASSUME InstallInv, [Next]_vars, NEW v \in Version, tool[v] \in Runs
  PROVE  tool'[v] = tool[v] \/ \E t \in blind : pc[t] = "place" /\ plan[t] = v
<1>1. ASSUME NEW t \in Task, Put(t)
      PROVE  tool'[v] = tool[v] \/ (t \in blind /\ pc[t] = "place" /\ plan[t] = v)
  <2>1. pc[t] = "place"
    BY <1>1 DEF Put
  <2> QED
    BY <1>1, <2>1, PutFacts DEF InstallInv, TypeInv, TypeOK
<1>2. ASSUME NEW t \in Task, Delegate(t) PROVE tool'[v] = tool[v]
  BY <1>2 DEF Delegate, InstallInv, TypeInv, TypeOK
<1> QED
  BY <1>1, <1>2 DEF Next, Step, Start, Acquire, Search, Decide, Resolve, Fetch, Finish, Stumble, Overlook, Kill, vars

LEMMA LockStep ==
  ASSUME InstallInv, [Next]_vars, NEW u \in Task
  PROVE  Lock(u)'
<1>0. L' = L
  BY EnvStays, ReadStays
<1> USE DEF InstallInv, TypeInv, TypeOK
<1>p. Lock(u) /\ Plan(u) /\ pc[u] \in Places
  BY DEF Places
<1>e. ASSUME pc'[u] \notin LockedPlaces PROVE Lock(u)'
  BY <1>e DEF Lock
<1>h. ASSUME pc[u] \in LockedPlaces, holder' = holder PROVE Lock(u)'
  BY <1>0, <1>h, <1>p DEF Lock
<1>f. ASSUME Fail(u) PROVE Lock(u)'
  BY <1>e, <1>f, EndFacts DEF LockedPlaces
<1>r. ASSUME NEW from, NEW v, Return(u, from, v) PROVE Lock(u)'
  BY <1>e, <1>r, ReturnFacts DEF LockedPlaces
<1>n. ASSUME NextSource(u), pc[u] \in {"fetch", "place"} PROVE Lock(u)'
  BY <1>e, <1>h, <1>n, <1>p, EndFacts DEF LockedPlaces
<1>1. ASSUME NEW t \in Task, Step(t) \/ Fault(t), t # u PROVE Lock(u)'
  <2>1. Same(u)
    BY <1>1, OthersWait
  <2> QED
    BY <1>0, <1>1, <1>e, <1>h, <2>1, HolderAlone DEF Same, Lock
<1>2. CASE Start(u)
  <2>1. CASE Goto(u, "waiting")
    BY <1>e, <2>1 DEF Goto, LockedPlaces
  <2>2. CASE Goto(u, IF L.lock THEN "waiting" ELSE "search")
    BY <1>0, <2>2 DEF Goto, LockedPlaces, Lock
  <2> QED
    BY <1>2, <1>f, <1>r, <2>1, <2>2 DEF Start
<1>3. CASE Acquire(u)
  BY <1>3 DEF Acquire, Lock
<1>4. CASE Search(u)
  <2>1. CASE UNCHANGED <<pc, holder, found>>
    BY <1>4, <1>h, <2>1 DEF Search, LockedPlaces
  <2> QED
    BY <1>4, <1>r, <2>1 DEF Search, Take
<1>5. CASE Decide(u)
  BY <1>5, <1>f, <1>h DEF Decide, LockedPlaces
<1>6. CASE Resolve(u)
  BY <1>6, <1>f, <1>h DEF Resolve, LockedPlaces
<1>7. CASE Fetch(u)
  BY <1>7, <1>n, <1>h DEF Fetch, LockedPlaces
<1>8. CASE Delegate(u)
  BY <1>8, <1>r DEF Delegate
<1>9. CASE Put(u)
  BY <1>9, <1>n, <1>h DEF Put, LockedPlaces
<1>10. CASE Finish(u)
  BY <1>10, <1>n, <1>r DEF Finish
<1>11. CASE Stumble(u)
  BY <1>11, <1>n, <1>f DEF Stumble
<1>12. CASE Kill
  BY <1>12, <1>e DEF Kill, LockedPlaces
<1>14. CASE Overlook(u)
  <2>1. CASE UNCHANGED <<pc, holder, found>>
    BY <1>14, <1>h, <2>1 DEF Overlook, LockedPlaces
  <2> QED
    BY <1>14, <1>r, <2>1 DEF Overlook, Take
<1>13. CASE UNCHANGED vars
  BY <1>13, <1>p, <1>0 DEF vars, Lock
<1> QED
  BY <1>1, <1>2, <1>3, <1>4, <1>5, <1>6, <1>7, <1>8, <1>9, <1>10, <1>11, <1>12, <1>13, <1>14 DEF Next, Step, Fault

\* uv goes back to fetching only while its own place has nothing that runs.
LEMMA StillMissing ==
  ASSUME InstallInv, NEW t \in Task, env.language = "uv", env' = env, tool' = tool, blind' = blind,
         pc[t] \in {"fetch", "place"}, pc[t] = "place" => tool[plan[t]] \notin Runs \/ t \in blind
  PROVE  \A i \in 1..Len(SearchOrder) : NotAt(t, SearchOrder[i])'
<1>1. /\ env \in Env /\ L.early /\ L.lock /\ L.accepts = Runs /\ SearchOrder = <<"managed">>
      /\ Wanted(t) = {Max(Version)} /\ plan[t] \in Wanted(t)
  <2>1. env \in Env
    BY WantedFacts DEF InstallInv
  <2>2. L = Uv
    BY DEF L, Language
  <2>3. L.early /\ L.lock /\ L.accepts = Runs
    BY <2>2 DEF Uv, Release
  <2> QED
    BY <2>1, <2>3, OrderFacts, WantedFacts DEF InstallInv, Plan
<1>2. Installed(t) = {} \/ t \in blind
  <2>1. CASE pc[t] = "fetch"
    BY <1>1, <2>1, NothingThere
  <2>2. CASE pc[t] = "place"
    BY <1>1, <2>2 DEF Installed
  <2> QED
    BY <2>1, <2>2
<1>3. (Installed(t)' = {} \/ t \in blind') /\ SearchOrder' = SearchOrder
  BY <1>2, ReadStays DEF Installed
<1>4. \A i \in 1..Len(SearchOrder) : SearchOrder[i] = "managed"
  BY <1>1
<1>5. \A from : from = "managed" => NotAt(t, from)'
  BY <1>3 DEF NotAt
<1> QED
  BY <1>3, <1>4, <1>5

LEMMA LookedStep ==
  ASSUME InstallInv, [Next]_vars, NEW u \in Task
  PROVE  Looked(u)'
<1>0. env' = env /\ L' = L /\ SearchOrder' = SearchOrder /\ Policy' = Policy
      /\ Wanted(u)' = Wanted(u) /\ OnSystem(u)' = OnSystem(u)
  BY EnvStays, ReadStays
<1> USE DEF InstallInv, TypeInv, TypeOK
<1>p. Looked(u) /\ Placing(u) /\ Plan(u) /\ pc[u] \in Places /\ tried[u] \in Nat /\ Len(SearchOrder) \in Nat
  <2>1. Len(SearchOrder) \in Nat
    BY WantedFacts, OrderFacts
  <2> QED
    BY <2>1 DEF Places
<1>t. ASSUME tool' = tool, u \in blind' <=> u \in blind PROVE \A from : NotAt(u, from)' <=> NotAt(u, from)
  <2>1. Installed(u)' = Installed(u)
    BY <1>0, <1>t DEF Installed
  <2> QED
    BY <1>0, <1>t, <2>1 DEF NotAt
<1>e. ASSUME pc'[u] \in {"failed", "done", "idle"} PROVE Looked(u)'
  BY <1>e DEF Looked
<1>k. ASSUME tool' = tool, blind' = blind, pc[u] \in {"resolve", "fetch"}, pc'[u] \in {"resolve", "fetch", "place"} PROVE Looked(u)'
  BY <1>0, <1>k, <1>p, <1>t DEF Looked
<1>s. ASSUME Same(u), (tool' = tool /\ (u \in blind' <=> u \in blind)) \/ ~L.lock \/ pc[u] \notin LockedPlaces PROVE Looked(u)'
  <2>1. CASE tool' = tool /\ (u \in blind' <=> u \in blind)
    BY <1>0, <1>p, <1>s, <1>t, <2>1 DEF Looked, Same
  <2> QED
    BY <1>0, <1>p, <1>s, <2>1 DEF Looked, Same, LockedPlaces
<1>f. ASSUME Fail(u) PROVE Looked(u)'
  BY <1>e, <1>f, EndFacts
<1>r. ASSUME NEW from, NEW v, Return(u, from, v) PROVE Looked(u)'
  BY <1>e, <1>r, ReturnFacts
<1>n. ASSUME NextSource(u), pc[u] \in {"fetch", "place"}, tool' = tool, blind' = blind,
             pc[u] = "place" => tool[plan[u]] \notin Runs \/ u \in blind \/ env.language # "uv"
      PROVE  Looked(u)'
  <2>1. CASE pc' = [pc EXCEPT ![u] = "failed"]
    BY <1>e, <2>1
  <2>2. CASE env.language = "uv" /\ pc' = [pc EXCEPT ![u] = "fetch"]
    BY <1>0, <1>n, <1>p, <2>2, StillMissing DEF Looked
  <2> QED
    BY <1>n, <1>p, <2>1, <2>2, EndFacts
<1>1. ASSUME NEW t \in Task, Step(t) \/ Fault(t), t # u PROVE Looked(u)'
  BY <1>1, <1>s, OthersWait, HolderAlone
<1>2. CASE Start(u)
  <2>0. tried'[u] = 0
    BY <1>2 DEF Start
  <2>1. CASE pc'[u] \in {"waiting", "search"}
    BY <1>p, <1>0, <2>0, <2>1 DEF Looked
  <2> QED
    BY <1>2, <1>f, <1>r, <2>1 DEF Start, Goto
<1>3. CASE Acquire(u)
  BY <1>0, <1>p, <1>3 DEF Acquire, Goto, Looked
<1>4. CASE Search(u)
  <2>0. /\ tool' = tool /\ blind' = blind /\ tried'[u] = tried[u] + 1 /\ tried[u] + 1 \in 1..Len(SearchOrder) /\ pc[u] = "search"
    BY <1>4, <1>p DEF Search
  <2>1. CASE UNCHANGED pc /\ NotAt(u, SearchOrder[tried[u] + 1])
    <3>1. ASSUME L.lock, NEW i \in 1..(tried[u] + 1) PROVE NotAt(u, SearchOrder[i])
      <4>1. i \in 1..tried[u] \/ i = tried[u] + 1
        BY <1>p, <3>1
      <4> QED
        BY <1>p, <2>0, <2>1, <3>1, <4>1 DEF Looked
    <3>2. pc'[u] = "search"
      BY <2>0, <2>1
    <3> QED
      BY <1>0, <1>t, <2>0, <3>1, <3>2 DEF Looked
  <2> QED
    BY <1>4, <1>r, <2>1 DEF Search, Take, NotAt
<1>5. CASE Decide(u)
  <2>1. CASE (L.early \/ Policy.downloads) /\ Goto(u, "resolve")
    <3>1. tool' = tool /\ blind' = blind /\ pc'[u] = "resolve" /\ pc[u] = "search" /\ tried[u] = Len(SearchOrder)
      BY <1>5, <2>1 DEF Decide, Goto
    <3> QED
      BY <1>0, <1>p, <1>t, <2>1, <3>1 DEF Looked
  <2> QED
    BY <1>5, <1>f, <2>1 DEF Decide
<1>6. CASE Resolve(u)
  BY <1>6, <1>f, <1>k DEF Resolve, Goto
<1>7. CASE Fetch(u)
  BY <1>7, <1>n, <1>k DEF Fetch, Goto
<1>8. CASE Delegate(u)
  BY <1>8, <1>r DEF Delegate
<1>9. CASE Put(u)
  <2>0. pc[u] = "place" /\ blind' = blind /\ (tool[plan[u]] \notin Runs \/ u \in blind)
    BY <1>9, <1>p DEF Put, Placing
  <2>1. CASE NextSource(u) /\ UNCHANGED tool
    BY <1>9, <1>n, <2>0, <2>1
  <2>2. CASE /\ source[u] = "archive" /\ Goto(u, "fetch") /\ UNCHANGED tool
             /\ Place(u)[step[u] + 1] = "validate"
    <3>1. pc'[u] = "fetch"
      BY <2>2 DEF Goto
    <3>2. step[u] + 1 \in 1..Len(Place(u))
      BY <1>9 DEF Put
    <3>3. env.language = "uv"
      BY <2>0, <2>2, <3>2, PlaceFacts, WantedFacts, <1>p DEF Plan, UvSource
    <3> QED
      BY <1>0, <1>p, <2>0, <2>2, <3>1, <3>3, StillMissing DEF Looked
  <2>3. CASE UNCHANGED pc
    BY <1>0, <1>p, <2>0, <2>3 DEF Looked
  <2> QED
    BY <1>9, <2>1, <2>2, <2>3 DEF Put
<1>10. CASE Finish(u)
  <2>1. CASE NextSource(u) /\ tool[plan[u]] \notin L.final
    <3>1. env.language = "uv" => L.final = Runs
      BY WantedFacts, LanguageFacts
    <3> QED
      BY <1>10, <1>n, <2>1, <3>1 DEF Finish
  <2> QED
    BY <1>10, <1>r, <2>1 DEF Finish
<1>11. CASE Stumble(u)
  <2>1. CASE NextSource(u) /\ pc[u] \in {"fetch", "place"}
    BY <1>11, <1>n, <1>p, <2>1 DEF Stumble, Placing
  <2> QED
    BY <1>11, <1>f, <2>1 DEF Stumble
<1>12. CASE Kill
  BY <1>12, <1>e DEF Kill
<1>14. CASE Overlook(u)
  <2>0. /\ tool' = tool /\ tried'[u] = tried[u] + 1 /\ tried[u] + 1 \in 1..Len(SearchOrder) /\ pc[u] = "search"
        /\ u \in blind' /\ SearchOrder[tried[u] + 1] = "managed"
    BY <1>14, <1>p DEF Overlook
  <2>1. CASE UNCHANGED pc
    <3>1. ASSUME L.lock, NEW i \in 1..(tried[u] + 1) PROVE NotAt(u, SearchOrder[i])'
      <4>1. i \in 1..tried[u] \/ i = tried[u] + 1
        BY <1>p, <3>1
      <4>2. NotAt(u, SearchOrder[i]) \/ SearchOrder[i] = "managed"
        BY <1>p, <2>0, <3>1, <4>1 DEF Looked
      <4> QED
        BY <1>0, <2>0, <4>2 DEF NotAt
    <3>2. pc'[u] = "search"
      BY <2>0, <2>1
    <3> QED
      BY <1>0, <2>0, <3>1, <3>2 DEF Looked
  <2> QED
    BY <1>14, <1>r, <2>1 DEF Overlook, Take
<1>13. CASE UNCHANGED vars
  BY <1>13, <1>s DEF vars, Same
<1> QED
  BY <1>1, <1>2, <1>3, <1>4, <1>5, <1>6, <1>7, <1>8, <1>9, <1>10, <1>11, <1>12, <1>13, <1>14 DEF Next, Step, Fault

LEMMA PlacingStep ==
  ASSUME InstallInv, [Next]_vars, NEW u \in Task
  PROVE  Placing(u)'
<1>0. env' = env /\ L' = L
  BY EnvStays, ReadStays
<1> USE DEF InstallInv, TypeInv, TypeOK
<1>p. Placing(u) /\ Plan(u) /\ Lock(u) /\ pc[u] \in Places /\ step[u] \in Nat
  BY DEF Places
<1>q. source'[u] = source[u] => Place(u)' = Place(u)
  BY <1>0 DEF Place, UvPlace
<1>m. ASSUME pc[u] \in {"fetch", "place"}, L.by # "manager" PROVE WellMade(Place(u))
  BY <1>m, <1>p, WantedFacts, PlaceFacts DEF Plan, UvSource
<1>e. ASSUME pc'[u] # "place" PROVE Placing(u)'
  BY <1>e DEF Placing
<1>s. ASSUME Same(u), pc[u] = "place" => tool' = tool /\ (u \in blind' <=> u \in blind) PROVE Placing(u)'
  BY <1>p, <1>q, <1>s DEF Placing, Same
<1>f. ASSUME Fail(u) PROVE Placing(u)'
  BY <1>e, <1>f, EndFacts
<1>r. ASSUME NEW from, NEW v, Return(u, from, v) PROVE Placing(u)'
  BY <1>e, <1>r, ReturnFacts
<1>n. ASSUME NextSource(u), pc[u] \in {"fetch", "place"} PROVE Placing(u)'
  BY <1>e, <1>n, <1>p, EndFacts
<1>1. ASSUME NEW t \in Task, Step(t) \/ Fault(t), t # u PROVE Placing(u)'
  <2>1. pc[u] = "place" => L.lock
    BY <1>p, WantedFacts, LanguageFacts DEF Plan
  <2> QED
    BY <1>1, <1>s, <2>1, OthersWait, HolderAlone DEF LockedPlaces
<1>2. CASE Start(u)
  BY <1>2, <1>e, <1>f, <1>r DEF Start, Goto
<1>3. CASE Acquire(u)
  BY <1>3, <1>e DEF Acquire, Goto
<1>4. CASE Search(u)
  <2>1. CASE UNCHANGED <<pc, holder, found>>
    BY <1>4, <1>e, <2>1 DEF Search
  <2> QED
    BY <1>4, <1>r, <2>1 DEF Search, Take
<1>5. CASE Decide(u)
  BY <1>5, <1>e, <1>f DEF Decide, Goto
<1>6. CASE Resolve(u)
  BY <1>6, <1>e, <1>f DEF Resolve, Goto
<1>7. CASE Fetch(u)
  <2>1. CASE NextSource(u)
    BY <1>7, <1>n, <2>1 DEF Fetch
  <2>2. CASE step' = [step EXCEPT ![u] = 0] /\ Goto(u, "place") /\ UNCHANGED <<holder, found, source>>
    <3>1. pc[u] = "fetch" /\ L.by # "manager" /\ L.lock /\ UNCHANGED <<tool, plan, blind>>
      BY <1>7, WantedFacts, LanguageFacts DEF Fetch
    <3>2. Len(Place(u)) \in 2..4
      BY <1>m, <3>1 DEF WellMade
    <3>3. tool[plan[u]] \notin Runs \/ u \in blind
      BY <1>p, <3>1, NothingThere DEF Plan
    <3>4. step'[u] = 0 /\ Place(u)' = Place(u) /\ source'[u] = source[u]
      BY <1>q, <2>2
    <3>5. tool'[plan'[u]] \notin Runs' \/ u \in blind'
      BY <3>1, <3>3 DEF Runs
    <3> DEFINE n == Len(Place(u)')
    <3>6. n \in 2..4
      BY <3>2, <3>4
    <3> HIDE DEF n
    <3>7. 0 <= n /\ 0 # n
      BY <3>6
    <3>8. step'[u] = 0
      BY <3>4
    <3> QED
      BY <3>5, <3>7, <3>8 DEF Placing, n
  <2> QED
    BY <1>7, <2>1, <2>2 DEF Fetch
<1>8. CASE Delegate(u)
  BY <1>8, <1>r DEF Delegate
<1>9. CASE Put(u)
  <2>1. CASE NextSource(u)
    BY <1>9, <1>n, <2>1 DEF Put
  <2>2. CASE Goto(u, "fetch")
    BY <1>e, <2>2 DEF Goto
  <2>3. CASE /\ tool' = [tool EXCEPT ![plan[u]] = After(Place(u)[step[u] + 1], @, body[u])]
             /\ step' = [step EXCEPT ![u] = @ + 1]
             /\ UNCHANGED <<source, pc, holder, found>>
    <3>1. /\ UNCHANGED <<plan, body, blind>> /\ pc[u] = "place" /\ step[u] < Len(Place(u))
          /\ plan[u] \in Version /\ (tool[plan[u]] \notin Runs \/ u \in blind)
      BY <1>9, <1>p, WantedFacts DEF Put, Plan, Placing
    <3>2. WellMade(Place(u))
      BY <1>m, <1>p, <3>1 DEF Plan
    <3> DEFINE op == Place(u)[step[u] + 1]
    <3>3. step[u] + 1 \in 1..Len(Place(u)) /\ Len(Place(u)) \in 2..4
      BY <1>p, <3>1, <3>2 DEF WellMade
    <3>4. /\ op \in {"stage", "validate", "clear", "mkdir", "move", "rename", "chmod"}
          /\ op \in {"rename", "chmod"} <=> step[u] + 1 = Len(Place(u))
      BY <3>2, <3>3 DEF WellMade
    <3>5. step'[u] = step[u] + 1 /\ tool'[plan[u]] = After(op, tool[plan[u]], body[u]) /\ Place(u)' = Place(u)
      BY <1>q, <2>3, <3>1
    <3>6. op \in {"rename", "chmod"} => After(op, tool[plan[u]], body[u]) = body[u]
      BY DEF After
    <3>7. op \notin {"rename", "chmod"} => After(op, tool[plan[u]], body[u]) \notin Runs \/ u \in blind
      BY <3>1, <3>4 DEF After, Runs
    <3> HIDE DEF op
    <3> QED
      BY <3>1, <3>3, <3>4, <3>5, <3>6, <3>7 DEF Placing
  <2> QED
    BY <1>9, <2>1, <2>2, <2>3 DEF Put
<1>10. CASE Finish(u)
  BY <1>10, <1>n, <1>r DEF Finish
<1>11. CASE Stumble(u)
  BY <1>11, <1>n, <1>f DEF Stumble
<1>12. CASE Kill
  BY <1>12, <1>e DEF Kill
<1>14. CASE Overlook(u)
  <2>1. CASE UNCHANGED <<pc, holder, found>>
    BY <1>14, <1>e, <2>1 DEF Overlook
  <2> QED
    BY <1>14, <1>r, <2>1 DEF Overlook, Take
<1>13. CASE UNCHANGED vars
  BY <1>13, <1>s DEF vars, Same
<1> QED
  BY <1>1, <1>2, <1>3, <1>4, <1>5, <1>6, <1>7, <1>8, <1>9, <1>10, <1>11, <1>12, <1>13, <1>14 DEF Next, Step, Fault

LEMMA InstallStart == Init => InstallInv
<1> SUFFICES ASSUME Init PROVE InstallInv
  OBVIOUS
<1>1. env \in World /\ env \in Env
  BY ToolchainsAssumption DEF Init
<1>2. TypeInv
  BY <1>1, ToolchainsAssumption DEF Init, Env, TypeInv, TypeOK
<1> QED
  BY <1>2 DEF Init, InstallInv, Plan, Lock, LockedPlaces, Looked, Placing

LEMMA InstallStep == InstallInv /\ [Next]_vars => InstallInv'
BY TypeStep, PlanStep, LockStep, LookedStep, PlacingStep DEF InstallInv

LEMMA InstallAlways == Spec => []InstallInv
BY InstallStart, InstallStep, PTL DEF Spec

-----------------------------------------------------------------------------
(***************************************************************************)
(* Every variable has its type, whatever the world and the faults.         *)
(***************************************************************************)
THEOREM InstallTyping == Spec => []TypeOK
<1>1. InstallInv => TypeOK
  BY DEF InstallInv, TypeInv
<1> QED
  BY <1>1, InstallAlways, PTL

(***************************************************************************)
(* A toolchain that runs is never installed again, replaced or removed     *)
(* (InstalledStays) but by a task that could not ask it for its version:   *)
(* every installer looks again under the lock before it clears a place.    *)
(***************************************************************************)
THEOREM RunningStays == Spec => InstalledStays
<1>1. InstallInv /\ [Next]_vars =>
        [\A v \in Version : tool[v] \in Runs =>
            \/ tool'[v] = tool[v]
            \/ \E t \in blind : pc[t] = "place" /\ plan[t] = v]_vars
  BY RunsStays
<1> QED
  BY <1>1, InstallAlways, PTL DEF Spec, InstalledStays

(***************************************************************************)
(* A task downloads only with the lock and while nothing that its policy   *)
(* lets it use is there, or told its version (FetchesOnlyWhatIsMissing).   *)
(***************************************************************************)
THEOREM NothingIsFetchedTwice == Spec => []FetchesOnlyWhatIsMissing
<1>1. InstallInv => FetchesOnlyWhatIsMissing
  <2> SUFFICES ASSUME InstallInv, NEW t \in Task, pc[t] \in {"resolve", "fetch"}, L.lock
               PROVE  /\ holder = t
                      /\ \A i \in DOMAIN SearchOrder :
                           /\ SearchOrder[i] = "managed" => Installed(t) = {} \/ t \in blind
                           /\ SearchOrder[i] = "system" => OnSystem(t) = {}
                      /\ L.early => OnSystem(t) = {}
    BY DEF FetchesOnlyWhatIsMissing
  <2>0. L.early => OnSystem(t) = {}
    BY DEF InstallInv, Plan, OnSystem
  <2>1. holder = t
    BY DEF InstallInv, Lock, LockedPlaces
  <2>2. DOMAIN SearchOrder = 1..Len(SearchOrder)
    BY WantedFacts, OrderFacts DEF InstallInv
  <2>3. \A i \in 1..Len(SearchOrder) : NotAt(t, SearchOrder[i])
    BY DEF InstallInv, Looked
  <2> QED
    BY <2>0, <2>1, <2>2, <2>3 DEF NotAt
<1> QED
  BY <1>1, InstallAlways, PTL

-----------------------------------------------------------------------------
(***************************************************************************)
(* What was altered is in the store only where the policy lets it.         *)
(***************************************************************************)
Lenient == env.checksums = "disabled" \/ (env.checksums = "warn-missing" /\ ~env.listed)

AlteredInv ==
  /\ \A v \in Version : tool[v] = "altered" => Lenient
  /\ \A t \in Task : body[t] = "altered" => Lenient

LEMMA AlteredStart == Init => AlteredInv
BY StoreAssumption DEF Init, AlteredInv, Lenient

LEMMA AlteredStep == InstallInv /\ AlteredInv /\ [Next]_vars => AlteredInv'
<1> SUFFICES ASSUME InstallInv, AlteredInv, [Next]_vars PROVE AlteredInv'
  OBVIOUS
<1>0. env' = env /\ (Lenient' <=> Lenient)
  BY EnvStays DEF Lenient
<1> USE DEF InstallInv, TypeInv, TypeOK
<1>s. ASSUME UNCHANGED <<tool, body>> PROVE AlteredInv'
  BY <1>0, <1>s DEF AlteredInv
<1>1. ASSUME NEW t \in Task, Fetch(t) PROVE AlteredInv'
  <2>1. CASE UNCHANGED body
    BY <1>1, <1>s, <2>1 DEF Fetch
  <2>2. CASE \E b \in {"good", "altered"} : /\ body' = [body EXCEPT ![t] = Delivered(t, b)]
                                            /\ b = "altered" => Accepted(b)
    <3>1. PICK b \in {"good", "altered"} : /\ body' = [body EXCEPT ![t] = Delivered(t, b)]
                                           /\ b = "altered" => Accepted(b)
      BY <2>2
    <3>2. Delivered(t, b) = "altered" => Lenient
      BY <3>1 DEF Delivered, Accepted, Lenient
    <3>3. tool' = tool
      BY <1>1 DEF Fetch
    <3> QED
      BY <1>0, <3>1, <3>2, <3>3 DEF AlteredInv
  <2> QED
    BY <1>1, <2>1, <2>2 DEF Fetch
<1>2. ASSUME NEW t \in Task, Delegate(t) PROVE AlteredInv'
  BY <1>0, <1>2 DEF Delegate, AlteredInv
<1>3. ASSUME NEW t \in Task, Put(t) PROVE AlteredInv'
  <2>1. body' = body
    BY <1>3 DEF Put
  <2>2. CASE tool' = tool
    BY <1>s, <2>1, <2>2
  <2>3. CASE tool' # tool
    <3>1. /\ tool' = [tool EXCEPT ![plan[t]] = After(Place(t)[step[t] + 1], @, body[t])]
          /\ step[t] + 1 \in 1..Len(Place(t)) /\ WellMade(Place(t)) /\ plan[t] \in Version
      BY <1>3, <2>3, PutFacts
    <3>2. After(Place(t)[step[t] + 1], tool[plan[t]], body[t]) = "altered" => Lenient
      BY <3>1 DEF After, WellMade, AlteredInv
    <3> QED
      BY <1>0, <2>1, <3>1, <3>2 DEF AlteredInv
  <2> QED
    BY <2>2, <2>3
<1> QED
  BY <1>s, <1>1, <1>2, <1>3
  DEF Next, Step, Start, Acquire, Search, Decide, Resolve, Finish, Stumble, Overlook, Kill, vars

(***************************************************************************)
(* Nothing but what was published gets into the store unless the policy    *)
(* lets it (AlteredOnlyIfAllowed): each way to the place of a version      *)
(* leads through the comparison of the digest.                             *)
(***************************************************************************)
THEOREM OnlyWhatIsAllowed == Spec => []AlteredOnlyIfAllowed
<1>1. AlteredInv => AlteredOnlyIfAllowed
  BY DEF AlteredInv, AlteredOnlyIfAllowed, Lenient
<1> QED
  BY <1>1, AlteredStart, AlteredStep, InstallAlways, PTL DEF Spec

-----------------------------------------------------------------------------
(***************************************************************************)
(* What a search trusts without trying it is what runs, or else the work   *)
(* in progress of the task that has the lock, or what a fault has left.    *)
(***************************************************************************)
Tidy(v) ==
  L.accepts = Present /\ tool[v] \notin {"absent"} \cup Runs =>
    /\ env.language \in InPlace
    /\ faults > 0 \/ \E t \in Task : pc[t] = "place" /\ plan[t] = v

Given(t) ==
  pc[t] = "done" /\ found[t][1] = "managed" =>
    /\ found[t][2] \in Version
    /\ \/ tool[found[t][2]] \in Runs
       \/ env.language \in InPlace /\ faults > 0
       \/ env.language \in Clearing /\ blind # {}

GivenInv == (\A v \in Version : Tidy(v)) /\ (\A t \in Task : Given(t))

LEMMA GivenStart == Init => GivenInv
<1> SUFFICES ASSUME Init PROVE GivenInv
  OBVIOUS
<1>1. env \in World /\ env \in Env /\ tool = env.tools
  BY ToolchainsAssumption DEF Init
<1>2. \A v \in Version : Tidy(v)
  BY <1>1, StoreAssumption, LanguageFacts DEF Tidy, Trusting
<1> QED
  BY <1>2 DEF Init, GivenInv, Given

LEMMA FaultsStay == TypeInv /\ [Next]_vars => faults' \in Nat /\ (faults > 0 => faults' > 0)
<1> SUFFICES ASSUME TypeInv, [Next]_vars PROVE faults' \in Nat /\ (faults > 0 => faults' > 0)
  OBVIOUS
<1>1. faults \in Nat
  BY ToolchainsAssumption DEF TypeInv, TypeOK
<1>2. faults' \in {faults, faults + 1}
  BY DEF Next, Step, Start, Acquire, Search, Decide, Resolve, Fetch, Delegate, Put, Finish, Stumble, Overlook, Kill, vars
<1> QED
  BY <1>1, <1>2

\* What a task that may look finds is what runs, unless a fault has left something.
LEMMA FoundRuns ==
  ASSUME InstallInv, GivenInv, NEW t \in Task, NEW v \in Installed(t),
         L.early \/ (pc[t] = "search" /\ L.lock) \/ env.language = "python"
  PROVE  v \in Version /\ (tool[v] \in Runs \/ (env.language \in InPlace /\ faults > 0))
<1>1. v \in Version /\ v \in Wanted(t) /\ tool[v] \in L.accepts /\ env \in Env
  BY WantedFacts DEF InstallInv, Installed
<1>2. CASE L.accepts = Runs
  BY <1>1, <1>2
<1>3. CASE L.accepts = Present /\ tool[v] \notin Runs
  <2>1. tool[v] \notin {"absent"} \cup Runs
    BY <1>1, <1>3 DEF Present
  <2>2. env.language \in InPlace /\ (faults > 0 \/ \E u \in Task : pc[u] = "place" /\ plan[u] = v)
    BY <1>1, <1>3, <2>1 DEF GivenInv, Tidy
  <2>3. pc[t] = "search" /\ holder = t /\ L.lock
    BY <1>1, <2>2, LanguageFacts DEF InPlace, InstallInv, Lock, LockedPlaces
  <2>4. \A u \in Task : pc[u] # "place"
    BY <2>3 DEF InstallInv, Lock, LockedPlaces
  <2> QED
    BY <1>1, <2>2, <2>4
<1> QED
  BY <1>1, <1>2, <1>3, LanguageFacts

LEMMA TidyStep ==
  ASSUME InstallInv, GivenInv, [Next]_vars, NEW v \in Version
  PROVE  Tidy(v)'
<1>0. env' = env /\ L' = L /\ env \in Env
  BY EnvStays, ReadStays, WantedFacts DEF InstallInv
<1>f. faults' \in Nat /\ (faults > 0 => faults' > 0) /\ Tidy(v)
  BY FaultsStay DEF InstallInv, GivenInv
<1> USE DEF InstallInv, TypeInv, TypeOK
<1>s. ASSUME tool'[v] = tool[v],
             \A u \in Task : pc[u] = "place" /\ plan[u] = v /\ env.language \in InPlace
                               /\ tool[v] \notin Runs
                =>  faults' > 0 \/ (pc'[u] = "place" /\ plan'[u] = plan[u])
      PROVE  Tidy(v)'
  BY <1>0, <1>f, <1>s DEF Tidy, Present, Runs, State
<1>o. ASSUME NEW t \in Task, Step(t) \/ Fault(t), NEW u \in Task, u # t
      PROVE  pc'[u] = pc[u] /\ plan'[u] = plan[u]
  BY <1>o, OthersWait DEF Same
<1>n. ASSUME NEW t \in Task, Step(t) \/ Fault(t), pc[t] # "place", tool'[v] = tool[v]
      PROVE  Tidy(v)'
  BY <1>n, <1>o, <1>s
<1>1. ASSUME NEW t \in Task,
             Start(t) \/ Acquire(t) \/ Search(t) \/ Decide(t) \/ Resolve(t) \/ Fetch(t)
      PROVE  Tidy(v)'
  <2>1. tool' = tool /\ pc[t] # "place" /\ Step(t)
    BY <1>1 DEF Start, Acquire, Search, Decide, Resolve, Fetch, Step
  <2> QED
    BY <1>n, <2>1
<1>2. ASSUME NEW t \in Task, Delegate(t) PROVE Tidy(v)'
  <2>1. pc[t] # "place" /\ Step(t)
    BY <1>2 DEF Delegate, Step
  <2>2. tool'[v] = tool[v] \/ tool'[v] \in Runs
    BY <1>2 DEF Delegate, Runs
  <2>3. CASE tool'[v] \in Runs
    BY <1>0, <2>3 DEF Tidy, Runs
  <2> QED
    BY <1>n, <2>1, <2>2, <2>3
<1>3. ASSUME NEW t \in Task, Put(t) PROVE Tidy(v)'
  <2>0. pc[t] = "place" /\ plan' = plan /\ Step(t) /\ Plan(t) /\ L.by # "manager"
    BY <1>3 DEF Put, Step, Plan
  <2>1. CASE pc'[t] # "place"
    <3>1. tool' = tool /\ Place(t)[step[t] + 1] = "validate" /\ step[t] + 1 \in 1..Len(Place(t))
      BY <1>3, <2>0, <2>1 DEF Put
    <3>2. env.language \notin InPlace
      BY <1>0, <2>0, <3>1, PlaceFacts DEF Plan, UvSource, InPlace
    <3> QED
      BY <1>s, <3>1, <3>2
  <2>2. CASE pc'[t] = "place" /\ tool'[v] = tool[v]
    BY <1>o, <1>s, <2>0, <2>2
  <2>3. CASE pc'[t] = "place" /\ tool'[v] # tool[v]
    <3>1. /\ tool' = [tool EXCEPT ![plan[t]] = After(Place(t)[step[t] + 1], @, body[t])]
          /\ plan[t] \in Version /\ step[t] + 1 \in 1..Len(Place(t)) /\ WellMade(Place(t))
      BY <1>3, <2>3, PutFacts
    <3>2. plan[t] = v
      BY <2>3, <3>1
    <3> DEFINE op == Place(t)[step[t] + 1]
    <3>3. op \in {"stage", "validate", "clear", "mkdir", "move", "rename", "chmod"}
      BY <3>1 DEF WellMade
    <3>4. op \in {"mkdir", "move"} => env.language \in InPlace \cup {"uv"}
      BY <1>0, <2>0, <3>1, PlaceFacts DEF Plan, UvSource
    <3>5. tool'[v] = After(op, tool[v], body[t])
      BY <3>1, <3>2
    <3> HIDE DEF op
    <3>6. CASE L.accepts = Present
      <4>1. env.language \in Trusting /\ env.language # "uv" /\ body[t] \in Runs
        BY <1>0, <2>0, <3>6, LanguageFacts DEF Trusting, Plan
      <4>2. CASE op \in {"mkdir", "move"}
        BY <1>0, <2>0, <2>3, <3>2, <3>4, <4>1, <4>2 DEF Tidy
      <4>3. CASE op \notin {"mkdir", "move"}
        <5>1. tool'[v] \in {"absent"} \cup Runs
          BY <2>3, <3>3, <3>5, <4>1, <4>3 DEF After
        <5> QED
          BY <5>1 DEF Tidy, Runs
      <4> QED
        BY <4>2, <4>3
    <3> QED
      BY <1>0, <3>6 DEF Tidy, Present, State
  <2> QED
    BY <2>1, <2>2, <2>3
<1>4. ASSUME NEW t \in Task, Finish(t) PROVE Tidy(v)'
  <2>1. tool' = tool /\ Step(t) /\ pc[t] = "place" /\ step[t] = Len(Place(t)) /\ Plan(t) /\ Placing(t)
    BY <1>4 DEF Finish, Step
  <2>2. env.language \in InPlace => tool[plan[t]] \in Runs
    BY <2>1 DEF Placing, Plan, InPlace
  <2> QED
    BY <1>o, <1>s, <2>1, <2>2
<1>5. ASSUME NEW t \in Task, Stumble(t) PROVE Tidy(v)'
  <2>1. tool' = tool /\ faults' = faults + 1 /\ faults \in Nat
    BY <1>5, ToolchainsAssumption DEF Stumble
  <2> QED
    BY <1>s, <2>1
<1>8. ASSUME NEW t \in Task, Overlook(t) PROVE Tidy(v)'
  <2>1. tool' = tool /\ faults' = faults + 1 /\ faults \in Nat
    BY <1>8, ToolchainsAssumption DEF Overlook
  <2> QED
    BY <1>s, <2>1
<1>6. CASE Kill
  <2>1. tool' = tool /\ faults' = faults + 1 /\ faults \in Nat
    BY <1>6, ToolchainsAssumption DEF Kill
  <2> QED
    BY <1>s, <2>1
<1>7. CASE UNCHANGED vars
  BY <1>7, <1>s DEF vars
<1> QED
  BY <1>1, <1>2, <1>3, <1>4, <1>5, <1>6, <1>7, <1>8 DEF Next, Step

LEMMA GivenStep ==
  ASSUME InstallInv, GivenInv, [Next]_vars, NEW u \in Task
  PROVE  Given(u)'
<1>0. env' = env /\ env \in Env
  BY EnvStays, WantedFacts DEF InstallInv
<1>f. faults' \in Nat /\ (faults > 0 => faults' > 0) /\ Given(u)
  BY FaultsStay DEF InstallInv, GivenInv
<1>k. \A v \in Version : tool[v] \in Runs =>
        tool'[v] \in Runs' \/ (env.language \in Clearing /\ blind # {})
  <2>1. ASSUME NEW t \in blind, pc[t] = "place" PROVE env.language \in Clearing
    <3>1. t \in Task /\ Plan(t) /\ env.language \in Asking
      BY <2>1 DEF InstallInv, TypeInv, TypeOK
    <3>2. L.by # "manager"
      BY <2>1, <3>1 DEF Plan
    <3> QED
      BY <1>0, <3>1, <3>2, LanguageFacts DEF Asking, Clearing
  <2> QED
    BY <2>1, RunsStays DEF Runs
<1>b. blind # {} /\ pc'[u] = "done" => blind' # {}
  <2>1. ~Kill \/ pc'[u] = "idle"
    BY DEF Kill
  <2>2. ~Kill => blind \subseteq blind'
    BY DEF Next, Step, Start, Acquire, Search, Decide, Resolve, Fetch, Delegate, Put, Finish, Stumble,
       Overlook, vars
  <2> QED
    BY <2>1, <2>2
<1>w. Wanted(u) \subseteq Version /\ Max(Version) \in Version /\ Installed(u) \subseteq Version
      /\ (L.early => Wanted(u) = {Max(Version)})
  BY WantedFacts DEF InstallInv
<1> USE DEF InstallInv, TypeInv, TypeOK
<1>e. ASSUME pc'[u] # "done" PROVE Given(u)'
  BY <1>e DEF Given
<1>g. ASSUME NEW v \in Version, Return(u, "managed", v),
             tool'[v] \in Runs \/ (env.language \in InPlace /\ faults > 0)
      PROVE  Given(u)'
  <2>1. found'[u] = <<"managed", v>>
    BY <1>g, ReturnFacts
  <2>2. found'[u][1] = "managed" /\ found'[u][2] = v
    BY <2>1
  <2> QED
    BY <1>0, <1>f, <1>g, <2>2 DEF Given, Runs, InPlace
<1>i. ASSUME NEW v \in Installed(u), Return(u, "managed", v), tool' = tool,
             L.early \/ (pc[u] = "search" /\ L.lock) \/ env.language = "python"
      PROVE  Given(u)'
  <2>1. v \in Version /\ (tool[v] \in Runs \/ (env.language \in InPlace /\ faults > 0))
    BY <1>i, FoundRuns
  <2> QED
    BY <1>g, <1>i, <2>1
<1>y. ASSUME NEW v, Return(u, "system", v) PROVE Given(u)'
  <2>1. found'[u] = <<"system", v>>
    BY <1>y, ReturnFacts
  <2>2. found'[u][1] = "system"
    BY <2>1
  <2> QED
    BY <2>2 DEF Given
<1>d. ASSUME Fail(u) PROVE Given(u)'
  BY <1>d, <1>e, EndFacts
<1>n. ASSUME NextSource(u), pc[u] \in {"fetch", "place"} PROVE Given(u)'
  BY <1>e, <1>n, EndFacts
<1>1. ASSUME pc'[u] = pc[u], found'[u] = found[u] PROVE Given(u)'
  BY <1>0, <1>1, <1>b, <1>f, <1>k DEF Given, InPlace, Clearing
<1>2. ASSUME NEW t \in Task, Step(t) \/ Fault(t), t # u PROVE Given(u)'
  BY <1>1, <1>2, OthersWait DEF Same
<1>3. CASE Start(u)
  <2>1. ASSUME L.early, Installed(u) # {}, Return(u, "managed", Max(Version)) PROVE Given(u)'
    <3>1. Max(Version) \in Installed(u)
      BY <1>w, <2>1 DEF Installed
    <3>2. tool' = tool
      BY <1>3 DEF Start
    <3> QED
      BY <1>i, <2>1, <3>1, <3>2
  <2>2. CASE pc'[u] \in {"waiting", "search"}
    BY <1>e, <2>2
  <2> QED
    BY <1>3, <1>d, <1>y, <2>1, <2>2 DEF Start, Goto
<1>4. CASE Acquire(u)
  BY <1>4, <1>e DEF Acquire, Goto
<1>5. CASE Search(u)
  <2>1. tool' = tool /\ pc[u] = "search" /\ (L.lock \/ env.language = "python")
    BY <1>0, <1>5, LanguageFacts DEF Search
  <2>2. SearchOrder[tried[u] + 1] \in {"managed", "system"}
    BY <1>0, <1>5, OrderFacts DEF Search
  <2>3. CASE UNCHANGED <<pc, holder, found>>
    BY <1>1, <2>3
  <2>4. CASE SearchOrder[tried[u] + 1] = "managed" /\ \E v \in Installed(u) : Return(u, "managed", v)
    BY <1>i, <2>1, <2>4
  <2>5. CASE SearchOrder[tried[u] + 1] = "system" /\ \E v : Return(u, "system", v)
    BY <1>y, <2>5
  <2> QED
    BY <1>5, <2>2, <2>3, <2>4, <2>5 DEF Search, Take
<1>6. CASE Decide(u)
  BY <1>6, <1>d, <1>e DEF Decide, Goto
<1>7. CASE Resolve(u)
  BY <1>7, <1>d, <1>e DEF Resolve, Goto
<1>8. CASE Fetch(u)
  BY <1>8, <1>e, <1>n DEF Fetch, Goto
<1>9. CASE Delegate(u)
  <2>1. PICK v : /\ v = IF env.language = "python" /\ Installed(u) # {}
                        THEN Max(Installed(u)) ELSE plan[u]
                 /\ tool' = [tool EXCEPT ![v] = IF @ \in Runs THEN @ ELSE "good"]
                 /\ Return(u, "managed", v)
    BY <1>9 DEF Delegate
  <2>2. v \in Version
    <3>1. plan[u] \in Version
      BY <1>9, <1>w DEF Delegate, Plan
    <3>2. Installed(u) # {} => Max(Installed(u)) \in Version
      BY <1>w, MaxFact
    <3> QED
      BY <2>1, <3>1, <3>2
  <2>3. tool'[v] \in Runs
    BY <2>1, <2>2 DEF Runs
  <2> QED
    BY <1>g, <2>1, <2>2, <2>3
<1>10. CASE Put(u)
  <2>1. CASE NextSource(u)
    BY <1>10, <1>n, <2>1 DEF Put
  <2>2. CASE Goto(u, "fetch")
    BY <1>e, <2>2 DEF Goto
  <2> QED
    BY <1>1, <1>10, <2>1, <2>2 DEF Put
<1>11. CASE Finish(u)
  <2>1. tool' = tool /\ pc[u] = "place" /\ step[u] = Len(Place(u)) /\ Plan(u) /\ Placing(u) /\ plan[u] \in Version
    BY <1>11, <1>w DEF Finish, Plan
  <2>2. tool[plan[u]] \in L.final => tool[plan[u]] \in Runs
    BY <1>0, <2>1, LanguageFacts DEF Placing, Plan
  <2> QED
    BY <1>11, <1>g, <1>n, <2>1, <2>2 DEF Finish
<1>12. CASE Stumble(u)
  BY <1>12, <1>d, <1>n DEF Stumble
<1>13. CASE Kill
  BY <1>13, <1>e DEF Kill
<1>15. CASE Overlook(u)
  <2>1. tool' = tool /\ pc[u] = "search" /\ (L.lock \/ env.language = "python")
    BY <1>0, <1>15, LanguageFacts DEF Overlook
  <2>2. CASE UNCHANGED <<pc, holder, found>>
    BY <1>1, <2>2
  <2>3. CASE \E v \in Installed(u) : Return(u, "managed", v)
    BY <1>i, <2>1, <2>3
  <2> QED
    BY <1>15, <2>2, <2>3 DEF Overlook, Take
<1>14. CASE UNCHANGED vars
  BY <1>1, <1>14 DEF vars
<1> QED
  BY <1>2, <1>3, <1>4, <1>5, <1>6, <1>7, <1>8, <1>9, <1>10, <1>11, <1>12, <1>13, <1>14, <1>15 DEF Next, Step, Fault

LEMMA GivenAlways == Spec => []GivenInv
<1>1. InstallInv /\ GivenInv /\ [Next]_vars => GivenInv'
  BY TidyStep, GivenStep DEF GivenInv
<1> QED
  BY <1>1, GivenStart, InstallAlways, PTL DEF Spec

(***************************************************************************)
(* A managed toolchain that a hook was given runs (GivenToolchainRuns),    *)
(* with the exception of the two languages that build it where it is found *)
(* and of two that replace what they could not ask for its version.        *)
(***************************************************************************)
THEOREM GivenRuns == Spec => []GivenToolchainRuns
<1>1. GivenInv => GivenToolchainRuns
  BY DEF GivenInv, Given, GivenToolchainRuns
<1> QED
  BY <1>1, GivenAlways, PTL

-----------------------------------------------------------------------------
(***************************************************************************)
(* What the levels say is what the policy does.                            *)
(***************************************************************************)
Speaks(l, i, silent) == l # <<>> /\ l[i] # silent

LEMMA SpokenFacts ==
  ASSUME NEW i \in 1..2, NEW silent
  PROVE  Spoken(i, silent) =
           IF Speaks(env.project, i, silent) THEN env.project[i]
           ELSE IF Speaks(env.manifest, i, silent) THEN env.manifest[i]
           ELSE IF Speaks(env.default, i, silent) THEN env.default[i]
           ELSE silent
<1> DEFINE said == {k \in 1..3 : Levels[k] # <<>> /\ Levels[k][i] # silent}
<1>1. /\ Levels[1] = env.project /\ Levels[2] = env.manifest /\ Levels[3] = env.default
  BY DEF Levels
<1>2. /\ 1 \in said <=> Speaks(env.project, i, silent)
      /\ 2 \in said <=> Speaks(env.manifest, i, silent)
      /\ 3 \in said <=> Speaks(env.default, i, silent)
      /\ said \subseteq {1, 2, 3}
  BY <1>1 DEF Speaks
<1>3. Spoken(i, silent) = IF said = {} THEN silent ELSE Levels[Min(said)][i]
  BY DEF Spoken
<1> HIDE DEF said
<1>4. ASSUME NEW k \in said, \A j \in said : k <= j PROVE Min(said) = k
  <2>1. Min(said) \in said /\ \A j \in said : Min(said) <= j
    BY <1>4 DEF Min
  <2>2. Min(said) <= k /\ k <= Min(said) /\ Min(said) \in {1, 2, 3} /\ k \in {1, 2, 3}
    BY <1>2, <1>4, <2>1
  <2> QED
    BY <2>2
<1>5. CASE 1 \in said
  <2>1. Min(said) = 1
    BY <1>2, <1>4, <1>5
  <2> QED
    BY <1>1, <1>2, <1>3, <1>5, <2>1
<1>6. CASE 1 \notin said /\ 2 \in said
  <2>1. Min(said) = 2
    BY <1>2, <1>4, <1>6
  <2> QED
    BY <1>1, <1>2, <1>3, <1>6, <2>1
<1>7. CASE 1 \notin said /\ 2 \notin said /\ 3 \in said
  <2>1. Min(said) = 3
    BY <1>2, <1>4, <1>7
  <2> QED
    BY <1>1, <1>2, <1>3, <1>7, <2>1
<1>8. CASE said = {}
  BY <1>2, <1>3, <1>8
<1> QED
  BY <1>2, <1>5, <1>6, <1>7, <1>8

\* A level that is read says what was written on it.
LEMMA LevelSays ==
  ASSUME NEW l \in ConfigLevel
  PROVE  /\ Level(l).request = "unspecified" <=> ~Speaks(l, 1, "unspecified")
         /\ Level(l).preference = IF Speaks(l, 2, "none") THEN l[2] ELSE "none"
         /\ Speaks(l, 2, "none") => l[2] \in Preference
         /\ Level(l).downloads <=> ~(Speaks(l, 1, "unspecified") /\ l[1] = "system")
<1>1. CASE l = <<>>
  BY <1>1 DEF Level, NotSet, Speaks
<1>2. CASE l \in {"unspecified", "default", "system", "explicit"} \X (Preference \cup {"none"})
  <2>1. l # <<>> /\ l[1] \in {"unspecified", "default", "system", "explicit"}
        /\ l[2] \in Preference \cup {"none"}
    BY <1>2
  <2> QED
    BY <2>1 DEF Level, LanguageVersion, Speaks
<1> QED
  BY <1>1, <1>2 DEF ConfigLevel

LEMMA PolicySays ==
  ASSUME env \in Env
  PROVE  /\ Policy.preference = IF Spoken(2, "none") = "none" THEN "managed" ELSE Spoken(2, "none")
         /\ Spoken(1, "unspecified") = "system" \/ Spoken(2, "none") = "only-system" => ~Policy.downloads
<1>1. env.manifest \in ConfigLevel /\ env.project \in ConfigLevel /\ env.default \in ConfigLevel
  BY DEF Env
<1> DEFINE m == Level(env.manifest)
           p == Level(env.project)
           d == Level(env.default)
           up == Update(m, p)
           lv == ApplyDefaults(up, d)
<1>2. /\ m.preference = IF Speaks(env.manifest, 2, "none") THEN env.manifest[2] ELSE "none"
      /\ p.preference = IF Speaks(env.project, 2, "none") THEN env.project[2] ELSE "none"
      /\ d.preference = IF Speaks(env.default, 2, "none") THEN env.default[2] ELSE "none"
  BY <1>1, LevelSays
<1>3. /\ m.request = "unspecified" <=> ~Speaks(env.manifest, 1, "unspecified")
      /\ p.request = "unspecified" <=> ~Speaks(env.project, 1, "unspecified")
      /\ d.request = "unspecified" <=> ~Speaks(env.default, 1, "unspecified")
  BY <1>1, LevelSays
<1>4. /\ m.downloads <=> ~(Speaks(env.manifest, 1, "unspecified") /\ env.manifest[1] = "system")
      /\ p.downloads <=> ~(Speaks(env.project, 1, "unspecified") /\ env.project[1] = "system")
      /\ d.downloads <=> ~(Speaks(env.default, 1, "unspecified") /\ env.default[1] = "system")
  BY <1>1, LevelSays
<1>5. m \in Resolved /\ p \in Resolved /\ d \in Resolved /\ up \in Resolved /\ lv \in Resolved
  BY <1>1, LevelFacts, MergeFacts
<1>6. /\ up.request = IF p.request # "unspecified" THEN p.request ELSE m.request
      /\ up.downloads = IF p.request # "unspecified" THEN p.downloads ELSE m.downloads
      /\ up.preference = IF p.preference # "none" THEN p.preference ELSE m.preference
  BY DEF Update
<1>7. /\ lv.downloads = IF up.request = "unspecified" THEN d.downloads ELSE up.downloads
      /\ lv.preference = IF up.preference = "none" THEN d.preference ELSE up.preference
  BY DEF ApplyDefaults
<1>8. /\ Policy.preference = IF lv.preference = "none" THEN "managed" ELSE lv.preference
      /\ Policy.downloads = (lv.downloads /\ Policy.preference # "only-system")
  BY DEF Policy
<1>9. /\ Speaks(env.manifest, 2, "none") => env.manifest[2] # "none"
      /\ Speaks(env.project, 2, "none") => env.project[2] # "none"
      /\ Speaks(env.default, 2, "none") => env.default[2] # "none"
  BY DEF Speaks
<1> HIDE DEF m, p, d, up, lv
<1>10. Spoken(2, "none") = lv.preference
  BY <1>2, <1>6, <1>7, <1>9, SpokenFacts
<1>11. Spoken(1, "unspecified") = "system" => ~lv.downloads
  BY <1>3, <1>4, <1>6, <1>7, SpokenFacts
<1> QED
  BY <1>8, <1>10, <1>11

\* A hook gets its toolchain from a source of its policy, or from a download that it allows.
FromPolicy(t) ==
  pc[t] = "done" /\ ~L.early =>
    \/ \E i \in 1..Len(SearchOrder) : found[t][1] = SearchOrder[i]
    \/ Policy.downloads /\ found[t][1] = "managed"

LEMMA FromPolicyStep ==
  ASSUME InstallInv, [Next]_vars, NEW u \in Task, FromPolicy(u)
  PROVE  FromPolicy(u)'
<1>0. env' = env /\ L' = L /\ SearchOrder' = SearchOrder /\ Policy' = Policy
  BY EnvStays, ReadStays
<1> USE DEF InstallInv, TypeInv, TypeOK
<1>e. ASSUME pc'[u] # "done" PROVE FromPolicy(u)'
  BY <1>e DEF FromPolicy
<1>s. ASSUME pc'[u] = pc[u], found'[u] = found[u] PROVE FromPolicy(u)'
  BY <1>0, <1>s DEF FromPolicy
<1>d. ASSUME Fail(u) PROVE FromPolicy(u)'
  BY <1>d, <1>e, EndFacts
<1>n. ASSUME NextSource(u), pc[u] \in {"fetch", "place"} PROVE FromPolicy(u)'
  BY <1>e, <1>n, EndFacts
<1>r. ASSUME NEW from, NEW v, Return(u, from, v),
             \/ L.early
             \/ \E i \in 1..Len(SearchOrder) : from = SearchOrder[i]
             \/ Policy.downloads /\ from = "managed"
      PROVE  FromPolicy(u)'
  <2>1. found'[u] = <<from, v>>
    BY <1>r, ReturnFacts
  <2>2. found'[u][1] = from
    BY <2>1
  <2> QED
    BY <1>0, <1>r, <2>2 DEF FromPolicy
<1>1. ASSUME NEW t \in Task, Step(t) \/ Fault(t), t # u PROVE FromPolicy(u)'
  BY <1>1, <1>s, OthersWait DEF Same
<1>2. CASE Start(u)
  <2>1. CASE pc'[u] \in {"waiting", "search"}
    BY <1>e, <2>1
  <2> QED
    BY <1>2, <1>d, <1>r, <2>1 DEF Start, Goto
<1>3. CASE Acquire(u)
  BY <1>3, <1>e DEF Acquire, Goto
<1>4. CASE Search(u)
  <2>1. tried[u] + 1 \in 1..Len(SearchOrder)
    BY <1>4, WantedFacts, OrderFacts DEF Search
  <2>2. CASE UNCHANGED <<pc, holder, found>>
    BY <1>s, <2>2
  <2>3. CASE \E v : Return(u, SearchOrder[tried[u] + 1], v)
    BY <1>r, <2>1, <2>3
  <2> QED
    BY <1>4, <2>2, <2>3 DEF Search, Take
<1>5. CASE Decide(u)
  BY <1>5, <1>d, <1>e DEF Decide, Goto
<1>6. CASE Resolve(u)
  BY <1>6, <1>d, <1>e DEF Resolve, Goto
<1>7. CASE Fetch(u)
  BY <1>7, <1>e, <1>n DEF Fetch, Goto
<1>8. CASE Delegate(u)
  <2>1. L.early \/ Policy.downloads
    BY <1>8 DEF Delegate, Looked
  <2> QED
    BY <1>8, <1>r, <2>1 DEF Delegate
<1>9. CASE Put(u)
  <2>1. CASE NextSource(u)
    BY <1>9, <1>n, <2>1 DEF Put
  <2>2. CASE Goto(u, "fetch")
    BY <1>e, <2>2 DEF Goto
  <2> QED
    BY <1>s, <1>9, <2>1, <2>2 DEF Put
<1>10. CASE Finish(u)
  <2>1. (L.early \/ Policy.downloads) /\ pc[u] = "place"
    BY <1>10 DEF Finish, Looked
  <2> QED
    BY <1>10, <1>n, <1>r, <2>1 DEF Finish
<1>11. CASE Stumble(u)
  BY <1>11, <1>d, <1>n DEF Stumble
<1>12. CASE Kill
  BY <1>12, <1>e DEF Kill
<1>14. CASE Overlook(u)
  <2>1. tried[u] + 1 \in 1..Len(SearchOrder) /\ SearchOrder[tried[u] + 1] = "managed"
    BY <1>14, WantedFacts, OrderFacts DEF Overlook
  <2>2. CASE UNCHANGED <<pc, holder, found>>
    BY <1>s, <2>2
  <2>3. CASE \E v : Return(u, "managed", v)
    BY <1>r, <2>1, <2>3
  <2> QED
    BY <1>14, <2>2, <2>3 DEF Overlook, Take
<1>13. CASE UNCHANGED vars
  BY <1>13, <1>s DEF vars
<1> QED
  BY <1>1, <1>2, <1>3, <1>4, <1>5, <1>6, <1>7, <1>8, <1>9, <1>10, <1>11, <1>12, <1>13, <1>14 DEF Next, Step, Fault

(***************************************************************************)
(* In every combination of manifest, project and defaults, `system` bans   *)
(* downloads and only-managed and only-system keep to their side           *)
(* (ConfigurationHonoured).                                                *)
(***************************************************************************)
THEOREM LevelsAreHonoured == Spec => []ConfigurationHonoured
<1> DEFINE All == \A t \in Task : FromPolicy(t)
<1>1. Init => All
  BY DEF Init, FromPolicy
<1>2. InstallInv /\ All /\ [Next]_vars => All'
  BY FromPolicyStep
<1>3. InstallInv /\ All => ConfigurationHonoured
  <2> SUFFICES ASSUME InstallInv, All, ~L.early, NEW t \in Task
               PROVE  /\ Spoken(1, "unspecified") = "system" \/ Spoken(2, "none") = "only-system"
                           => pc[t] \notin {"resolve", "fetch", "place"}
                      /\ pc[t] = "done" /\ Spoken(2, "none") = "only-managed" => found[t][1] = "managed"
                      /\ pc[t] = "done" /\ Spoken(2, "none") = "only-system" => found[t][1] = "system"
    BY DEF ConfigurationHonoured
  <2>1. env \in Env
    BY WantedFacts DEF InstallInv
  <2>2. Spoken(1, "unspecified") = "system" \/ Spoken(2, "none") = "only-system"
           => pc[t] \notin {"resolve", "fetch", "place"}
    BY <2>1, PolicySays DEF InstallInv, Looked
  <2>3. CASE pc[t] = "done" /\ Spoken(2, "none") = "only-managed"
    <3>1. SearchOrder = <<"managed">>
      BY <2>1, <2>3, PolicySays DEF SearchOrder
    <3> QED
      BY <2>2, <2>3, <3>1 DEF FromPolicy
  <2>4. CASE pc[t] = "done" /\ Spoken(2, "none") = "only-system"
    <3>1. SearchOrder = <<"system">> /\ ~Policy.downloads
      BY <2>1, <2>4, PolicySays DEF SearchOrder
    <3> QED
      BY <2>2, <2>4, <3>1 DEF FromPolicy
  <2> QED
    BY <2>2, <2>3, <2>4
<1> HIDE DEF All
<1> QED
  BY <1>1, <1>2, <1>3, InstallAlways, PTL DEF Spec
=============================================================================
