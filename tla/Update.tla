-------------------------------- MODULE Update --------------------------------
(***************************************************************************)
(* `prek update` (cli/update): it reads the configurations of all          *)
(* projects, fetches each of their repositories once, some at a time, and  *)
(* rewrites one configuration after the other.  Meanwhile repositories get *)
(* tags, users edit, time passes, and the process may be killed.           *)
(***************************************************************************)
EXTENDS Revisions, Sequences

CONSTANTS
  Projects, Repos,
  Remotes,        \* what a repository may be
  Entries,        \* what a configuration may list: [repo, rev, frozen, hooks]
  Rewrites,       \* what a user's edit may leave in a configuration
  Requests,       \* command lines
  ProjectOptions, \* of the projects, some of them for one repository
  GlobalOptions,  \* of the user
  Jobs,           \* repositories that are fetched at once
  MaxLength,      \* bound on the entries of a configuration
  MaxRuns, MaxEdits, MaxTime

\* An option is a set of at most one value; patterns are the set of tags they match.
Optional(option, values) == option \subseteq values /\ \A v, w \in option : v = w
AreFilters(o) == Optional(o.include, SUBSET Tags) /\ Optional(o.exclude, SUBSET Tags)
AreOptions(o) == Optional(o.cooldown, Nat) /\ Optional(o.freeze, BOOLEAN) /\ AreFilters(o)
IsRequest(r) ==
  /\ Optional(r.cooldown, Nat) /\ AreFilters(r) /\ {r.freeze, r.edge, r.dry, r.code} \subseteq BOOLEAN
  /\ \A x \in Repos : Optional(r.including[x], SUBSET Tags) /\ r.excluding[x] \subseteq Tags
  /\ r.repos \subseteq Repos  \* what --repo and --exclude-repo leave

AnyEntry ==
  [repo : Repos, rev : Tags \cup Commits, frozen : Tags \cup {"none"}, hooks : SUBSET Hooks]

ASSUME UpdateAssumption ==
  /\ (\A R \in Remotes : IsFetched(R)) /\ \A r \in Requests : IsRequest(r)
  /\ Entries \subseteq AnyEntry
  /\ Rewrites \subseteq Seq(Entries) /\ \A list \in Rewrites : Len(list) <= MaxLength
  /\ AreOptions(GlobalOptions)
  /\ \A p \in Projects :
       AreOptions(ProjectOptions[p]) /\ \A r \in Repos : AreFilters(ProjectOptions[p].repos[r])
  /\ Jobs \in Nat \ {0} /\ "none" \notin Projects
  /\ {MaxLength, MaxRuns, MaxEdits, MaxTime} \subseteq Nat

VARIABLES
  config,    \* [Projects -> Seq(Entries) or Torn], on disk
  remote,    \* [Repos -> Remotes], the repositories
  now,       \* the time
  pc,        \* of the one process
  request,   \* its command line
  read,      \* [Projects -> Seq(Entries)], configurations as they were loaded
  target,    \* what is asked for each of their entries
  fetched,   \* [Repos -> Fetches], clones in temporary directories
  results,   \* [Targets -> Revision], for the targets that were evaluated
  plan,      \* [Projects -> sequences of revisions], project_updates
  writing,   \* the project that is being written, or "none"
  buffer,    \* what is going to be written
  todo,      \* projects that remain to be written
  exit,
  edited,    \* history: projects somebody edited since they were loaded
  runs, edits

vars == <<config, remote, now, pc, request, read, target, fetched, results, plan, writing, buffer, todo,
          exit, edited, runs, edits>>
outside == <<remote, now, edited, edits>>

Torn == <<NoRevision>>  \* a file that was truncated
Waiting == [is |-> "waiting", at |-> 0]
Lists == UNION {[1..n -> Entries] : n \in 0..MaxLength}
Empty == [p \in Projects |-> <<>>]

\* UpdateSettings::resolve: the first of these that is given.
First(options, default) ==
  IF \E i \in DOMAIN options : options[i] # {}
  THEN LET i == CHOOSE k \in DOMAIN options : options[k] # {} /\ \A j \in 1..k - 1 : options[j] = {}
       IN CHOOSE v \in options[i] : TRUE
  ELSE default

Cooldown(r, p) == First(<<r.cooldown, ProjectOptions[p].cooldown, GlobalOptions.cooldown>>, 0)
Freeze(r, p) == r.freeze \/ First(<<ProjectOptions[p].freeze, GlobalOptions.freeze>>, FALSE)

\* TagFilterOptions::resolve
FilterOf(r, p, repo) ==
  LET own == ProjectOptions[p]
      include == First(<<r.including[repo], r.include, own.repos[repo].include, own.include,
                         GlobalOptions.include>>, Tags)
      exclude == First(<<r.exclude, own.repos[repo].exclude, own.exclude, GlobalOptions.exclude>>, {})
  IN include \ (exclude \cup r.excluding[repo])

\* Faulty: usages with other hooks share a target.
TargetOfAny(r, p, e) ==
  [repo |-> e.repo, rev |-> e.rev, hooks |-> {}, cooldown |-> Cooldown(r, p),
   freeze |-> Freeze(r, p), tags |-> FilterOf(r, p, e.repo)]

\* RepoTargetKey: usages that agree in all of it share one evaluation.
TargetOf(r, p, e) ==
  [repo |-> e.repo, rev |-> e.rev, hooks |-> e.hooks, cooldown |-> Cooldown(r, p),
   freeze |-> Freeze(r, p), tags |-> FilterOf(r, p, e.repo)]

UsagesOf(lists) == {u \in Projects \X (1..MaxLength) : u[2] \in DOMAIN lists[u[1]]}
EntryOf(lists, u) == lists[u[1]][u[2]]
Usages == DOMAIN target
Entry(u) == EntryOf(read, u)
Selected(u) == Entry(u).repo \in request.repos
Targets == {target[u] : u \in {v \in Usages : Selected(v)}}
TargetsOf(r) == {t \in Targets : t.repo = r}

Running == pc \notin {"idle", "ended"}
Loaded == {p \in Projects : config[p] # Torn}

Init ==
  /\ config \in [Projects -> Lists]
  /\ remote \in [Repos -> Remotes]
  /\ now \in 0..MaxTime
  /\ pc = "idle" /\ request \in Requests /\ exit = "none"
  /\ read = Empty /\ plan = Empty /\ target = [u \in {} |-> NoRevision]
  /\ fetched = [r \in Repos |-> Waiting]
  /\ results = [t \in {} |-> NoRevision]
  /\ writing = "none" /\ buffer = <<>> /\ todo = {}
  /\ edited = {} /\ runs = 0 /\ edits = 0

-----------------------------------------------------------------------------
(***************************************************************************)
(* The command.                                                            *)
(***************************************************************************)

\* discover and collect_repo_sources.  A configuration that does not load is an error.
Collect ==
  /\ ~Running /\ runs < MaxRuns /\ runs' = runs + 1
  /\ request' \in Requests
  /\ fetched' = [r \in Repos |-> Waiting]
  /\ results' = [t \in {} |-> NoRevision]
  /\ plan' = Empty /\ edited' = {}
  /\ IF Loaded = Projects THEN read' = config /\ pc' = "fetch" /\ exit' = "none"
     ELSE read' = Empty /\ pc' = "ended" /\ exit' = "error"
  /\ target' = [u \in UsagesOf(read') |-> TargetOf(request', u[1], EntryOf(read', u))]
  /\ UNCHANGED <<config, remote, now, writing, buffer, todo, edits>>

\* evaluate_repo_source, begins: a repository with targets is cloned, or it fails.
Fetch(r) ==
  /\ pc = "fetch" /\ fetched[r].is = "waiting" /\ TargetsOf(r) # {}
  /\ Cardinality({s \in Repos : fetched[s].is = "fetched"}) < Jobs
  /\ \/ fetched' = [fetched EXCEPT ![r] = [is |-> "fetched", at |-> now, has |-> remote[r]]] /\ UNCHANGED results
     \/ /\ fetched' = [fetched EXCEPT ![r] = [is |-> "failed", at |-> now]]
        /\ results' = [t \in DOMAIN results \cup TargetsOf(r) |-> IF t.repo = r THEN Failed ELSE results[t]]
  /\ UNCHANGED <<config, pc, request, read, target, plan, writing, buffer, todo, exit, runs, outside>>

\* evaluate_repo_source, ends: its targets one by one; what was not fetched with the clone is
\* fetched now, or fails.
Evaluate(r) ==
  /\ pc = "fetch" /\ fetched[r].is = "fetched"
  /\ fetched' = [fetched EXCEPT ![r].is = "evaluated", ![r].at = now]
  /\ \E lost \in SUBSET TargetsOf(r),
        choice \in [TargetsOf(r) -> UNION {Selections(fetched[r].has, t, request.edge, now) : t \in TargetsOf(r)}] :
       /\ \A t \in TargetsOf(r) : choice[t] \in Selections(fetched[r].has, t, request.edge, now)
       /\ results' = [t \in DOMAIN results \cup TargetsOf(r) |->
            IF t.repo # r THEN results[t]
            ELSE IF t \in lost THEN Failed ELSE Evaluated(fetched[r].has, t, choice[t])]
  /\ UNCHANGED <<config, pc, request, read, target, plan, writing, buffer, todo, exit, runs, outside>>

\* What apply_repo_updates records for a usage.
Recorded(u) ==
  LET e == Entry(u)
      result == results[target[u]]
      frozen == FrozenFor(fetched[e.repo].has, e.rev, e.frozen)
  IN IF ~Selected(u) \/ result = Failed THEN NoRevision
     ELSE IF result.rev # e.rev THEN result
     ELSE IF frozen # e.frozen THEN Revision(e.rev, frozen)
     ELSE NoRevision

Failures == \E t \in DOMAIN results : results[t] = Failed
Planned(p) == \E i \in DOMAIN plan[p] : plan[p][i] # NoRevision

\* Faulty: a failure is not told when something else is updated.
ResultUnlessUpdated ==
  IF \E p \in Projects : Planned(p) THEN IF request.code THEN "failure" ELSE "success"
  ELSE IF Failures THEN "failure" ELSE "success"

Result ==
  IF Failures \/ (request.code /\ \E p \in Projects : Planned(p)) THEN "failure" ELSE "success"

Apply ==
  /\ pc = "fetch" /\ \A r \in Repos : TargetsOf(r) # {} => fetched[r].is \in {"failed", "evaluated"}
  /\ plan' = [p \in Projects |-> [i \in DOMAIN read[p] |-> Recorded(<<p, i>>)]]
  /\ pc' = "write"
  /\ todo' = IF request.dry THEN {} ELSE {p \in Projects : \E i \in DOMAIN plan'[p] : plan'[p][i] # NoRevision}
  /\ UNCHANGED <<config, request, read, target, fetched, results, writing, buffer, exit, runs, outside>>

\* The rev and the comment of an entry, rewritten.
Rewritten(e, revision) ==
  IF revision = NoRevision THEN e ELSE [e EXCEPT !.rev = revision.rev, !.frozen = revision.frozen]

\* Faulty: revisions are written to the entries that need one, in order.
MergedCompactly(entries, revisions) ==
  LET some == SelectSeq(revisions, LAMBDA revision : revision # NoRevision)
  IN [i \in DOMAIN entries |-> Rewritten(entries[i], IF i <= Len(some) THEN some[i] ELSE NoRevision)]

Merged(entries, revisions) ==
  [i \in DOMAIN entries |-> Rewritten(entries[i], revisions[i])]

\* write_new_config reads the file again and refuses one with another number of entries;
\* this, or an error of the file system, ends the command.
Read(p) ==
  /\ pc = "write" /\ p \in todo
  /\ IF config[p] # Torn /\ Len(config[p]) = Len(plan[p])
     THEN writing' = p /\ buffer' = Merged(config[p], plan[p]) /\ pc' = "truncate" /\ UNCHANGED exit
     ELSE pc' = "ended" /\ exit' = "error" /\ UNCHANGED <<writing, buffer>>
  /\ UNCHANGED <<config, request, read, target, fetched, results, plan, todo, runs, outside>>

\* fs::write truncates the file and then writes it.
Truncate ==
  /\ pc = "truncate" /\ pc' = "fill"
  /\ config' = [config EXCEPT ![writing] = Torn]
  /\ UNCHANGED <<request, read, target, fetched, results, plan, writing, buffer, todo, exit, runs, outside>>

Write ==
  /\ pc = "fill" /\ pc' = "write"
  /\ config' = [config EXCEPT ![writing] = buffer]
  /\ todo' = todo \ {writing} /\ writing' = "none" /\ buffer' = <<>>
  /\ UNCHANGED <<request, read, target, fetched, results, plan, exit, runs, outside>>

Return ==
  /\ pc = "write" /\ todo = {}
  /\ pc' = "ended" /\ exit' = Result
  /\ UNCHANGED <<config, request, read, target, fetched, results, plan, writing, buffer, todo, runs, outside>>

\* A signal, or a file system that fails.
Kill ==
  /\ Running
  /\ pc' = "ended" /\ exit' = "error" /\ writing' = "none" /\ buffer' = <<>> /\ todo' = {}
  /\ UNCHANGED <<config, request, read, target, fetched, results, plan, runs, outside>>

-----------------------------------------------------------------------------
(***************************************************************************)
(* Others.  What they do while no command runs is in the initial states.   *)
(***************************************************************************)
others == <<pc, request, read, target, fetched, results, plan, writing, buffer, todo, exit, runs>>

\* The owner of a repository pushes: tags appear, move and disappear.
Push(r) ==
  /\ Running /\ edits < MaxEdits /\ edits' = edits + 1
  /\ remote' \in {[remote EXCEPT ![r] = R] : R \in Remotes \ {remote[r]}}
  /\ UNCHANGED <<config, now, edited, others>>

\* The user adds, removes or changes entries, or restores the file; not in the moment in
\* which it is empty.
UserEdits(p) ==
  /\ Running /\ ~(pc = "fill" /\ writing = p)
  /\ edits < MaxEdits /\ edits' = edits + 1
  /\ config' \in {[config EXCEPT ![p] = list] : list \in Rewrites \ {config[p]}}
  /\ edited' = edited \cup {p}
  /\ UNCHANGED <<remote, now, others>>

TimePasses ==
  /\ Running /\ now < MaxTime /\ now' = now + 1
  /\ UNCHANGED <<config, remote, edited, edits, others>>

Step ==
  \/ Collect \/ Apply \/ Truncate \/ Write \/ Return
  \/ \E r \in Repos : Fetch(r) \/ Evaluate(r)
  \/ \E p \in Projects : Read(p)

Outside == (\E r \in Repos : Push(r)) \/ (\E p \in Projects : UserEdits(p)) \/ TimePasses

Next == Step \/ Kill \/ Outside

Spec == Init /\ [][Next]_vars

-----------------------------------------------------------------------------
(***************************************************************************)
(* Properties.                                                             *)
(***************************************************************************)

\* Every variable has its type; revisions are planned for entries that were read, and are
\* revisions.
TypeOK ==
  /\ \A p \in Projects : config[p] = Torn \/ config[p] \in Seq(AnyEntry)
  /\ DOMAIN config = Projects /\ remote \in [Repos -> Remotes] /\ now \in 0..MaxTime
  /\ pc \in {"idle", "fetch", "write", "truncate", "fill", "ended"}
  /\ request \in Requests /\ read \in [Projects -> Seq(AnyEntry)]
  /\ \A r \in Repos : fetched[r].is \in {"waiting", "failed", "fetched", "evaluated"}
  /\ Usages = UsagesOf(read) /\ DOMAIN results \subseteq Targets
  /\ \A p \in Projects : \A i \in DOMAIN plan[p] :
       i \in DOMAIN read[p] /\ plan[p][i].rev \in Tags \cup Commits \cup {"none"}
  /\ writing \in Projects \cup {"none"} /\ todo \subseteq Projects /\ edited \subseteq Projects
  /\ exit \in {"none", "success", "failure", "error"} /\ runs \in 0..MaxRuns /\ edits \in 0..MaxEdits

PlannedUsages == {u \in Usages : u[2] \in DOMAIN plan[u[1]] /\ plan[u[1]][u[2]] # NoRevision}
PlanOf(u) == plan[u[1]][u[2]]
FetchedFor(u) == fetched[Entry(u).repo].has
CommitOf(u) == Resolve(FetchedFor(u), PlanOf(u).rev)

\* Though repositories are fetched once for all projects and in any order, an entry gets
\* only what its own project's options allow: a commit with its hooks, and with a tag that
\* its filters leave and that is old enough, or the head, unless a cooldown keeps it at its
\* commit; pinned if asked, beside a tag of that commit.
OwnSelection ==
  \A u \in PlannedUsages :
    LET p == u[1]
        R == FetchedFor(u)
        new == PlanOf(u)
    IN /\ Selected(u)
       /\ new.rev # Entry(u).rev =>
            /\ Manifest[CommitOf(u)] # {} /\ Entry(u).hooks \subseteq Manifest[CommitOf(u)]
            /\ IF request.edge THEN CommitOf(u) = R.head
               ELSE \/ Cooldown(request, p) > 0 /\ CommitOf(u) = Resolve(R, Entry(u).rev)
                    \/ \E t \in TagsAt(R, FilterOf(request, p, Entry(u).repo), CommitOf(u)) :
                         R.tags[t].time <= Monus(fetched[Entry(u).repo].at, Cooldown(request, p))
            /\ Freeze(request, p) => new.rev \in Commits
       /\ new.frozen # "none" => new.rev \in Commits /\ Resolve(R, new.frozen) = new.rev

\* With a cooldown no entry goes back from a tag to a commit whose tags are all older.
NeverDowngrades ==
  \A u \in PlannedUsages :
    LET R == FetchedFor(u)
        tag == CurrentTag(R, Entry(u).rev)
    IN Cooldown(request, u[1]) > 0 /\ ~request.edge /\ tag # "none" =>
         \E t \in TagsAt(R, Tags, CommitOf(u)) : t = tag \/ ~SortsNewer(R, tag, t)

\* The list has the planned revisions, each in its place, and nothing else that is new.
HasPlan(list, p) ==
  /\ DOMAIN list = DOMAIN read[p]
  /\ \A i \in DOMAIN list :
       /\ list[i].repo = read[p][i].repo /\ list[i].hooks = read[p][i].hooks
       /\ IF plan[p][i] = NoRevision THEN list[i] = read[p][i]
          ELSE Revision(list[i].rev, list[i].frozen) = plan[p][i]

\* A configuration that nobody else edits is written as planned or not at all; if the
\* update ends without an error or a kill, all are written, unless it is dry; only a kill
\* leaves one empty.
WritesAsPlanned ==
  read # Empty => \A p \in Projects \ edited :
    /\ config[p] = Torn => ~request.dry /\ (exit = "error" \/ (pc = "fill" /\ writing = p))
    /\ config[p] \notin {Torn, read[p]} => pc # "fetch" /\ ~request.dry /\ HasPlan(config[p], p)
    /\ exit \in {"success", "failure"} /\ ~request.dry => HasPlan(config[p], p)

\* A success means that the same update, of what was fetched, may find nothing to do; with
\* --exit-code also if it is dry.
SuccessMeansCurrent ==
  exit = "success" /\ (~request.dry \/ request.code) =>
    \A u \in {v \in Usages : Selected(v) /\ v[1] \notin edited} :
      LET e == config[u[1]][u[2]]
          R == FetchedFor(u)
          asked == TargetOf(request, u[1], e)
      IN /\ fetched[e.repo].is = "evaluated" /\ results[target[u]] # Failed
         /\ FrozenFor(R, e.rev, e.frozen) = e.frozen
         /\ \E s \in Selections(R, asked, request.edge, fetched[e.repo].at) :
              Evaluated(R, asked, s).rev = e.rev

=============================================================================
