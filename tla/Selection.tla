------------------------------ MODULE Selection ------------------------------
(***************************************************************************)
(* What a command does with the projects of a workspace: which hooks the   *)
(* selectors and groups leave (cli/run/selector.rs, the filters of         *)
(* workspace.rs and cli/run/run.rs), for which stage, and which files each *)
(* project owns (RunFileIndex of cli/run/filter.rs).                       *)
(*                                                                         *)
(* A workspace is a function from the directories of its projects to their *)
(* configurations; a configuration has repositories, which have hooks.     *)
(* Patterns are the sets of files they match.                              *)
(***************************************************************************)
EXTENDS Naturals, FiniteSets

CONSTANTS
  Dirs,    \* directories
  Above,   \* [Dirs -> SUBSET Dirs], the directories a path leads through, itself included
  Files,   \* candidate files
  DirOf    \* [Files -> Dirs]

ASSUME TreeAssumption ==
  /\ Above \in [Dirs -> SUBSET Dirs]
  /\ \A d \in Dirs : /\ d \in Above[d] /\ IsFiniteSet(Above[d])
                     /\ \A e \in Above[d] : Above[e] \subseteq Above[d]
  /\ DirOf \in [Files -> Dirs]

Depth(d) == Cardinality(Above[d])

(***************************************************************************)
(* A selector is an id, a project with its descendants, or both of a       *)
(* project and an id.  A hook has its id and an alias, which the           *)
(* configuration may give; else the manifest of a remote repository does.  *)
(***************************************************************************)
IsHook(h) ==
  /\ DOMAIN h = {"id", "alias", "manifest", "groups", "stages", "matches", "exclude", "types",
                 "always", "names", "deletes", "env", "fails"}
  /\ {h.always, h.names, h.deletes, h.env, h.fails} \subseteq BOOLEAN
IsConfig(c) ==
  /\ DOMAIN c = {"orphan", "matches", "exclude", "repos"} /\ c.orphan \in BOOLEAN
  /\ \A repo \in c.repos : repo.remote \in BOOLEAN /\ \A h \in repo.hooks : IsHook(h)

HookId(id) == [kind |-> "hook", path |-> "any", id |-> id]
ProjectPrefix(d) == [kind |-> "prefix", path |-> d, id |-> "any"]
ProjectHook(d, id) == [kind |-> "both", path |-> d, id |-> id]

ConfiguredNames(h) == {h.id, h.alias} \ {"none"}
Names(h) == {h.id, IF h.alias # "none" THEN h.alias ELSE h.manifest} \ {"none"}

Matches(s, d, names) ==
  CASE s.kind = "hook" -> s.id \in names
    [] s.kind = "prefix" -> s.path \in Above[d]
    [] s.kind = "both" -> s.path = d /\ s.id \in names

Skipped(r, d, names) == \E s \in r.skips : Matches(s, d, names)
Included(r, d, names) == r.includes = {} \/ \E s \in r.includes : Matches(s, d, names)

\* Selectors::matches_path, before any hook is known.
SkippedPath(r, d) == \E s \in r.skips : s.kind = "prefix" /\ s.path \in Above[d]
MatchesPath(r, d) ==
  /\ ~SkippedPath(r, d)
  /\ \/ r.includes = {}
     \/ \E s \in r.includes : \/ s.kind = "hook"
                              \/ s.kind = "prefix" /\ s.path \in Above[d]
                              \/ s.kind = "both" /\ s.path = d

\* GroupFilters::matches_groups; "@ungrouped" stands for hooks without groups.
GroupsOf(h) == IF h.groups = {} THEN {"@ungrouped"} ELSE h.groups
MatchesGroups(r, h) ==
  /\ r.any = {} \/ r.any \cap GroupsOf(h) # {}
  /\ r.all \subseteq GroupsOf(h)
  /\ r.none \cap GroupsOf(h) = {}

\* Faulty: include selectors are applied to what the configuration says.
KeepsIncludedOnly(r, d, h) ==
  ~Skipped(r, d, ConfiguredNames(h)) /\ Included(r, d, ConfiguredNames(h)) /\ MatchesGroups(r, h)

\* keeps_configured_hook: may the hook be wanted, as far as known before its
\* repository is cloned?
KeepsConfigured(r, d, h) == ~Skipped(r, d, ConfiguredNames(h)) /\ MatchesGroups(r, h)

\* ProjectInitPlan: the repositories whose hooks are initialized.
Planned(w, r, d) ==
  {repo \in w[d].repos : repo.remote => \E h \in repo.hooks : KeepsConfigured(r, d, h)}

\* Workspace::init_hooks, over the selected projects.
Built(w, r) ==
  UNION {{[dir |-> d, hook |-> h] : h \in UNION {repo.hooks : repo \in Planned(w, r, d)}} :
           d \in {e \in DOMAIN w : MatchesPath(r, e)}}

\* HookSelection::Selected
Run(w, r) == {b \in Built(w, r) : /\ Included(r, b.dir, Names(b.hook))
                                  /\ ~Skipped(r, b.dir, Names(b.hook))
                                  /\ MatchesGroups(r, b.hook)}

(***************************************************************************)
(* FilterUsage.  A project prefix is used by the path of a project, other  *)
(* selectors by a hook.                                                    *)
(***************************************************************************)
UsedByPaths(w, r) ==
  {s \in r.skips : s.kind = "prefix" /\ \E d \in DOMAIN w : s.path \in Above[d]}
    \cup {s \in r.includes : /\ s.kind = "prefix"
                             /\ \E d \in DOMAIN w : s.path \in Above[d] /\ ~SkippedPath(r, d)}

\* Faulty: no usage is recorded before a repository is cloned.
NotUsedUncloned(w, r) == {}

UsedUncloned(w, r) ==
  {s \in r.skips : \E d \in DOMAIN w : MatchesPath(r, d) /\
     \E repo \in w[d].repos \ Planned(w, r, d) : \E h \in repo.hooks :
        Matches(s, d, ConfiguredNames(h))}

UsedByHooks(w, r) ==
  {s \in r.skips \cup r.includes : \E b \in Built(w, r) : Matches(s, b.dir, Names(b.hook))}

Used(w, r) == UsedByPaths(w, r) \cup UsedUncloned(w, r) \cup UsedByHooks(w, r)

(***************************************************************************)
(* infer_stage_and_input_mode, and the hooks that are left for the stage.  *)
(***************************************************************************)
MessageStages == {"commit-msg", "prepare-commit-msg"}
Stage(w, r) ==
  CASE r.stage # "none" -> r.stage
    [] r.stage = "none" /\ r.any \cup r.all \cup r.none # {} -> "none"
    [] r.stage = "none" /\ r.any \cup r.all \cup r.none = {} ->
         IF /\ r.includes # {} /\ \A s \in r.includes : s.kind \in {"hook", "both"}
            /\ \A b \in Run(w, r) : "pre-commit" \notin b.hook.stages
         THEN "manual" ELSE "pre-commit"

GetsMessage(w, r) == Stage(w, r) \in MessageStages

\* Faulty: hooks for messages stay when a group is run.
RetainAll(stage, hook) == stage = "none" \/ stage \in hook.stages

Retain(stage, hook) ==
  IF stage = "none" THEN ~(hook.stages # {} /\ hook.stages \subseteq MessageStages)
  ELSE stage \in hook.stages

Running(w, r) == {b \in Run(w, r) : Retain(Stage(w, r), b.hook)}

(***************************************************************************)
(* RunFileIndex::new: the projects on the way to the file, from the leaf   *)
(* up; a project takes the files its own filter matches, and an orphan     *)
(* project hides the file from those above.                                *)
(***************************************************************************)

\* ProjectPathNode: the project at the n-th directory of the path, if there is one.
ProjectAt(w, f, n) == {d \in DOMAIN w : d \in Above[DirOf[f]] /\ Depth(d) = n}

\* FilenameFilter of a project.
Filter(w, d) == w[d].matches \ w[d].exclude

\* Faulty: an orphan project hides only the files its own filter matches.
TakeFiltered(w, f, here, above) ==
  {d \in here : f \in Filter(w, d)} \cup IF \E d \in here : w[d].orphan /\ f \in Filter(w, d) THEN {} ELSE above

Take(w, f, here, above) ==
  {d \in here : f \in Filter(w, d)} \cup IF \E d \in here : w[d].orphan THEN {} ELSE above

Owners(w, f) ==
  LET from[n \in 0..Depth(DirOf[f])] == IF n = 0 THEN {} ELSE Take(w, f, ProjectAt(w, f, n), from[n - 1])
  IN from[Depth(DirOf[f])]

-----------------------------------------------------------------------------
(***************************************************************************)
(* The documented meaning, without the order in which it is found.         *)
(***************************************************************************)
AllHooks(w) ==
  UNION {{[dir |-> d, hook |-> h] : h \in UNION {repo.hooks : repo \in w[d].repos}} : d \in DOMAIN w}

Wanted(w, r) ==
  {b \in AllHooks(w) : /\ Included(r, b.dir, Names(b.hook))
                       /\ ~Skipped(r, b.dir, Names(b.hook))
                       /\ MatchesGroups(r, b.hook)}

Eligible(w, f) ==
  {d \in DOMAIN w : /\ d \in Above[DirOf[f]] /\ f \in w[d].matches \ w[d].exclude
                    /\ \A e \in DOMAIN w : e \in Above[DirOf[f]] /\ Depth(e) > Depth(d) => ~w[e].orphan}

WithSelectors(r, kept) == [r EXCEPT !.includes = @ \cap kept, !.skips = @ \cap kept]
=============================================================================
