---------------------------- MODULE MCWorkspace ----------------------------
(***************************************************************************)
(* The root, a directory and one below it.  A single command meets every   *)
(* configuration and request; more commands, or changes of the files, meet *)
(* the few that differ in what is discovered.                              *)
(***************************************************************************)
EXTENDS Workspace, TLC

CONSTANTS p1, p2, top, a, ab, ftop, fa, fab

MCAbove == top :> {top} @@ a :> {top, a} @@ ab :> {top, a, ab}
MCDirOf == ftop :> top @@ fa :> a @@ fab :> ab

MCTags == [f \in Files |-> IF f = ftop THEN {"file", "text"} ELSE {"file", "text", "python"}]
MCNameTags == [f \in Files |-> IF f = fa THEN {"text", "python"} ELSE {}]

Hook(id, alias, manifest, groups, stages, matches) ==
  [id |-> id, alias |-> alias, manifest |-> manifest, groups |-> groups, stages |-> stages,
   matches |-> matches, exclude |-> {}, types |-> {"file"}, always |-> FALSE, names |-> TRUE,
   deletes |-> FALSE, env |-> TRUE, fails |-> FALSE]
Always(h, names) == [h EXCEPT !.always = TRUE, !.names = names]
Deleting(h) == [h EXCEPT !.deletes = TRUE]
Excluding(h, files, types) == [h EXCEPT !.exclude = files, !.types = types]
Local(hooks) == [remote |-> FALSE, hooks |-> hooks]
Remote(hooks) == [remote |-> TRUE, hooks |-> hooks]
Project(orphan, matches, exclude, repos) ==
  [orphan |-> orphan, matches |-> matches, exclude |-> exclude, repos |-> repos]

Plain == Project(FALSE, Files, {}, {Local({Always(Hook("x", "none", "none", {}, {"pre-commit"}, Files), FALSE)})})
Orphan == [Plain EXCEPT !.orphan = TRUE]
Simple == {Plain, Orphan}

MCConfigs == Simple \cup {
  \* an orphan project whose own filter leaves a file out; a hook the manifest names
  Project(TRUE, Files, {fab}, {Remote({Deleting(Hook("x", "none", "m", {"g"}, {"pre-commit"}, {fa}))})}),
  \* a hook by its own alias, in two groups, beside one for messages
  Project(FALSE, Files, {}, {Remote({Excluding(Hook("x", "y", "m", {"g", "k"}, {"manual", "post-commit"}, Files), {fab}, {"text"}),
                                     Hook("z", "none", "none", {"g"}, MessageStages, Files \cup {Message})})}),
  \* local and remote hooks, one called like the other's name in the manifest
  Project(FALSE, {fa, fab}, {ftop}, {Local({Always(Hook("m", "none", "none", {"k"}, {"pre-commit", "manual"}, {fa, fab}), TRUE)}),
                                     Remote({Excluding(Hook("y", "none", "m", {}, {"pre-commit", "commit-msg"}, Files),
                                                       {fa}, {"python"})})}) }

Commit == [kind |-> "default", changed |-> {ftop, fab}, deleted |-> {fa}, tracked |-> {ftop, fab},
           present |-> {ftop, fab}, conflicts |-> {}, named |-> {}, globs |-> {}, dirs |-> {}]
Everything == [Commit EXCEPT !.kind = "all", !.tracked = Files]
Merge == [Commit EXCEPT !.kind = "merge", !.conflicts = {ftop, fa}]
Revisions == [Commit EXCEPT !.kind = "diff", !.changed = {fa, fab}, !.deleted = {ftop}, !.present = {fa}, !.tracked = {fa}]
Explicit(named, globs, dirs) ==
  [Everything EXCEPT !.kind = "explicit", !.named = named, !.globs = globs, !.dirs = dirs]

All == [includes |-> {}, skips |-> {}, any |-> {}, all |-> {}, none |-> {}, stage |-> "none", input |-> Commit]
Over(input, r) == [r EXCEPT !.input = input]
Include(s) == [All EXCEPT !.includes = s]
Skip(s) == [All EXCEPT !.skips = s]
Few == {All, Skip({ProjectPrefix(a)})}

MCRequests == Few \cup {
  Over(Everything, Include({ProjectPrefix(a)})),  Over(Merge, Include({HookId("x")})),
  Include({HookId("m")}), Over(Revisions, Include({HookId("q"), ProjectHook(a, "x")})),
  Over(Explicit({fa, fab}, {}, {}), Include({ProjectHook(a, "y"), ProjectPrefix(ab)})),
  Over(Everything, Include({ProjectHook(top, "m")})),
  Over(Revisions, Skip({HookId("x"), ProjectPrefix(ab)})), Skip({HookId("m")}),
  Over(Merge, Skip({ProjectHook(a, "m"), HookId("q")})),
  [All EXCEPT !.includes = {HookId("m"), HookId("x")}, !.skips = {ProjectPrefix(a), ProjectHook(top, "x")}],
  Over(Explicit({}, {ftop}, {a}), [All EXCEPT !.includes = {ProjectPrefix(a)}, !.skips = {ProjectPrefix(top)}]),
  Over(Everything, [All EXCEPT !.any = {"k"}]), [All EXCEPT !.all = {"g", "k"}],
  Over(Everything, [All EXCEPT !.none = {"g"}]),
  Over(Merge, [All EXCEPT !.any = {"g", "@ungrouped"}, !.skips = {HookId("x")}]),
  [All EXCEPT !.stage = "commit-msg"], [All EXCEPT !.stage = "post-commit"],
  Over(Explicit({}, {fab}, {}), [All EXCEPT !.stage = "manual", !.includes = {HookId("x")}]) }

\* Either commands and changes follow each other over simple configurations, or the last
\* command meets any.
SimpleFiles == \A d \in Dirs : Good(d) => file[d].says \in Simple
OrdinaryFiles ==
  /\ \A d \in Dirs : file[d].says \in {Plain, None}
  /\ ~Broken(top) /\ ~Broken(ab) /\ (Present(top) \/ Good(a))

SomeInit ==
  /\ ignored = {}
  /\ cwd = [p \in Commands |-> top] /\ root = [p \in Commands |-> top]
  /\ request = [p \in Commands |-> All]
  /\ Init
  /\ \/ OrdinaryFiles /\ starts = 0 /\ edits = 0
     \/ ~SimpleFiles /\ starts = MaxStarts - 1 /\ edits = MaxEdits
SomeSpec == SomeInit /\ [][Next]_vars

Asked(p) == <<cwd[p], request[p], refresh[p]>>
Bound ==
  /\ \A p \in Commands :
       /\ refresh[p] => request[p] = All
       /\ SimpleFiles => /\ request[p] \in Few
                         /\ cwd[p] \in IF request[p] = All /\ ~refresh[p] THEN {top, a} ELSE {top}
  /\ SimpleFiles => Asked(p1) = Asked(p2) \/ \E p \in Commands : Asked(p) = <<top, All, FALSE>>

Symmetry == Permutations(Commands)
=============================================================================
