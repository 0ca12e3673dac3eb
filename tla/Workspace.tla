------------------------------ MODULE Workspace ------------------------------
(***************************************************************************)
(* Discovery of the projects of a workspace and its cache (workspace.rs),  *)
(* with `prek init` (cli/init.rs), which adds a project.                   *)
(*                                                                         *)
(* A root has one cache file, read and written without a lock by every     *)
(* command.  It lists configuration files with their modification times    *)
(* and sizes; their contents are always read again.                        *)
(***************************************************************************)
EXTENDS RunInputs

CONSTANTS
  Commands,   \* processes that discover a workspace
  Configs,    \* contents of a configuration file that loads
  Rewrites,   \* those of them that a change may write
  Requests,   \* what a command may be asked: selectors, groups, a stage
  MaxStarts,  \* bound on commands
  MaxEdits    \* bound on changes by the user and by `prek init`

VARIABLES
  file,     \* [Dirs -> Contents], configuration files
  ignored,  \* directories named by .prekignore and the like
  cache,    \* [Dirs -> Caches], by workspace root
  pc,       \* [Commands -> Places]
  cwd,      \* [Commands -> Dirs]
  request,  \* [Commands -> Requests]
  refresh,  \* [Commands -> BOOLEAN], --refresh
  root,     \* [Commands -> Dirs]
  found,    \* [Commands -> Workspaces], all_projects
  pending,  \* [Commands -> Caches], the cache to be written
  calm,     \* history: [Commands -> BOOLEAN], nobody has changed a file since it began
  made,     \* history: projects that `prek init` made or found while no command was running,
            \* since when the user added, repaired or ignored nothing
  starts, edits

ASSUME WorkspaceAssumption ==
  /\ Rewrites \subseteq Configs /\ \A c \in Configs : IsConfig(c)
  /\ \A r \in Requests :
       /\ \A s \in r.includes \cup r.skips : s.kind \in {"hook", "prefix", "both"}
       /\ DOMAIN r = {"includes", "skips", "any", "all", "none", "stage", "input"} /\ IsInput(r.input)
  /\ MaxStarts \in Nat /\ MaxEdits \in Nat

vars == <<file, ignored, cache, pc, cwd, request, refresh, root, found, pending,
          calm, made, starts, edits>>
disk == <<file, ignored, made, edits>>
asked == <<cwd, request, refresh, starts>>

None == [orphan |-> FALSE, matches |-> {}, exclude |-> {}, repos |-> {}]
\* file[d] is a record of what is there and, if it loads, of what it says.
Good(d) == file[d].is = "good"
Broken(d) == file[d].is = "broken"
Present(d) == file[d].is # "none"
FilesOf(contents) == [is : {"good"}, says : contents] \cup [is : {"none", "broken"}, says : {None}]
FileStates == FilesOf(Configs)

\* changed: listed files whose time or size is not what the cache says; old: an hour has
\* passed.  History: something below the root was added, repaired or ignored since the
\* walk, or a broken project was left out by it.
NoCache == [is |-> "none", list |-> {}, changed |-> {}, old |-> FALSE, outgrown |-> FALSE]
Torn == [NoCache EXCEPT !.is = "torn"]
Filled(list, outgrown) == [NoCache EXCEPT !.is = "filled", !.list = list, !.outgrown = outgrown]
Caches == [is : {"none", "torn", "filled"}, list : SUBSET Dirs, changed : SUBSET Dirs,
           old : BOOLEAN, outgrown : BOOLEAN]

Places == {"idle", "root", "load", "restore", "walk", "truncate", "write", "select", "done", "error"}
Ended == {"idle", "done", "error"}
Workspaces == UNION {[list -> Configs] : list \in SUBSET Dirs}
NoProjects == [d \in {} |-> None]

Init ==
  /\ file \in [Dirs -> FileStates]
  /\ ignored \in SUBSET Dirs
  /\ cache = [d \in Dirs |-> NoCache]
  /\ pc = [p \in Commands |-> "idle"]
  /\ cwd \in [Commands -> Dirs]
  /\ request \in [Commands -> Requests]
  /\ refresh = [p \in Commands |-> FALSE]
  /\ root \in [Commands -> Dirs]
  /\ found = [p \in Commands |-> NoProjects]
  /\ pending = [p \in Commands |-> NoCache]
  /\ calm = [p \in Commands |-> FALSE]
  /\ made = {} /\ starts \in 0..MaxStarts /\ edits \in 0..MaxEdits

Go(p, place) == pc' = [pc EXCEPT ![p] = place]

-----------------------------------------------------------------------------
(***************************************************************************)
(* The commands.                                                           *)
(***************************************************************************)
Start(p) ==
  /\ pc[p] \in Ended /\ starts < MaxStarts /\ starts' = starts + 1
  /\ Go(p, "root")
  /\ \E d \in Dirs : cwd' = [cwd EXCEPT ![p] = d]
  /\ \E r \in Requests : request' = [request EXCEPT ![p] = r]
  /\ \E b \in BOOLEAN : refresh' = [refresh EXCEPT ![p] = b]
  /\ calm' = [calm EXCEPT ![p] = TRUE]
  /\ found' = [found EXCEPT ![p] = NoProjects]
  /\ pending' = [pending EXCEPT ![p] = NoCache]
  /\ UNCHANGED <<disk, cache, root>>

\* find_root: the nearest directory upwards with a configuration file.
Nearest(d) ==
  {e \in Above[d] : Present(e) /\ \A x \in Above[d] : Present(x) => Depth(x) <= Depth(e)}

FindRoot(p) ==
  /\ pc[p] = "root"
  /\ IF Nearest(cwd[p]) = {} THEN Go(p, "error") /\ UNCHANGED root
     ELSE /\ \E d \in Nearest(cwd[p]) : root' = [root EXCEPT ![p] = d]
          /\ Go(p, IF refresh[p] THEN "walk" ELSE "load")
  /\ UNCHANGED <<disk, cache, asked, found, pending, calm>>

\* WorkspaceCache::is_valid
Valid(c) == c.is = "filled" /\ ~c.old /\ c.changed = {} /\ \A d \in c.list : Present(d)

\* WorkspaceCache::load removes what it cannot use.
Load(p) ==
  /\ pc[p] = "load"
  /\ IF Valid(cache[root[p]])
     THEN /\ pending' = [pending EXCEPT ![p] = cache[root[p]]]
          /\ Go(p, "restore") /\ UNCHANGED cache
     ELSE /\ cache' = [cache EXCEPT ![root[p]] = NoCache]
          /\ Go(p, "walk") /\ UNCHANGED pending
  /\ UNCHANGED <<disk, asked, root, found, calm>>

\* Faulty: a listed configuration that does not load is left out.
RestoreSome(p) ==
  /\ pc[p] = "restore"
  /\ found' = [found EXCEPT ![p] = [d \in {e \in pending[p].list : Good(e)} |-> file[d].says]]
  /\ Go(p, "select")
  /\ UNCHANGED <<disk, cache, asked, root, pending, calm>>

\* Every listed configuration is read; if one does not load, all is discovered anew.
Restore(p) ==
  /\ pc[p] = "restore"
  /\ IF \A d \in pending[p].list : Good(d)
     THEN /\ found' = [found EXCEPT ![p] = [d \in pending[p].list |-> file[d].says]]
          /\ Go(p, "select") /\ UNCHANGED pending
     ELSE /\ pending' = [pending EXCEPT ![p] = NoCache]
          /\ Go(p, "walk") /\ UNCHANGED found
  /\ UNCHANGED <<disk, cache, asked, root, calm>>

\* Directories from the root down to d, without the root.
Below(top, d) == Above[d] \ Above[top]

\* The walk does not enter what is ignored, nor what is below a broken project.
Reached(top) ==
  {d \in Dirs : /\ top \in Above[d] /\ Below(top, d) \cap ignored = {}
                /\ \A e \in Above[d] \ {d} : top \in Above[e] => ~Broken(e)}

\* What discover_fresh gives: an error if a broken project is selected.
Fails(top, r) == \E d \in Reached(top) : Broken(d) /\ MatchesPath(r, d)

Projects(top) == {d \in Reached(top) : Good(d)}

\* discover_fresh and WorkspaceCache::new
Walk(p) ==
  /\ pc[p] = "walk"
  /\ IF Fails(root[p], request[p]) \/ Projects(root[p]) = {}
     THEN Go(p, "error") /\ UNCHANGED <<found, pending>>
     ELSE /\ found' = [found EXCEPT ![p] = [d \in Projects(root[p]) |-> file[d].says]]
          /\ pending' = [pending EXCEPT ![p] = Filled(Projects(root[p]), \E d \in Reached(root[p]) : Broken(d))]
          /\ Go(p, "truncate")
  /\ UNCHANGED <<disk, cache, asked, root, calm>>

\* fs::write truncates the file, or fails and changes nothing, and then writes it.
Truncate(p) ==
  /\ pc[p] = "truncate"
  /\ \/ /\ cache' = [cache EXCEPT ![root[p]] = Torn]
        /\ Go(p, "write") /\ UNCHANGED pending
     \/ /\ pending' = [pending EXCEPT ![p] = NoCache]
        /\ Go(p, "select") /\ UNCHANGED cache
  /\ UNCHANGED <<disk, asked, root, found, calm>>

Write(p) ==
  /\ pc[p] = "write"
  /\ cache' = [cache EXCEPT ![root[p]] = pending[p]]
  /\ pending' = [pending EXCEPT ![p] = NoCache]
  /\ Go(p, "select")
  /\ UNCHANGED <<disk, asked, root, found, calm>>

\* The rest of discover: no selected project is an error.
Select(p) ==
  /\ pc[p] = "select"
  /\ Go(p, IF \E d \in DOMAIN found[p] : MatchesPath(request[p], d) THEN "done" ELSE "error")
  /\ UNCHANGED <<disk, cache, asked, root, found, pending, calm>>

Kill(p) ==
  /\ pc[p] \notin Ended /\ Go(p, "error")
  /\ calm' = [calm EXCEPT ![p] = FALSE]
  /\ found' = [found EXCEPT ![p] = NoProjects]
  /\ pending' = [pending EXCEPT ![p] = NoCache]
  /\ UNCHANGED <<disk, cache, asked, root>>

-----------------------------------------------------------------------------
(***************************************************************************)
(* Changes by others.                                                      *)
(***************************************************************************)
Touched(c, d) == IF d \in c.list THEN [c EXCEPT !.changed = @ \cup {d}] ELSE c

\* The change at d grows what a walk from `top` may find.
Outgrown(c, top, d, grows) ==
  IF grows /\ c.is = "filled" /\ top \in Above[d] THEN [c EXCEPT !.outgrown = TRUE] ELSE c

Active == {p \in Commands : pc[p] \notin Ended}

Changing ==
  /\ edits < MaxEdits /\ edits' = edits + 1
  /\ calm' = [p \in Commands |-> FALSE]
  /\ UNCHANGED <<pc, asked, root, found>>

\* The user writes or removes a configuration file.  Its time and size tell, unless the
\* file system's clock is too coarse.
UserEdits ==
  /\ Changing
  /\ \E d \in Dirs, s \in FilesOf(Rewrites), told \in BOOLEAN :
       LET grows == ~Good(d)
           Change(c, top) == Outgrown(IF told THEN Touched(c, d) ELSE c, top, d, grows)
       IN /\ s # file[d] /\ file' = [file EXCEPT ![d] = s]
          /\ told \/ (Present(d) /\ s.is # "none")
          /\ cache' = [e \in Dirs |-> Change(cache[e], e)]
          /\ pending' = [p \in Commands |-> Change(pending[p], root[p])]
          /\ made' = IF grows THEN {} ELSE made \ {d}
  /\ UNCHANGED ignored

UserIgnores ==
  /\ Changing
  /\ ignored' \in SUBSET Dirs \ {ignored}
  /\ cache' = [e \in Dirs |-> Outgrown(cache[e], e, e, TRUE)]
  /\ pending' = [p \in Commands |-> Outgrown(pending[p], root[p], root[p], TRUE)]
  /\ made' = {} /\ UNCHANGED file

TimePasses ==
  /\ Changing
  /\ cache' = [d \in Dirs |-> [cache[d] EXCEPT !.old = @ \/ cache[d].is = "filled"]]
  /\ UNCHANGED <<file, ignored, made, pending>>

\* Faulty: only the cache of the outermost root is removed.
OutermostRoot(d) ==
  {e \in Above[d] \ {d} : Present(e) /\ \A x \in Above[d] : Present(x) => Depth(e) <= Depth(x)}

\* configured_project_roots, without the new project itself.
RootsAbove(d) == {e \in Above[d] \ {d} : Present(e)}

\* `prek init`: writes a configuration where there is none, is content with one that
\* loads, and removes the caches of the roots above.
InitProject ==
  /\ Changing
  /\ \E d \in Dirs, c \in Rewrites :
       /\ ~Broken(d)
       /\ file' = IF Good(d) THEN file ELSE [file EXCEPT ![d] = [is |-> "good", says |-> c]]
       /\ LET Added(k, top) == IF Good(d) THEN k ELSE Outgrown(Touched(k, d), top, d, TRUE)
          IN /\ cache' = [e \in Dirs |-> IF e \in RootsAbove(d) THEN NoCache ELSE Added(cache[e], e)]
             /\ pending' = [p \in Commands |-> Added(pending[p], root[p])]
       /\ made' = IF Active = {} THEN made \cup {d} ELSE made \ {d}
  /\ UNCHANGED ignored

Command(p) ==
  \/ Start(p) \/ FindRoot(p) \/ Load(p) \/ Restore(p) \/ Walk(p)
  \/ Truncate(p) \/ Write(p) \/ Select(p) \/ Kill(p)

Next == (\E p \in Commands : Command(p)) \/ UserEdits \/ UserIgnores \/ TimePasses \/ InitProject

Spec == Init /\ [][Next]_vars

-----------------------------------------------------------------------------
(***************************************************************************)
(* Properties.                                                             *)
(***************************************************************************)

\* Every variable has its type.
TypeOK ==
  /\ file \in [Dirs -> FileStates] /\ ignored \subseteq Dirs
  /\ cache \in [Dirs -> Caches] /\ pending \in [Commands -> Caches]
  /\ pc \in [Commands -> Places] /\ cwd \in [Commands -> Dirs]
  /\ request \in [Commands -> Requests] /\ refresh \in [Commands -> BOOLEAN]
  /\ root \in [Commands -> Dirs] /\ found \in [Commands -> Workspaces]
  /\ calm \in [Commands -> BOOLEAN] /\ made \subseteq Dirs
  /\ starts \in 0..MaxStarts /\ edits \in 0..MaxEdits

\* A command that nobody disturbed finds, from the cache as from a walk, exactly the
\* projects that are there, as they are now, and fails where a walk would, whatever was
\* edited or removed and whoever wrote the cache, unless something was added, repaired or ignored
\* below its root since the walk; with --refresh, always.
AsAWalk ==
  \A p \in Commands :
    calm[p] /\ pc[p] \in {"done", "error"} /\ Nearest(cwd[p]) # {} /\ ~pending[p].outgrown =>
      IF Fails(root[p], request[p]) THEN pc[p] = "error"
      ELSE /\ found[p] = [d \in Projects(root[p]) |-> file[d].says]
           /\ pc[p] = "error" => \A d \in Projects(root[p]) : ~MatchesPath(request[p], d)

\* The next command sees a project that `prek init` has added or found, if no command ran
\* meanwhile.  A command in a root may itself not be seen, if its configuration was removed while
\* another command walked it and is there again.
InitIsSeen ==
  \A p \in Commands : calm[p] /\ pc[p] = "done" /\ root[p] \in DOMAIN found[p] =>
    made \cap Projects(root[p]) \subseteq DOMAIN found[p]

\* The cache of WorkspaceCache never shows: a command finds what a walk finds, and what was
\* added by `prek init` in any case.
CacheIsTransparent == AsAWalk /\ InitIsSeen

\* A selector that is reported as unused can be left out.
UnusedHasNoEffect ==
  \A p \in Commands : pc[p] = "done" =>
    LET w == found[p]
        r == request[p]
        s == WithSelectors(r, Used(w, r))
    IN (r.includes = {}) = (s.includes = {}) => Run(w, s) = Run(w, r)

\* A hook that only handles commit messages is never run on files.
MessagesOnly ==
  \A p \in Commands : pc[p] = "done" /\ ~GetsMessage(found[p], request[p]) =>
    \A b \in Running(found[p], request[p]) :
      b.hook.stages = {} \/ ~(b.hook.stages \subseteq MessageStages)

\* The hooks that run are those the selectors and groups describe, though projects and
\* repositories are dropped before their hooks are known, and none that cannot take files;
\* and what is reported as unused has no part in it.
SelectionIsExact ==
  /\ \A p \in Commands : pc[p] = "done" => Run(found[p], request[p]) = Wanted(found[p], request[p])
  /\ MessagesOnly
  /\ UnusedHasNoEffect

\* A hook that runs has had its environment installed, and no other has; that the files are
\* sometimes not collected is not seen; and a file that is not there is given only to a hook that
\* asked for deleted ones, though they are collected for all.
InputsAgree(w, r, top) ==
  LET i == r.input
      hooks == Running(w, r)
      mode == Shortcut(w, r)
      files == Collected(w, top, r, mode)
      all == Collected(w, top, r, InputMode(w, r))
  IN /\ RunnableEnvHooks(w, i, mode, files, hooks) = {b \in Executed(w, i, mode, files, hooks) : b.hook.env}
     /\ \A b \in hooks :
          /\ RunInput(w, i, mode, files, b) = RunInput(w, i, InputMode(w, r), all, b)
          /\ \A e \in RunInput(w, i, mode, files, b).names :
               e.file \in i.present \cup {Message} \/ (b.hook.deletes /\ e.file \in i.deleted)

\* A hook that check-hooks-apply complains of gets no file of all, and an exclude that is
\* reported as useless can be dropped.
MetaHooksAgree(w, r, top) ==
  LET i == r.input
      files == Existing(i.tracked \cap FilesBelow(top))
      Gets(d, h) == Matching(w, i, files, [dir |-> d, hook |-> h])
  IN \A d \in DOMAIN w :
       /\ \A h \in CheckHooksApply(w, i, d) : Gets(d, h) = {}
       /\ \A h \in UselessExcludes(w, i, d) : Gets(d, [h EXCEPT !.exclude = {}]) = Gets(d, h)
       /\ UselessGlobalExclude(w, i, d) =>
            \A f \in i.tracked : Owners([w EXCEPT ![d].exclude = {}], f) = Owners(w, f)

\* Every project is given the files documented, though others are not selected, and what is
\* decided twice about them, when environments are installed and when hooks run, by the run and
\* by the meta hooks, is decided alike.
FilesByOwnership ==
  \A p \in Commands : pc[p] = "done" =>
    /\ \A f \in Files : Owners(found[p], f) = Eligible(found[p], f)
    /\ InputsAgree(found[p], request[p], root[p])
    /\ MetaHooksAgree(found[p], request[p], root[p])
=============================================================================
