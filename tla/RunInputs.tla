------------------------------ MODULE RunInputs ------------------------------
(***************************************************************************)
(* What the hooks of a run get: the files that are collected               *)
(* (collect_run_input), those of them that a hook's filter leaves, the     *)
(* hooks that need an environment for it and those that run; and the meta  *)
(* hooks, which say what a configuration leaves without effect.            *)
(*                                                                         *)
(* A request has an input, [kind, changed, deleted, tracked, present,      *)
(* conflicts, named, globs, dirs]: what git says of the commit or of two   *)
(* revisions, of the index and of the merge, which files are on disk, and  *)
(* the arguments.                                                          *)
(***************************************************************************)
EXTENDS Selection

CONSTANTS
  Tags,      \* [Files -> sets of tags], of a file on disk
  NameTags,  \* [Files -> sets of tags], of the name alone
  Message    \* the file with a commit's message

ASSUME TagsAssumption ==
  /\ DOMAIN Tags = Files /\ DOMAIN NameTags = Files /\ \A f \in Files : NameTags[f] \subseteq Tags[f]
  /\ Message \notin Files
MessageTags == {"file", "text"}

IsInput(i) ==
  /\ i.kind \in {"default", "diff", "merge", "explicit", "all"} /\ i.tracked \subseteq Files

(***************************************************************************)
(* collect_run_input                                                       *)
(***************************************************************************)
PostStages == {"post-checkout", "post-commit", "post-merge", "post-rewrite", "pre-rebase"}
InputMode(w, r) ==
  CASE GetsMessage(w, r) -> "message"
    [] Stage(w, r) \in PostStages -> "none"
    [] OTHER -> "files"

Existing(files) == {[file |-> f, deleted |-> FALSE] : f \in files}
Deleted(files) == {[file |-> f, deleted |-> TRUE] : f \in files}
FilesBelow(d) == {f \in Files : d \in Above[DirOf[f]]}

\* collect_explicit_files: arguments that exist, and what git knows below the directories or
\* of the patterns.
ExplicitFiles(i) ==
  (i.named \cap i.present) \cup (i.tracked \cap (i.globs \cup UNION {FilesBelow(d) : d \in i.dirs}))

\* collect_files_for_selection, and what is below the root of the workspace.
CollectFiles(top, i, deleted) ==
  LET files == CASE i.kind \in {"default", "diff"} -> Existing(i.changed) \cup IF deleted THEN Deleted(i.deleted) ELSE {}
                 [] i.kind = "merge" -> Existing(i.conflicts)
                 [] i.kind = "explicit" -> Existing(ExplicitFiles(i))
                 [] i.kind = "all" -> Existing(i.tracked)
  IN {e \in files : e.file \in FilesBelow(top)}

\* Faulty: nothing is collected if all hooks run always.
ShortcutForAlways(w, r) ==
  IF /\ InputMode(w, r) = "files" /\ r.input.kind \in {"default", "merge", "all"}
     /\ \A b \in Running(w, r) : b.hook.always
  THEN "none" ELSE InputMode(w, r)

\* Nothing is collected for hooks that run always and take no names.
Shortcut(w, r) ==
  IF /\ InputMode(w, r) = "files" /\ r.input.kind \in {"default", "merge", "all"}
     /\ \A b \in Running(w, r) : b.hook.always /\ ~b.hook.names
  THEN "none" ELSE InputMode(w, r)

Collected(w, top, r, mode) ==
  IF mode = "files" THEN CollectFiles(top, r.input, \E b \in Running(w, r) : b.hook.deletes) ELSE {}

-----------------------------------------------------------------------------
(***************************************************************************)
(* HookFileFilter, RunFileIndex and ProjectHookInput.                      *)
(***************************************************************************)
\* What is not on disk and was not deleted by the commit has no tags.
Identified(i, e) == e.deleted \/ e.file \in i.present
TagsOf(e) == IF e.deleted THEN {"file"} \cup NameTags[e.file] ELSE Tags[e.file]

\* Faulty: a deleted file is kept for a hook that did not ask for it.
PassesDeleted(h, i, e) ==
  e.file \in h.matches \ h.exclude /\ Identified(i, e) /\ h.types \subseteq TagsOf(e)

\* matches_project_file
Passes(h, i, e) ==
  /\ h.deletes \/ ~e.deleted
  /\ e.file \in h.matches \ h.exclude /\ Identified(i, e) /\ h.types \subseteq TagsOf(e)

ProjectFiles(w, files, d) == {e \in files : d \in Owners(w, e.file)}
Matching(w, i, files, b) == {e \in ProjectFiles(w, files, b.dir) : Passes(b.hook, i, e)}
MatchesMessage(h) == Message \in h.matches \ h.exclude /\ h.types \subseteq MessageTags

\* Faulty: an environment is installed only for what matches.
InstallMatching(w, i, mode, files, hooks) ==
  {b \in hooks : b.hook.env /\ IF mode = "message" THEN MatchesMessage(b.hook) ELSE Matching(w, i, files, b) # {}}

\* select_runnable_env_hooks
RunnableEnvHooks(w, i, mode, files, hooks) ==
  {b \in hooks : /\ b.hook.env
                 /\ \/ b.hook.always
                    \/ IF mode = "message" THEN MatchesMessage(b.hook) ELSE Matching(w, i, files, b) # {}}

\* run_input_for_hook
RunInput(w, i, mode, files, b) ==
  CASE mode = "message" ->
         [matched |-> MatchesMessage(b.hook),
          names |-> IF MatchesMessage(b.hook) /\ b.hook.names THEN Existing({Message}) ELSE {}]
    [] mode # "message" /\ ~b.hook.names ->
         [matched |-> b.hook.always \/ Matching(w, i, files, b) # {}, names |-> {}]
    [] mode # "message" /\ b.hook.names ->
         [matched |-> Matching(w, i, files, b) # {}, names |-> Matching(w, i, files, b)]

\* run_hook
Executed(w, i, mode, files, hooks) ==
  {b \in hooks : RunInput(w, i, mode, files, b).matched \/ b.hook.always}

-----------------------------------------------------------------------------
(***************************************************************************)
(* The meta hooks.  They take the files of their project that git knows,   *)
(* the nested projects' as well, and the project's own filter.             *)
(***************************************************************************)
HooksOf(w, d) == UNION {repo.hooks : repo \in w[d].repos}

\* Faulty: the files of nested projects are left out.
VisitWithoutNested(w, i, d) ==
  {f \in i.tracked \cap FilesBelow(d) : f \in Filter(w, d) /\ ~\E e \in DOMAIN w \ {d} : d \in Above[e] /\ f \in FilesBelow(e)}

VisitForProject(w, i, d) == {f \in i.tracked \cap FilesBelow(d) : f \in Filter(w, d)}
Fits(h, i, f) == f \in i.present /\ h.types \subseteq Tags[f]

\* check-hooks-apply: the hooks that it complains of.
CheckHooksApply(w, i, d) ==
  {h \in HooksOf(w, d) : /\ ~h.always /\ ~h.fails
                         /\ \A f \in VisitForProject(w, i, d) : f \notin h.matches \ h.exclude \/ ~Fits(h, i, f)}

\* check-useless-excludes: of hooks, and of the project.
UselessExcludes(w, i, d) ==
  {h \in HooksOf(w, d) : /\ h.exclude # {}
                         /\ \A f \in VisitForProject(w, i, d) : f \notin h.matches \cap h.exclude \/ ~Fits(h, i, f)}
UselessGlobalExclude(w, i, d) == w[d].exclude # {} /\ w[d].exclude \cap i.tracked \cap FilesBelow(d) = {}
=============================================================================
