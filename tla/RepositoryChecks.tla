--------------------------- MODULE RepositoryChecks ---------------------------
(***************************************************************************)
(* The table of built-in hooks, and those of them that ask git: about      *)
(* paths, modes, objects, branches and commits.  A tree is a function from *)
(* paths to entries, [mode, content]; a repository has those of HEAD, the  *)
(* index and the worktree, and the one that a push starts from.            *)
(***************************************************************************)
EXTENDS TextChecks

CONSTANTS
  Paths,     \* of files and of the directories above them
  Parents,   \* [Paths -> SUBSET Paths]
  Folded,    \* [Paths -> names], to_lowercase
  Targets,   \* [contents of links -> Paths]
  Kilobyte,  \* bytes of one
  Illegal    \* paths that ILLEGAL_WINDOWS_PATTERN matches

ASSUME PathsAssumption ==
  /\ Parents \in [Paths -> SUBSET Paths] /\ DOMAIN Folded = Paths /\ Kilobyte \in Nat \ {0}
  /\ \A p \in Paths : \A q \in Parents[p] : Parents[q] \subseteq Parents[p]

-----------------------------------------------------------------------------
(***************************************************************************)
(* BuiltinHook::from_id.                                                   *)
(***************************************************************************)
Options == [types |-> {"file"}, files |-> "any", stages |-> {}, always |-> FALSE, filenames |-> TRUE]
Of(types) == [Options EXCEPT !.types = types]
Late == {"pre-commit", "pre-push", "manual"}
Staged(options) == [options EXCEPT !.stages = Late]
Always(stages) == [Options EXCEPT !.always = TRUE, !.filenames = FALSE, !.stages = stages]

BuiltinsToJsonc == [id \in {"check-added-large-files", "check-case-conflict", "check-executables-have-shebangs",
                            "check-illegal-windows-names", "check-json", "check-json5", "check-jsonc"} |->
  CASE id = "check-added-large-files" -> Staged(Options)
    [] id = "check-case-conflict" -> Options
    [] id = "check-executables-have-shebangs" -> Staged(Of({"executable", "text"}))
    [] id = "check-illegal-windows-names" -> [Options EXCEPT !.files = "illegal"]
    [] id = "check-json" -> Of({"json"})
    [] id = "check-json5" -> Of({"json5"})
    [] id = "check-jsonc" -> Of({"jsonc"})]

BuiltinsToYaml == [id \in {"check-merge-conflict", "check-shebang-scripts-are-executable", "check-signed-commit",
                           "check-symlinks", "check-toml", "check-vcs-permalinks", "check-xml", "check-yaml"} |->
  CASE id \in {"check-merge-conflict", "check-vcs-permalinks"} -> Of({"text"})
    [] id = "check-shebang-scripts-are-executable" -> Staged(Of({"text"}))
    [] id = "check-signed-commit" -> Always({"pre-push", "manual"})
    [] id = "check-symlinks" -> Of({"symlink"})
    [] id = "check-toml" -> Of({"toml"})
    [] id = "check-xml" -> Of({"xml"})
    [] id = "check-yaml" -> Of({"yaml"})]

BuiltinsToSubmodules == [id \in {"deny-filename-pattern", "deny-pattern", "destroyed-symlinks", "detect-private-key",
                                 "end-of-file-fixer", "file-contents-sorter", "fix-byte-order-marker",
                                 "forbid-new-submodules"} |->
  CASE id = "deny-filename-pattern" -> Options
    [] id \in {"deny-pattern", "detect-private-key", "fix-byte-order-marker"} -> Of({"text"})
    [] id = "destroyed-symlinks" -> Staged(Of({"file"}))
    [] id = "end-of-file-fixer" -> Staged(Of({"text"}))
    [] id = "file-contents-sorter" -> [Options EXCEPT !.files = "never"]
    [] id = "forbid-new-submodules" -> Of({"directory"})]

BuiltinsToWhitespace == [id \in {"mixed-line-ending", "no-commit-to-branch", "pretty-format-json",
                                 "require-filename-pattern", "require-pattern", "requirements-txt-fixer",
                                 "trailing-whitespace"} |->
  CASE id \in {"mixed-line-ending", "require-pattern"} -> Of({"text"})
    [] id = "no-commit-to-branch" -> Always({})
    [] id = "pretty-format-json" -> Staged(Of({"json"}))
    [] id = "require-filename-pattern" -> Options
    [] id = "requirements-txt-fixer" -> [Options EXCEPT !.files = "requirements"]
    [] id = "trailing-whitespace" -> Staged(Of({"text"}))]

BuiltinHook == BuiltinsToJsonc @@ BuiltinsToYaml @@ BuiltinsToSubmodules @@ BuiltinsToWhitespace

\* The hooks that are not run file by file.
AsksGit ==
  {"check-added-large-files", "check-case-conflict", "check-executables-have-shebangs",
   "check-illegal-windows-names", "check-shebang-scripts-are-executable", "check-signed-commit",
   "check-symlinks", "deny-filename-pattern", "destroyed-symlinks", "forbid-new-submodules",
   "no-commit-to-branch", "require-filename-pattern"}

-----------------------------------------------------------------------------
(***************************************************************************)
(* Git, and which paths a hook gets: those staged, those pushed or all.    *)
(***************************************************************************)
Changed(old, new) == {p \in DOMAIN new : p \notin DOMAIN old \/ old[p] # new[p]}

\* diff --diff-filter=A takes the same contents under another path for a renamed file.
Added(old, new) ==
  {p \in DOMAIN new \ DOMAIN old : \A q \in DOMAIN old \ DOMAIN new : old[q] # new[p]}

Stage(repo) == IF repo.flow = "push" THEN "pre-push" ELSE "pre-commit"
Candidates(repo) ==
  CASE repo.flow = "commit" -> Changed(repo.head, repo.index)
    [] repo.flow = "push" -> Changed(repo.base, repo.head)
    [] repo.flow = "all" -> DOMAIN repo.index

\* Without core.fileMode, what the file system says of every file.
Executable(repo, entry) == IF repo.fileMode THEN entry.mode = "executable" ELSE repo.allExecutable
TagsOf(repo, entry) ==
  CASE entry.mode = "link" -> {"symlink"}
    [] entry.mode = "submodule" -> {"directory"}
    [] OTHER -> {"file", IF Nul \in ToSet(entry.content) THEN "binary" ELSE "text"}
                  \cup IF Executable(repo, entry) THEN {"executable"} ELSE {}

Selected(hook, repo) ==
  LET options == BuiltinHook[hook.id]
  IN {p \in Candidates(repo) : /\ options.types \subseteq TagsOf(repo, repo.tree[p])
                               /\ options.files = "illegal" => p \in Illegal}

-----------------------------------------------------------------------------
(***************************************************************************)
(* The checks, each of the paths it complains of.                          *)
(***************************************************************************)

\* Faulty: a size is rounded down.
KilobytesBelow(entry) == Len(entry.content) \div Kilobyte

\* div_ceil
Kilobytes(entry) == (Len(entry.content) + Kilobyte - 1) \div Kilobyte

\* Its option is [all, max].
LargeFiles(hook, repo, names) ==
  {p \in (IF hook.option.all THEN names ELSE names \cap Added(repo.head, repo.index)) \ repo.lfs :
     Kilobytes(repo.tree[p]) > hook.option.max}

WithParents(paths) == paths \cup UNION {Parents[p] : p \in paths}
Clashes(paths) == {k \in {Folded[p] : p \in paths} : Cardinality({p \in paths : Folded[p] = k}) > 1}

\* Faulty: only the files that are checked are looked at.
CaseConflictsSelected(repo, names) ==
  {Folded[p] : p \in WithParents(names)}
    \cap Clashes(WithParents(DOMAIN repo.index \cup names))

\* check-case-conflict: conflicts that are of a file that is checked or added.
CaseConflicts(repo, names) ==
  {Folded[p] : p \in WithParents(names \cup Added(repo.head, repo.index))}
    \cap Clashes(WithParents(DOMAIN repo.index \cup names))

Shebang == <<Hash, "!">>
HasShebang(entry) == IsPrefix(Shebang, entry.content)
ByExecutableBit(repo, names, executable) ==
  {p \in names \cap DOMAIN repo.index : (repo.index[p].mode = "executable") = executable}

\* check-executables-have-shebangs, check-shebang-scripts-are-executable
WithoutShebang(repo, names) ==
  {p \in IF repo.fileMode THEN names ELSE ByExecutableBit(repo, names, TRUE) : ~HasShebang(repo.tree[p])}
NotExecutable(repo, names) ==
  {p \in ByExecutableBit(repo, names, FALSE) : HasShebang(repo.tree[p])}

\* check-symlinks: a link leads to a file or directory.
Follow(tree, path) ==
  FoldLeft(LAMBDA p, k : IF p \in DOMAIN tree /\ tree[p].mode = "link" THEN Targets[tree[p].content] ELSE p,
           path, [k \in 1..Cardinality(Paths) |-> k])
Exists(tree, p) ==
  \/ p \in DOMAIN tree /\ tree[p].mode # "link"
  \/ \E q \in DOMAIN tree : p \in Parents[q]
BrokenLinks(repo, names) ==
  {p \in names : repo.tree[p].mode = "link" /\ ~Exists(repo.tree, Follow(repo.tree, p))}

\* Faulty: contents are compared as they are.
IsDestroyedExactly(was, is) == was = is

\* is_destroyed_symlink: what links become where there are none, or a formatter's work on it.
IsDestroyedSymlink(was, is) ==
  \/ was = is
  \/ Len(is) <= Len(was) + 2 /\ TrimEnd(was, Blanks) = TrimEnd(is, Blanks)
DestroyedSymlinks(repo, names) ==
  {p \in names \cap DOMAIN repo.head \cap DOMAIN repo.index :
     /\ repo.head[p].mode = "link" /\ repo.index[p].mode # "link"
     /\ IsDestroyedSymlink(repo.head[p].content, repo.index[p].content)}

NewSubmodules(repo, names) ==
  LET old == IF repo.flow = "push" THEN repo.base ELSE repo.head
      new == IF repo.flow = "push" THEN repo.head ELSE repo.index
  IN {p \in names \cap Added(old, new) : new[p].mode = "submodule"}

\* no-commit-to-branch, with [branches, patterns]: a pattern matches what begins with it.
Heads == "refs/heads/"
BranchOf(ref) == After(ref, Max({0} \cup {i \in DOMAIN ref : ToSet(Upto(ref, i)) = {Heads}}))
IsProtected(o, branch) == branch \in o.branches \/ \E p \in o.patterns : IsPrefix(p, branch)
OnProtectedBranch(hook, repo) == repo.ref # <<>> /\ IsProtected(hook.option, BranchOf(repo.ref))

\* Faulty: what leads to the first commit to be pushed is left out of a new branch.
RangeFromHead(repo) ==
  CASE repo.flow = "push" /\ repo.from # "none" -> repo.above[repo.to] \ repo.above[repo.from]
    [] repo.flow = "push" /\ repo.from = "none" -> {repo.to}
    [] OTHER -> {repo.to} \ {"none"}

\* resolve_range of check-signed-commit: what is pushed, else HEAD if it has a commit.
ResolveRange(repo) ==
  CASE repo.flow = "push" /\ repo.from # "none" -> repo.above[repo.to] \ repo.above[repo.from]
    [] repo.flow = "push" /\ repo.from = "none" -> repo.above[repo.to]
    [] OTHER -> {repo.to} \ {"none"}
Unsigned(repo) == ResolveRange(repo) \ (repo.merges \cup repo.signed)

\* A hook that is not for the stage, or gets no file, is not run.
ComplainsOf(hook, repo) ==
  LET options == BuiltinHook[hook.id]
      names == Selected(hook, repo)
      problems ==
        CASE hook.id = "check-added-large-files" -> LargeFiles(hook, repo, names)
          [] hook.id = "check-case-conflict" -> CaseConflicts(repo, names)
          [] hook.id = "check-executables-have-shebangs" -> WithoutShebang(repo, names)
          [] hook.id = "check-illegal-windows-names" -> names
          [] hook.id = "check-shebang-scripts-are-executable" -> NotExecutable(repo, names)
          [] hook.id = "check-signed-commit" -> Unsigned(repo)
          [] hook.id = "check-symlinks" -> BrokenLinks(repo, names)
          [] hook.id = "deny-filename-pattern" -> names \cap hook.option
          [] hook.id = "destroyed-symlinks" -> DestroyedSymlinks(repo, names)
          [] hook.id = "forbid-new-submodules" -> NewSubmodules(repo, names)
          [] hook.id = "no-commit-to-branch" -> IF OnProtectedBranch(hook, repo) THEN {repo.ref} ELSE {}
          [] hook.id = "require-filename-pattern" -> names \ hook.option
  IN /\ options.stages = {} \/ Stage(repo) \in options.stages
     /\ names # {} \/ options.always
     /\ problems # {}
=============================================================================
