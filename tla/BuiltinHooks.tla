----------------------------- MODULE BuiltinHooks -----------------------------
(***************************************************************************)
(* Runs of a list of built-in hooks.  One that fixes or checks text takes  *)
(* files named in its arguments one after the other, then the selected     *)
(* ones in parallel (run_blocking_file_checks), another asks git once.  A  *)
(* run that fails is repeated, as after `git add`.                         *)
(***************************************************************************)
EXTENDS RepositoryChecks

CONSTANTS
  Files,
  Tags,             \* [Files -> sets of tags]
  Lists,            \* of hooks, [id, check, option, explicit]
  Contents(_),      \* the contents of the files before the first run of a list
  Repositories(_),  \* the repositories it is run in
  MaxErrors,        \* files that cannot be read or written, git that fails
  MaxRuns

Texts == Seq(Bytes)
ASSUME ListsAssumption ==
  \A l \in Lists : /\ l # <<>> /\ \A i \in DOMAIN l : l[i].explicit \in Seq(Files)
                   /\ \A c \in Contents(l) : DOMAIN c = Files
                   /\ \A i \in DOMAIN l : l[i].id \in DOMAIN BuiltinHook

VARIABLES
  list,    \* the hooks
  repo,    \* the repository
  file,    \* [Files -> Texts]
  hook,    \* index of the one that runs, 0 if none
  named,   \* explicit files it has still to check
  left,    \* selected files it has still to check
  output,  \* [status, modified], merged from its files
  failed,  \* a file could not be read or written
  exit,    \* of the run
  before,  \* history: contents when the hook began
  begun,   \* history: contents when the run began
  errors, runs

vars == <<list, repo, file, hook, named, left, output, failed, exit, before, begun, errors, runs>>

NoOutput == [status |-> 0, modified |-> FALSE]
Current == list[hook]

Init ==
  /\ list \in Lists /\ file \in Contents(list) /\ repo \in Repositories(list)
  /\ hook = 0 /\ named = <<>> /\ left = {} /\ output = NoOutput /\ failed = FALSE
  /\ exit = "none" /\ before = file /\ begun = file /\ errors = 0 /\ runs = 0

\* The files of a hook that begins; one that sorts them is given a pattern of its own.
Begins(i) ==
  /\ hook' = i /\ named' = list[i].explicit
  /\ left' = {f \in Files : list[i].id \in AsksGit \/ BuiltinHook[list[i].id].types \subseteq Tags[f]}
  /\ output' = NoOutput /\ failed' = FALSE /\ before' = file

Start ==
  /\ hook = 0 /\ exit \in {"none", "failed", "error"} /\ runs < MaxRuns
  /\ runs' = runs + 1 /\ exit' = "none" /\ begun' = file
  /\ Begins(1)
  /\ UNCHANGED <<list, repo, file, errors>>

\* Faulty: the result of a file replaces that of the others.
MergedLast(f) ==
  LET result == FixFile(Current, file[f])
  IN [status |-> result.status, modified |-> result.modified]

\* merge_known
Merged(f) ==
  LET result == FixFile(Current, file[f])
  IN [status |-> Max({output.status, result.status}), modified |-> output.modified \/ result.modified]

Processed(f) ==
  /\ output' = Merged(f)
  /\ file' = [file EXCEPT ![f] = FixFile(Current, @).text]
  /\ UNCHANGED <<failed, errors>>

\* What a failed write leaves: the end of a file is changed at once, a byte order mark is
\* overwritten before the file is shortened, any other file is truncated first.
Spoilt(text) ==
  CASE Current.id = "end-of-file-fixer" -> {}
    [] Current.id = "fix-byte-order-marker" -> {Tail(text) \o <<Last(text)>>}
    [] OTHER -> {<<>>}
Fails(f) ==
  /\ errors < MaxErrors /\ errors' = errors + 1 /\ failed' = TRUE
  /\ \E text \in {file[f]} \cup IF FixFile(Current, file[f]).modified THEN Spoilt(file[f]) ELSE {} :
       file' = [file EXCEPT ![f] = text]
  /\ UNCHANGED output

\* An explicit file; its error ends the hook.
CheckNamed ==
  /\ hook # 0 /\ Current.id \notin AsksGit /\ left # {} /\ named # <<>> /\ named' = Tail(named)
  /\ \/ Processed(Head(named)) /\ UNCHANGED left
     \/ Fails(Head(named)) /\ left' = {}
  /\ UNCHANGED <<list, repo, hook, exit, before, begun, runs>>

\* A selected file; the others are checked whatever it returns.
CheckSelected(f) ==
  /\ hook # 0 /\ Current.id \notin AsksGit /\ f \in left /\ named = <<>>
  /\ Processed(f) \/ Fails(f)
  /\ left' = left \ {f}
  /\ UNCHANGED <<list, repo, hook, named, exit, before, begun, runs>>

\* A hook that asks git.
CheckRepository ==
  /\ hook # 0 /\ Current.id \in AsksGit /\ left # {} /\ left' = {} /\ named' = <<>>
  /\ \/ /\ output' = [NoOutput EXCEPT !.status = IF ComplainsOf(Current, repo) THEN 1 ELSE 0]
        /\ UNCHANGED <<failed, errors>>
     \/ /\ errors < MaxErrors /\ errors' = errors + 1 /\ failed' = TRUE
        /\ UNCHANGED output
  /\ UNCHANGED <<list, repo, file, hook, exit, before, begun, runs>>

\* The hook has ended: an error ends the run, otherwise the next one begins.
Finish ==
  /\ hook # 0 /\ left = {}
  /\ exit' = CASE failed -> "error"
               [] ~failed /\ output.status # 0 -> "failed"
               [] OTHER -> IF exit = "none" /\ hook = Len(list) THEN "passed" ELSE exit
  /\ IF failed \/ hook = Len(list)
     THEN hook' = 0 /\ UNCHANGED <<named, left, output, failed, before>>
     ELSE Begins(hook + 1)
  /\ UNCHANGED <<list, repo, file, begun, errors, runs>>

Next == Start \/ CheckNamed \/ (\E f \in Files : CheckSelected(f)) \/ CheckRepository \/ Finish

Spec == Init /\ [][Next]_vars

-----------------------------------------------------------------------------
(***************************************************************************)
(* What the hooks promise, said without their algorithms.                  *)
(***************************************************************************)
Without(text, bytes) == SelectSeq(text, LAMBDA b : b \notin bytes)
CountOf(x, seq) == Cardinality({i \in DOMAIN seq : seq[i] = x})

\* Only trimmed bytes at the ends of lines are gone, and all of these but a line break.
Trims(old, new, o) ==
  LET bytes == IF o.chars = {} THEN Blanks ELSE o.chars
      was == Lines(old)
      is == Lines(new)
      IsBreak(s) == /\ o.markdown /\ Len(s) > 2 /\ EndsWith(s, <<Space, Space>>)
                    /\ (o.chars = {} => s[Len(s) - 2] \notin Blanks)
      Text(s) == IF IsBreak(s) THEN Upto(s, Len(s) - 2) ELSE s
  IN /\ Without(new, bytes) = Without(old, bytes)
     /\ \A k \in DOMAIN is : LET s == Body(is[k]) IN s = <<>> \/ Last(s) \notin bytes \/ IsBreak(s)
     /\ \A k \in DOMAIN was :
          IF k \in DOMAIN is
          THEN IsPrefix(Text(Body(is[k])), Body(was[k])) /\ (o.chars = {} => Ending(is[k]) = Ending(was[k]))
          ELSE k = Len(was) /\ ToSet(was[k]) \subseteq bytes

\* The first of the endings at the end is left, or there is one.
EndsOnce(old, new) ==
  LET core == TrimEnd(old, {CR, LF})
      rest == After(old, Len(core))
  IN new = IF core = <<>> THEN <<>>
           ELSE core \o (CASE rest = <<>> -> <<LF>> [] IsPrefix(<<CR, LF>>, rest) -> <<CR, LF>>
                           [] OTHER -> <<rest[1]>>)

EndingAt(text, i) ==
  CASE text[i] = CR /\ i < Len(text) /\ text[i + 1] = LF -> <<CR, LF>>
    [] text[i] = CR /\ ~(i < Len(text) /\ text[i + 1] = LF) -> <<CR>>
    [] text[i] = LF /\ ~(i > 1 /\ text[i - 1] = CR) -> <<LF>>
    [] OTHER -> <<>>
NumberOf(ending, text) == Cardinality({i \in DOMAIN text : EndingAt(text, i) = ending})
Used(text) == {e \in Endings : NumberOf(e, text) > 0}

\* A text has one kind of ending, the one that was asked for or the most frequent one.
Unmixes(old, new, fix) ==
  /\ Without(new, {CR, LF}) = Without(old, {CR, LF})
  /\ IsText(old) /\ fix # No =>
       /\ Used(new) \subseteq IF fix = Auto THEN {e \in Endings : \A d \in Endings : NumberOf(d, old) <= NumberOf(e, old)}
                              ELSE {fix}
       /\ Cardinality(Used(new)) <= 1
       /\ MapThenSumSet(LAMBDA e : NumberOf(e, new), Endings) - MapThenSumSet(LAMBDA e : NumberOf(e, old), Endings)
            \in {0, IF new # old /\ Last(old) \notin {CR, LF} THEN 1 ELSE 0}

\* The same lines, each ended, in order.
Sorts(old, new, o) ==
  LET was == NormalLines(old)
      is == NormalLines(new)
      Key(s) == IF o.nocase THEN LowerCase(s) ELSE s
  IN /\ new = FlattenSeq([k \in DOMAIN is |-> is[k] \o <<LF>>])
     /\ \A k \in 2..Len(is) : ~Less(Key(is[k]), Key(is[k - 1]))
     /\ \A s \in ToSet(was) \cup ToSet(is) :
          CountOf(s, is) = IF o.unique THEN Min({1, CountOf(s, was)}) ELSE CountOf(s, was)

\* Requirements are in order, none is lost and none doubled; of comments no more than those of
\* what was removed.  Except for a last one that is incomplete, which continues in what is sorted
\* behind it, and for one before the blank line that ends the header, which the hook discards.
Requires(old, new) ==
  LET was == Parsed(Completed(old)).list
      is == Parsed(new).list
      comments(text) == SelectSeq(Lines(text), IsComment)
      values(reqs) == {reqs[k].value : k \in DOMAIN reqs} \ Broken
      broken == \E k \in DOMAIN was : was[k].value \in Broken
      dangling == was # <<>> /\ ~IsComplete(Last(was).value)
  IN new # old /\ ~dangling =>
       /\ \A k \in 2..Len(is) : ~Less(Name(is[k].value), Name(is[k - 1].value))
       /\ values(is) = values(was)
       /\ \A k \in 2..Len(is) : is[k].value # is[k - 1].value
       /\ ~broken => \A c \in ToSet(comments(old)) :
            CountOf(c, comments(new)) + CountOf(c \o <<LF>>, comments(new)) >= CountOf(c, comments(old))

\* The same members, each object's in order; one kind of ending if the text was changed.
RECURSIVE Facts(_)
Facts(members) ==
  UNION {{<<<<m.key>>, m.value.object>>} \cup {<<<<m.key>> \o fact[1], fact[2]>> : fact \in Facts(m.value.members)} :
           m \in ToSet(members)}
RECURSIVE Ordered(_, _)
Ordered(members, o) ==
  /\ \A i, j \in DOMAIN members : i < j =>
       LET place(k) == SelectInSeq(o.top, LAMBDA key : key = members[k].key)
       IN IF place(j) > 0 THEN place(i) \in 1..place(j) - 1
          ELSE place(i) = 0 /\ o.sort => Order[members[i].key] < Order[members[j].key]
  /\ \A m \in ToSet(members) : Ordered(m.value.members, o)
Prettifies(old, new, o) ==
  IF ~IsObject(old) THEN new = old
  ELSE /\ Facts(ParsedJson(new)) = Facts(ParsedJson(old)) /\ Ordered(ParsedJson(new), o)
       /\ o.ascii => ToSet(new) \cap DOMAIN Escapes = {}
       /\ new = old \/ Used(new) = {FirstEnding(old)}

Promise(h, old, new) ==
  CASE h.id = "trailing-whitespace" -> Trims(old, new, h.option)
    [] h.id = "end-of-file-fixer" -> EndsOnce(old, new)
    [] h.id = "mixed-line-ending" -> Unmixes(old, new, h.option)
    [] h.id = "fix-byte-order-marker" -> old = new \/ old = <<Mark>> \o new
    [] h.id = "file-contents-sorter" -> Sorts(old, new, h.option)
    [] h.id = "requirements-txt-fixer" -> Requires(old, new)
    [] h.id = "pretty-format-json" -> Prettifies(old, new, h.option)
    [] OTHER -> new = old

\* What is wrong with a text, for the checks.
ConflictLines(text) ==
  LET begins == SetToSortSeq({i \in 0..Len(text) - 1 : i = 0 \/ text[i] = LF}, <)
  IN FoldLeft(LAMBDA scan, k : CheckLine(scan, After(text, begins[k]), k), NoConflict,
              [k \in DOMAIN begins |-> k]).reports
SameKeyTwice(tokens) ==
  \E i, j \in DOMAIN tokens :
    LET depth(k) == Cardinality({n \in 1..k : tokens[n] = Open}) - Cardinality({n \in 1..k : tokens[n] = Close})
    IN /\ i < j /\ {tokens[i], tokens[j]} \cap {Open, Close} = {} /\ Decoded(tokens[i]) = Decoded(tokens[j])
       /\ depth(i) = depth(j) /\ \A k \in i..j : depth(k) >= depth(i)
\* A part of one line, or of several if they are matched as a whole, whose ends are LF then.
MatchedLine(text, o) ==
  \E p \in o.patterns, i \in 0..Len(text) :
    LET rest == After(text, i + Len(p.part))
        Fold(s) == IF o.nocase THEN LowerCase(s) ELSE s
    IN /\ i + Len(p.part) <= Len(text) /\ Fold(SubSeq(text, i + 1, i + Len(p.part))) = Fold(p.part)
       /\ p.atEnd => \/ rest = <<>> \/ IsPrefix(<<LF>>, rest)
                     \/ ~o.multiline /\ (rest = <<CR>> \/ IsPrefix(<<CR, LF>>, rest))

TextChecked == {"detect-private-key", "check-merge-conflict", "check-json", "deny-pattern", "require-pattern"}
Wrong(h, text) ==
  CASE h.id = "detect-private-key" -> \E key \in Keys : HasPart(text, key)
    [] h.id = "check-merge-conflict" -> h.option.assume /\ ConflictLines(text) # <<>>
    [] h.id = "check-json" -> \/ ToSet(text) \cap Flaws # {} \/ ~WellFormed(Tokens(text))
                              \/ SameKeyTwice(Tokens(text))
    [] h.id = "deny-pattern" -> MatchedLine(text, h.option)
    [] h.id = "require-pattern" -> ~MatchedLine(text, h.option)

\* What a commit or push, or all files, may not bring; except for the limits of the hooks: a file
\* that is renamed is not added, one that is pushed neither; links and submodules are seen only by
\* those for them, or beside a file, and what is executable not at all if the file system says nothing is.
IsFile(entry) == entry.mode \in {"regular", "executable"}
IsScript(entry) == IsFile(entry) /\ Nul \notin ToSet(entry.content)
KeepsOut(h) ==
  LET old == CASE repo.flow = "push" -> repo.base [] repo.flow = "commit" -> repo.head [] repo.flow = "all" -> <<>>
      new == repo.index
      changed == Changed(old, new)
      fresh == {p \in DOMAIN new \ DOMAIN repo.head : new[p] \notin Range(repo.head)}
      clashing == Clashes(WithParents(DOMAIN new)) \ Clashes(WithParents(DOMAIN old))
  IN CASE h.id = "check-added-large-files" ->
            \A p \in IF h.option.all THEN changed ELSE fresh :
              IsFile(new[p]) /\ p \notin repo.lfs => Len(new[p].content) <= h.option.max * Kilobyte
       [] h.id = "check-case-conflict" ->
            \A p \in {q \in changed : IsFile(new[q]) \/ q \in fresh} :
              (\E r \in changed : IsFile(new[r])) => \A q \in {p} \cup Parents[p] : Folded[q] \notin clashing
       [] h.id = "check-executables-have-shebangs" ->
            \A p \in changed : IsScript(new[p]) /\ new[p].mode = "executable" =>
              HasShebang(new[p]) \/ ~(repo.fileMode \/ repo.allExecutable)
       [] h.id = "check-shebang-scripts-are-executable" ->
            \A p \in changed : IsScript(new[p]) /\ HasShebang(new[p]) => new[p].mode = "executable"
       [] h.id = "check-symlinks" ->
            \A p \in changed : new[p].mode = "link" => Targets[new[p].content] # p
       [] h.id = "destroyed-symlinks" ->
            \A p \in DOMAIN repo.head \cap DOMAIN new :
              repo.head[p].mode = "link" /\ IsFile(new[p]) =>
                new[p].content \notin {repo.head[p].content \o e : e \in {<<>>, <<LF>>, <<CR, LF>>}}
       [] h.id = "forbid-new-submodules" ->
            \A p \in IF repo.flow = "push" THEN changed ELSE fresh :
              new[p].mode = "submodule" => p \in DOMAIN old \/ new[p] \in Range(old)
       [] h.id = "no-commit-to-branch" ->
            \A branch \in h.option.branches \cup h.option.patterns : repo.ref # <<Heads>> \o branch
       [] h.id = "check-signed-commit" ->
            repo.flow = "push" => repo.above[repo.to] \ repo.remote \subseteq repo.merges \cup repo.signed
       [] h.id = "check-illegal-windows-names" -> \A p \in changed \cap Illegal : ~IsFile(new[p])
       [] h.id = "deny-filename-pattern" -> \A p \in changed \cap h.option : ~IsFile(new[p])
       [] h.id = "require-filename-pattern" -> \A p \in changed \ h.option : ~IsFile(new[p])

-----------------------------------------------------------------------------
(***************************************************************************)
(* Properties.                                                             *)
(***************************************************************************)

\* Every variable has its type.
TypeOK ==
  /\ \A f \in Files : {file[f], before[f], begun[f]} \subseteq Texts
  /\ hook \in 0..Len(list) /\ named \in Seq(Files) /\ left \subseteq Files
  /\ output \in [status : {0, 1}, modified : BOOLEAN] /\ failed \in BOOLEAN
  /\ exit \in {"none", "passed", "failed", "error"} /\ errors \in 0..MaxErrors /\ runs \in 0..MaxRuns

Done == hook # 0 /\ left = {} /\ ~failed

Checked == {f \in Files : BuiltinHook[Current.id].types \subseteq Tags[f]} \cup ToSet(Current.explicit)

\* A hook that ran without an error has kept its promise for every file; by a block-wise scan,
\* a fast path or counters that wrap as well as by the definition.  It leaves the others alone.
FixersKeepPromises ==
  Done /\ ~Current.check =>
    \A f \in Files : IF f \in Checked THEN Promise(Current, before[f], file[f]) ELSE file[f] = before[f]

\* A check tells just of the files in which something is wrong, and a hook that asks git lets
\* nothing pass that it is there to refuse.
ChecksKeepPromises ==
  Done => /\ Current.id \in TextChecked =>
               (output.status = 0 <=> \A f \in Checked : ~Wrong(Current, before[f]))
          /\ Current.id = "check-merge-conflict" => \A f \in Checked : Conflicts(file[f]) = ConflictLines(file[f])
          /\ Current.id \in AsksGit /\ output.status = 0 => KeepsOut(Current)

PromisesKept == FixersKeepPromises /\ ChecksKeepPromises

\* What the scheduler relies on instead of a diff: a hook says that it modified files just if
\* one has changed.  With --check nothing is written, and the hook fails just if it would have
\* changed a file.
CheckPredicts ==
  Done /\ Current.check =>
    /\ file = before
    /\ output.status = 0 <=> \A f \in Checked : FixFile([Current EXCEPT !.check = FALSE], file[f]).status = 0
ReportIsTrue ==
  /\ hook # 0 /\ ~failed => (output.modified <=> file # before)
  /\ CheckPredicts

\* Once all hooks have run undisturbed, running them again finds nothing to fix: a hook does not
\* undo what another has done.  A wrong order, in which a hook leaves what one before it would
\* fix, takes one run more.  Except that each run removes one of several byte order marks, and
\* for requirements with a continued line.
InOrder ==
  LET order == <<"trailing-whitespace", "end-of-file-fixer", "mixed-line-ending">>
  IN ~\E i, j \in DOMAIN list, k, l \in DOMAIN order :
        i < j /\ k < l /\ list[i].id = order[l] /\ list[j].id = order[k]
SettlesAtOnce ==
  /\ hook # 0 /\ errors = 0
  /\ runs > IF InOrder THEN 1 ELSE 2
  => \A f \in Files : \/ file[f] \in {begun[f], Unmarked(begun[f])}
                      \/ Current.id = "requirements-txt-fixer" /\ Backslash \in ToSet(begun[f])
=============================================================================
