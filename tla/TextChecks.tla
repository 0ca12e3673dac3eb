------------------------------ MODULE TextChecks ------------------------------
(***************************************************************************)
(* The built-in hooks that check the text of a file (hooks/builtin_hooks,  *)
(* hooks/pre_commit_hooks), and pretty-format-json.  What a parser of a    *)
(* library stumbles over, a link to a line of a file, a key of an object   *)
(* with its scalar value are one byte each, and of the seven equal         *)
(* characters of a conflict marker there is one.                           *)
(***************************************************************************)
EXTENDS TextFixers

CONSTANTS
  Keys,         \* what a private key begins with, sequences of bytes
  KeyBuffer,    \* bytes that detect-private-key reads at once,
  MergeBuffer,  \* and check-merge-conflict
  Links,        \* [bytes that are links -> [domain, length, hex]], the reference in it
  Escapes       \* [characters that are not ASCII -> their escapes in JSON]

ASSUME ChecksAssumption ==
  /\ Keys # {} /\ Keys \subseteq Seq(Bytes) \ {<<>>} /\ {KeyBuffer, MergeBuffer} \subseteq Nat \ {0}
  /\ DOMAIN Links \cup DOMAIN Escapes \cup Range(Escapes) \subseteq Bytes

HasPart(s, part) == \E i \in 0..Len(s) - Len(part) : SubSeq(s, i + 1, i + Len(part)) = part
Reads(text) == [k \in 1..Len(text) + 1 |-> k]

-----------------------------------------------------------------------------
(***************************************************************************)
(* detect-private-key: what is read is searched together with the end of   *)
(* what was read before.                                                   *)
(***************************************************************************)
LongestKey == Max({Len(key) : key \in Keys})

\* Faulty: as much is kept as the shortest key may need.
CarryShortest == Min({Len(key) : key \in Keys}) - 1

Carry == LongestKey - 1

ScanKeys(text, scan) ==
  LET n == Min({KeyBuffer + Carry - scan.carry, Len(text) - scan.read})
      window == SubSeq(text, scan.read - scan.carry + 1, scan.read + n)
  IN [read |-> scan.read + n, carry |-> Min({Carry, Len(window)}),
      found |-> scan.found \/ \E key \in Keys : HasPart(window, key)]

HasKey(text) ==
  FoldLeft(LAMBDA scan, k : ScanKeys(text, scan), [read |-> 0, carry |-> 0, found |-> FALSE], Reads(text)).found

-----------------------------------------------------------------------------
(***************************************************************************)
(* check-merge-conflict.  Its option is [assume, gitDir], of which the     *)
(* latter are the files in the git directory.                              *)
(***************************************************************************)
StartMark == <<"<", Space>>
AncestorMark == <<"|", Space>>
EndMark == <<">", Space>>
Separators == {<<"=", Space>>, <<"=", CR, LF>>, <<"=", LF>>}
Lookahead == Len(StartMark)

IsInMerge(gitDir) ==
  "MERGE_MSG" \in gitDir /\ gitDir \cap {"MERGE_HEAD", "rebase-apply", "rebase-merge"} # {}

\* check_line, for what begins with a line.
CheckLine(scan, rest, number) ==
  LET Report(mark, inside) == [scan EXCEPT !.reports = Append(@, <<number, mark>>), !.inside = inside]
  IN CASE IsPrefix(StartMark, rest) -> Report("start", TRUE)
       [] scan.inside /\ IsPrefix(AncestorMark, rest) -> Report("ancestor", TRUE)
       [] scan.inside /\ (\E s \in Separators : IsPrefix(s, rest)) -> Report("separator", TRUE)
       [] IsPrefix(EndMark, rest) -> Report("end", FALSE)
       [] OTHER -> scan

\* May a line have to be reported?
WorthChecking(scan, content) ==
  \/ scan.inside
  \/ scan.atStart /\ (IsPrefix(StartMark, content) \/ IsPrefix(EndMark, content))
  \/ HasPart(content, <<LF>> \o StartMark) \/ HasPart(content, <<LF>> \o EndMark)

\* Faulty: a line is looked at with what happens to be read of it.
ConsumedAll(content, n) == Len(content)

\* All but the lookahead, which is read again.
Consumed(content, n) == IF n = 0 THEN Len(content) ELSE Max({0, Len(content) - Lookahead})

\* Lines that begin in what is consumed are checked, the first one if the last read ended a line.
ScanConflicts(text, scan) ==
  LET n == Min({MergeBuffer + Lookahead - scan.carry, Len(text) - scan.read})
      content == SubSeq(text, scan.read - scan.carry + 1, scan.read + n)
      consumed == Consumed(content, n)
      newlines == SetToSortSeq({i \in 1..consumed : content[i] = LF}, <)
      first == IF consumed > 0 /\ scan.atStart THEN CheckLine(scan, content, scan.line) ELSE scan
      checked == FoldLeft(LAMBDA s, k : IF newlines[k] < consumed
                                        THEN CheckLine(s, After(content, newlines[k]), scan.line + k) ELSE s,
                          first, [k \in DOMAIN newlines |-> k])
  IN [(IF WorthChecking(scan, content) THEN checked ELSE scan)
      EXCEPT !.read = @ + n, !.carry = Len(content) - consumed, !.line = @ + Len(newlines),
             !.atStart = IF consumed > 0 THEN content[consumed] = LF ELSE @]

NoConflict ==
  [read |-> 0, carry |-> 0, line |-> 1, atStart |-> TRUE, inside |-> FALSE, reports |-> <<>>]
Conflicts(text) == FoldLeft(LAMBDA scan, k : ScanConflicts(text, scan), NoConflict, Reads(text)).reports

-----------------------------------------------------------------------------
(***************************************************************************)
(* check-vcs-permalinks, whose option is a set of domains, and             *)
(* deny-pattern and require-pattern with [patterns, multiline, nocase]; a  *)
(* pattern is [part, atEnd].                                               *)
(***************************************************************************)
IsProbableCommitHash(link) == link.length \in 4..64 /\ link.hex
NonPermalinks(text, domains) ==
  {i \in DOMAIN text : /\ text[i] \in DOMAIN Links
                       /\ Links[text[i]].domain \in {"github.com"} \cup domains
                       /\ ~IsProbableCommitHash(Links[text[i]])}

TrimLineEnding(line) ==
  LET body == IF EndsWith(line, <<LF>>) THEN Front(line) ELSE line
  IN IF EndsWith(body, <<CR>>) THEN Front(body) ELSE body

\* find_first_match
Finds(contents, o) ==
  LET Fold(s) == IF o.nocase THEN LowerCase(s) ELSE s
  IN \E p \in o.patterns, i \in 0..Len(contents) :
       LET end == i + Len(p.part)
       IN /\ end <= Len(contents)
          /\ Fold(SubSeq(contents, i + 1, end)) = Fold(p.part)
          /\ p.atEnd => end = Len(contents) \/ (o.multiline /\ contents[end + 1] = LF)

\* Faulty: a line is matched with its end.
HasMatchInWhole(text, o) ==
  IF o.multiline THEN Finds(text, o) ELSE \E k \in DOMAIN Lines(text) : Finds(Lines(text)[k], o)

HasMatch(text, o) ==
  IF o.multiline THEN Finds(text, o)
  ELSE \E k \in DOMAIN Lines(text) : Finds(TrimLineEnding(Lines(text)[k]), o)

-----------------------------------------------------------------------------
(***************************************************************************)
(* JSON: objects of keys, each with a scalar or an object.                 *)
(***************************************************************************)
Open == "{"
Close == "}"
Error == "error"        \* of the syntax
Comment == "//"
Comma == ",}"           \* a comma behind the last member
Document == "---"       \* one more document
UnknownTag == "!tag"
Flaws == {Error, Comment, Comma, Document, UnknownTag}

Tokens(text) == SelectSeq(text, LAMBDA b : b \notin Blanks \cup {Comment, Comma})
Decoded(key) ==
  IF key \in Range(Escapes) THEN CHOOSE c \in DOMAIN Escapes : Escapes[c] = key ELSE key

\* Is it one object?
WellFormed(tokens) ==
  LET depth(i) == Cardinality({j \in 1..i : tokens[j] = Open}) - Cardinality({j \in 1..i : tokens[j] = Close})
  IN /\ tokens # <<>> /\ tokens[1] = Open /\ depth(Len(tokens)) = 0
     /\ \A i \in 1..Len(tokens) - 1 :
          depth(i) > 0 /\ (tokens[i + 1] = Open => tokens[i] \notin {Open, Close})

NoKeys == [open |-> <<>>, spare |-> <<>>, duplicate |-> FALSE]

\* Faulty: a set of keys is used again as it is.
ReadTokenUncleared(scan, t) ==
  CASE t = Open -> IF scan.spare = <<>> THEN [scan EXCEPT !.open = Append(@, {})]
                   ELSE [scan EXCEPT !.open = Append(@, Last(scan.spare)), !.spare = Front(@)]
    [] t = Close -> [scan EXCEPT !.open = Front(@), !.spare = Append(@, Last(scan.open))]
    [] OTHER -> [scan EXCEPT !.duplicate = @ \/ Decoded(t) \in Last(scan.open),
                             !.open[Len(scan.open)] = @ \cup {Decoded(t)}]

\* JsonDuplicateKeyChecker: the sets of the keys of the objects around a token; a set is cleared
\* when its object ends, and used again.
ReadToken(scan, t) ==
  CASE t = Open -> IF scan.spare = <<>> THEN [scan EXCEPT !.open = Append(@, {})]
                   ELSE [scan EXCEPT !.open = Append(@, Last(scan.spare)), !.spare = Front(@)]
    [] t = Close -> [scan EXCEPT !.open = Front(@), !.spare = Append(@, {})]
    [] OTHER -> [scan EXCEPT !.duplicate = @ \/ Decoded(t) \in Last(scan.open),
                             !.open[Len(scan.open)] = @ \cup {Decoded(t)}]

HasDuplicate(tokens) == FoldLeft(ReadToken, NoKeys, tokens).duplicate

IsJson(text, flaws) ==
  /\ ToSet(text) \cap flaws = {}
  /\ WellFormed(Tokens(text)) /\ ~HasDuplicate(Tokens(text))

\* check-toml, and check-yaml with [unsafe, multiple, tags].
Toml(text) == Error \notin ToSet(text)
Yaml(text, o) ==
  ToSet(text) \cap ({Error} \cup IF o.unsafe THEN {}
                                 ELSE (IF o.multiple THEN {} ELSE {Document})
                                        \cup (IF o.tags THEN {UnknownTag} ELSE {})) = {}
Xml(text) == text # <<>> /\ Error \notin ToSet(text)

-----------------------------------------------------------------------------
(***************************************************************************)
(* pretty-format-json.  Its option is [indent, ascii, top, sort]; a member *)
(* of an object is [key, value].                                           *)
(***************************************************************************)
Scalar == [object |-> FALSE, members |-> <<>>]
Object(members) == [object |-> TRUE, members |-> members]

\* Insertion into a serde_json map: a key that is there keeps its place.
Put(members, key, value) ==
  IF \E i \in DOMAIN members : members[i].key = key
  THEN [i \in DOMAIN members |-> IF members[i].key = key THEN [members[i] EXCEPT !.value = value] ELSE members[i]]
  ELSE Append(members, [key |-> key, value |-> value])

ParseToken(around, t) ==
  CASE t = Open -> Append(around, [key |-> Nul, members |-> <<>>])
    [] t = Close ->
         IF Len(around) = 1 THEN around
         ELSE LET outer == Front(around)
              IN [outer EXCEPT ![Len(outer)].members = Put(@, Last(outer).key, Object(Last(around).members))]
    [] OTHER -> [around EXCEPT ![Len(around)] =
                   [key |-> Decoded(t), members |-> Put(@.members, Decoded(t), Scalar)]]
ParsedJson(text) == FoldLeft(ParseToken, <<>>, Tokens(text))[1].members

\* Top keys come first, in the order in which each is named first.
TopKeys(o) == FoldLeft(LAMBDA keys, k : IF k \in ToSet(keys) THEN keys ELSE Append(keys, k), <<>>, o.top)

\* Faulty: the keys of an object in another are left as they are.
ReorderedOutside(members, o) ==
  LET ordered == IF o.sort THEN SortedBy(members, LAMBDA m, n : Order[m.key] < Order[n.key]) ELSE members
      Named(k) == SelectSeq(ordered, LAMBDA m : m.key = TopKeys(o)[k])
  IN FlattenSeq([k \in DOMAIN TopKeys(o) |-> Named(k)])
       \o SelectSeq(ordered, LAMBDA m : m.key \notin ToSet(TopKeys(o)))

\* reorder_keys
RECURSIVE Reordered(_, _)
Reordered(members, o) ==
  LET nested == [i \in DOMAIN members |-> [members[i] EXCEPT !.value.members = Reordered(@, o)]]
      ordered == IF o.sort THEN SortedBy(nested, LAMBDA m, n : Order[m.key] < Order[n.key]) ELSE nested
      Named(k) == SelectSeq(ordered, LAMBDA m : m.key = TopKeys(o)[k])
  IN FlattenSeq([k \in DOMAIN TopKeys(o) |-> Named(k)])
       \o SelectSeq(ordered, LAMBDA m : m.key \notin ToSet(TopKeys(o)))

Encoded(key, o) == IF o.ascii /\ key \in DOMAIN Escapes THEN Escapes[key] ELSE key

\* The serializer with JsonFormatter.
RECURSIVE Formatted(_, _, _)
Formatted(members, depth, o) ==
  LET Break(n) == <<LF>> \o [i \in 1..n * o.indent |-> Space]
      Member(m) == Break(depth + 1) \o <<Encoded(m.key, o)>>
                     \o IF m.value.object THEN Formatted(m.value.members, depth + 1, o) ELSE <<>>
  IN <<Open>> \o FlattenSeq([i \in DOMAIN members |-> Member(members[i])])
       \o (IF members = <<>> THEN <<>> ELSE Break(depth)) \o <<Close>>

PrettifyJson(text, o) == Formatted(Reordered(ParsedJson(text), o), 0, o) \o <<LF>>

\* normalize_newlines
NormalizeNewlines(text) ==
  FlattenSeq([i \in DOMAIN text |-> CASE text[i] = CR -> <<LF>>
                                      [] text[i] = LF /\ i > 1 /\ text[i - 1] = CR -> <<>>
                                      [] OTHER -> <<text[i]>>])

\* detect_line_ending of the file: the first one.
FirstEnding(text) ==
  LET ends == {i \in DOMAIN text : text[i] \in {CR, LF}}
  IN IF ends = {} THEN <<LF>>
     ELSE LET i == Min(ends)
          IN IF text[i] = CR /\ i < Len(text) /\ text[i + 1] = LF THEN <<CR, LF>> ELSE <<text[i]>>

WithOriginalLineEnding(content, original) ==
  FlattenSeq([i \in DOMAIN content |-> IF content[i] = LF THEN FirstEnding(original) ELSE <<content[i]>>])

\* What parses; a duplicate key does.
IsObject(text) == ToSet(text) \cap Flaws = {} /\ WellFormed(Tokens(text))
PrettyJson(text, o) ==
  IF ~IsObject(text) \/ NormalizeNewlines(text) = PrettifyJson(text, o) THEN text
  ELSE WithOriginalLineEnding(PrettifyJson(text, o), text)

-----------------------------------------------------------------------------
(***************************************************************************)
(* A hook is [id, check, option]; a file is changed, would be changed, or  *)
(* is complained of.  Without --autofix, pretty-format-json only checks.   *)
(***************************************************************************)
Fixed(hook, text) ==
  CASE hook.id = "trailing-whitespace" -> Trimmed(text, hook.option)
    [] hook.id = "end-of-file-fixer" -> Ended(text)
    [] hook.id = "mixed-line-ending" -> Unmixed(text, hook.option)
    [] hook.id = "fix-byte-order-marker" -> Unmarked(text)
    [] hook.id = "file-contents-sorter" -> Sorted(text, hook.option)
    [] hook.id = "requirements-txt-fixer" -> Required(text)
    [] hook.id = "pretty-format-json" -> PrettyJson(text, hook.option)
    [] OTHER -> text

Complains(hook, text) ==
  CASE hook.id = "mixed-line-ending" -> hook.option = No /\ IsMixed(text)
    [] hook.id = "requirements-txt-fixer" -> ~IsBlank(text) /\ ~IsValid(Parsed(Completed(text)))
    [] hook.id = "pretty-format-json" -> ~IsObject(text)
    [] hook.id = "detect-private-key" -> HasKey(text)
    [] hook.id = "check-merge-conflict" ->
         (hook.option.assume \/ IsInMerge(hook.option.gitDir)) /\ Conflicts(text) # <<>>
    [] hook.id = "check-vcs-permalinks" -> NonPermalinks(text, hook.option) # {}
    [] hook.id = "deny-pattern" -> HasMatch(text, hook.option)
    [] hook.id = "require-pattern" -> ~HasMatch(text, hook.option)
    [] hook.id = "check-json" -> ~IsJson(text, Flaws)
    [] hook.id = "check-json5" -> text # <<>> /\ ~IsJson(text, {Error})
    [] hook.id = "check-jsonc" ->
         text # <<>> /\ ~IsJson(text, {Error} \cup IF hook.option.commas THEN {} ELSE {Comma})
    [] hook.id = "check-toml" -> ~Toml(text)
    [] hook.id = "check-yaml" -> text # <<>> /\ ~Yaml(text, hook.option)
    [] hook.id = "check-xml" -> ~Xml(text)
    [] OTHER -> FALSE

\* Faulty: a hook that only checks does not tell.
FixFileSilently(hook, text) ==
  LET fixed == Fixed(hook, text)
  IN IF Complains(hook, text) THEN [status |-> 1, modified |-> FALSE, text |-> text]
     ELSE [status |-> IF fixed # text /\ ~hook.check THEN 1 ELSE 0, modified |-> fixed # text /\ ~hook.check,
           text |-> IF hook.check THEN text ELSE fixed]

\* fix_file and check_file of the hooks
FixFile(hook, text) ==
  LET fixed == Fixed(hook, text)
  IN [status |-> IF fixed # text \/ Complains(hook, text) THEN 1 ELSE 0,
      modified |-> fixed # text /\ ~hook.check,
      text |-> IF hook.check THEN text ELSE fixed]
=============================================================================
