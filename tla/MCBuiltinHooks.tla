---------------------------- MODULE MCBuiltinHooks ----------------------------
(***************************************************************************)
(* Instances of BuiltinHooks for TLC: lists of hooks over all short texts  *)
(* of the bytes that matter to them, and small repositories.               *)
(***************************************************************************)
EXTENDS BuiltinHooks

X == "x"
Accented == "e'"
Escaped == "u00e9"
InOrderOfBytes ==
  <<"nul", "lf", "cr", "space", "!", "#", "&egg=", "/", ";", "<", "=", ">", "X", "\\", "x", "{", "|", "}", Accented, "mark">>
    \o <<Escaped, "error", "//", ",}", "---", "!tag", "hash", "branch", "other">>
MCOrder == [b \in ToSet(InOrderOfBytes) |-> SelectInSeq(InOrderOfBytes, LAMBDA c : c = b)]
MCLower == [b \in DOMAIN MCOrder |-> IF b = "X" THEN "x" ELSE b]
MCBroken == {<<"X", "lf">>}
MCKeys == {<<X, X>>, <<X, "X", X>>}
MCLinks == "hash" :> [domain |-> "github.com", length |-> 40, hex |-> TRUE]
  @@ "branch" :> [domain |-> "github.com", length |-> 4, hex |-> FALSE]
  @@ "other" :> [domain |-> "example.com", length |-> 3, hex |-> TRUE]
MCEscapes == Accented :> Escaped
MCTags == "f" :> {"file", "text", "json", "json5", "jsonc", "toml", "yaml", "xml"} @@ "g" :> {"file", "text"}

Hook(id, check, option) == [id |-> id, check |-> check, option |-> option, explicit |-> <<>>]
Whitespace(chars, markdown, check) ==
  Hook("trailing-whitespace", check, [chars |-> chars, markdown |-> markdown])
EndOfFile(check) == Hook("end-of-file-fixer", check, <<>>)
Mixed(fix) == Hook("mixed-line-ending", FALSE, fix)
ByteOrder == Hook("fix-byte-order-marker", FALSE, <<>>)
Sorter(nocase, unique, check) ==
  Hook("file-contents-sorter", check, [nocase |-> nocase, unique |-> unique])
Requirements(check) == Hook("requirements-txt-fixer", check, <<>>)

Alone ==
  {Whitespace({}, m, k) : m \in BOOLEAN, k \in BOOLEAN} \cup {Whitespace({X}, FALSE, FALSE)}
    \cup {EndOfFile(k) : k \in BOOLEAN} \cup {Mixed(m) : m \in {Auto, No} \cup Endings}
    \cup {Sorter(TRUE, FALSE, FALSE), Sorter(FALSE, TRUE, FALSE), Sorter(FALSE, FALSE, TRUE), ByteOrder}
    \cup {Requirements(FALSE), Requirements(TRUE)}

\* Checks of a file's text.
Merges(assume) ==
  Hook("check-merge-conflict", FALSE, [assume |-> assume, gitDir |-> {"MERGE_MSG", "AUTO_MERGE"}])
Pattern(id, part, atEnd, multiline, nocase) ==
  Hook(id, FALSE, [patterns |-> {[part |-> part, atEnd |-> atEnd]}, multiline |-> multiline, nocase |-> nocase])
Lined == {Pattern(id, <<X>>, e, FALSE, c) : id \in {"deny-pattern", "require-pattern"}, e \in BOOLEAN, c \in BOOLEAN}
Multiline == {Pattern("deny-pattern", part, TRUE, TRUE, FALSE) : part \in {<<X>>, <<X, LF, X>>}}
Pretty(ascii, top, sort, check) ==
  Hook("pretty-format-json", check, [indent |-> 1, ascii |-> ascii, top |-> top, sort |-> sort])
Pretties == {Pretty(TRUE, <<>>, TRUE, FALSE), Pretty(FALSE, <<X, X>>, TRUE, FALSE),
             Pretty(TRUE, <<X, "/">>, FALSE, FALSE), Pretty(TRUE, <<>>, FALSE, TRUE)}
Json == {Hook("check-json", FALSE, <<>>)}
Parsers ==
  {Hook(id, FALSE, <<>>) : id \in {"check-json5", "check-toml", "check-xml"}}
    \cup {Hook("check-jsonc", FALSE, [commas |-> c]) : c \in BOOLEAN}
    \cup {Hook("check-yaml", FALSE, [unsafe |-> u, multiple |-> m, tags |-> t]) :
            u \in BOOLEAN, m \in BOOLEAN, t \in BOOLEAN}
    \cup {Hook("check-vcs-permalinks", FALSE, d) : d \in {{}, {"example.com"}}}
Checks == Lined \cup Multiline \cup Pretties \cup Json \cup Parsers
  \cup {Merges(a) : a \in BOOLEAN} \cup {Hook("detect-private-key", FALSE, <<>>)}

\* Checks of a repository.
Large(all) == Hook("check-added-large-files", FALSE, [all |-> all, max |-> 1])
Branch(patterns) == Hook("no-commit-to-branch", FALSE, [branches |-> {<<"main">>}, patterns |-> patterns])
Asking ==
  {Large(TRUE), Large(FALSE), Branch({}), Branch({<<"release">>})}
    \cup {Hook(id, FALSE, {"a", "d/a"}) : id \in {"deny-filename-pattern", "require-filename-pattern"}}
    \cup {Hook(id, FALSE, <<>>) : id \in {"check-case-conflict", "check-executables-have-shebangs",
             "check-illegal-windows-names", "check-shebang-scripts-are-executable", "check-signed-commit",
             "check-symlinks", "destroyed-symlinks", "forbid-new-submodules"}}

Named(h, files) == [h EXCEPT !.explicit = files]
Usual == {Whitespace({}, FALSE, FALSE), EndOfFile(FALSE), Mixed(Auto)}

\* Over texts that are all short, over two files of which one is named as well, and in turn.
Shared == {<<Named(h, files), ByteOrder>> : h \in {Sorter(FALSE, TRUE, FALSE), EndOfFile(TRUE), Mixed(No)} \cup Lined,
                                            files \in {<<>>, <<"g">>, <<"g", "f">>}}
MCLists == {<<h>> : h \in Alone \cup Checks \cup Asking} \cup Shared \cup SetToSeqs(Usual)

Short(bytes, n) == UNION {[1..k -> bytes] : k \in 0..n}

\* Objects of at most two members, and what they are formatted to.
Around(values) ==
  LET member == {<<k>> : k \in {X, "/"}} \cup {<<k>> \o v : k \in {X, "/"}, v \in values}
      members == {<<>>} \cup member \cup {m \o n : m \in member, n \in member}
  IN {<<"{">> \o m \o <<"}">> : m \in members}
Objects == Around(Around({})) \cup {<<"{", Accented, k, "}">> : k \in {Accented, Escaped, X}}
Formats(o) ==
  LET pretty == {PrettifyJson(text, o) : text \in Around({})}
  IN UNION {{p, Front(p)} \cup {Normalized(p, e) : e \in Endings}
              \cup {[i \in DOMAIN p |-> IF i = 2 /\ p[i] = LF THEN CR ELSE p[i]]} : p \in pretty}
Flawed(text) ==
  {<<>>, Front(text), text \o <<X>>, text \o text, <<X>>} \cup {Front(text) \o <<flaw, "}">> : flaw \in Flaws}

Conflicting ==
  LET line == {<<"<", Space>>, <<"|", Space>>, <<"=">>, <<"=", Space>>, <<"=", CR>>, <<">", Space>>, <<Space, "<">>}
  IN {FlattenSeq([k \in DOMAIN s |-> s[k] \o <<LF>>]) \o t : s \in Short(line, 2), t \in line \cup {<<>>}}

\* Lines of requirements that name a package with its version, an egg or a condition.
NamedRequirements ==
  LET line == {<<X>>, <<X, "=", "=", X>>, <<X, "=">>, <<"X", ">", X>>, <<X, Space, ";">>, <<X, ";", X>>,
               <<";", X>>, <<">", Egg, X>>, <<Egg, "X", ";">>}
  IN {FlattenSeq([k \in DOMAIN s |-> s[k] \o <<LF>>]) : s \in Short(line, 3)}

\* A CR alone is an ending to some hooks and a blank to others, which do not agree on it: it is
\* in the texts for one hook only.
Texts1(l) ==
  IF Len(l) > 1 THEN {text \in Short({X, Space, CR, LF}, 4) : <<CR>> \notin Used(text)}
  ELSE CASE l[1].id = "trailing-whitespace" ->
              Short(IF l[1].option.chars = {} THEN {X, Space, CR, LF} ELSE {X, Space, LF}, 5)
         [] l[1].id = "end-of-file-fixer" -> Short({X, CR, LF}, 6)
         [] l[1].id = "mixed-line-ending" -> Short({X, CR, LF, Nul}, 5)
         [] l[1].id = "fix-byte-order-marker" -> Short({X, Mark, LF}, 3)
         [] l[1].id = "file-contents-sorter" -> Short({X, "X", Space, CR, LF}, 4)
         [] l[1].id = "detect-private-key" -> Short({X, "X"}, 7)
         [] l[1].id = "check-merge-conflict" -> Short({"<", ">", Space, LF}, 5) \cup Conflicting
         [] l[1].id \in {"deny-pattern", "require-pattern"} -> Short({X, "X", CR, LF}, 4)
         [] l[1].id = "pretty-format-json" ->
              Objects \cup UNION {Flawed(text) : text \in Around({})} \cup Formats(l[1].option)
         [] l[1] \in Json -> Objects \cup UNION {Flawed(text) : text \in Around({})}
         [] l[1].id \in {"check-json5", "check-jsonc"} -> Around({}) \cup UNION {Flawed(text) : text \in Around({})}
         [] l[1].id = "check-vcs-permalinks" -> Short({X, "hash", "branch", "other"}, 2)
         [] l[1] \in Parsers -> Short({X, Error, Document, UnknownTag}, 2)
         [] l[1].id \in AsksGit -> {<<>>}
         [] l[1].id = "requirements-txt-fixer" -> Short({X, "X", Hash, Backslash, LF}, 5) \cup NamedRequirements
MCContents(l) ==
  IF l \in Shared THEN [Files -> {<<X, LF>>, <<Mark, X>>, <<LF, X, CR>>, <<LF>>}]
  ELSE {[f \in Files |-> IF f = "f" THEN text ELSE <<>>] : text \in Texts1(l)}

-----------------------------------------------------------------------------
MCPaths == {"a", "A", "D", "d/a", "d"}
MCParents == [p \in MCPaths |-> IF p = "d/a" THEN {"d"} ELSE {}]
MCFolded == [p \in MCPaths |-> CASE p = "A" -> "a" [] p = "D" -> "d" [] OTHER -> p]
MCTargets == <<X>> :> "a" @@ <<X, LF>> :> "A" @@ <<LF>> :> "d" @@ <<X, X>> :> "D"
Entry(mode, content) == [mode |-> mode, content |-> content]
Regular(contents) == {Entry("regular", c) : c \in contents}
Links1(contents) == {Entry("link", c) : c \in contents}
Trees(paths, entries) == UNION {[s -> entries] : s \in SUBSET paths}

Nothing == [flow |-> "commit", base |-> <<>>, head |-> <<>>, index |-> <<>>, tree |-> <<>>, fileMode |-> TRUE,
            allExecutable |-> FALSE, lfs |-> {}, ref |-> <<>>, from |-> "none", to |-> "none", above |-> <<>>,
            merges |-> {}, signed |-> {}, remote |-> {}]
Commit(old, new) == [Nothing EXCEPT !.head = old, !.index = new, !.tree = new]
Push(old, new) == [Nothing EXCEPT !.flow = "push", !.base = old, !.head = new, !.index = new, !.tree = new]
Everything(old, new) == [Commit(old, new) EXCEPT !.flow = "all"]
From(olds, news) ==
  UNION {{Commit(old, new), Push(old, new), Everything(old, new)} : old \in olds, new \in news}
Between(trees) == From(trees, trees)

Branches == {<<>>, <<Heads, "main">>, <<Heads, Heads, "main">>, <<Heads, "main", "next">>, <<Heads, "release", "1">>}
\* c1 - c2 - m, and c1 - d - m
MCAbove == "c1" :> {"c1"} @@ "c2" :> {"c1", "c2"} @@ "d" :> {"c1", "d"} @@ "m" :> {"c1", "c2", "d", "m"}
           @@ "none" :> {}
Pushed(from, to, signed) ==
  [Nothing EXCEPT !.flow = "push", !.from = from, !.to = to, !.above = MCAbove, !.merges = {"m"},
                  !.signed = signed, !.remote = MCAbove[from]]

MCRepositories(l) ==
  CASE l[1].id = "check-added-large-files" ->
         {[r EXCEPT !.lfs = lfs] : lfs \in {{}, {"a"}},
            r \in Between(Trees({"a", "A"}, Regular({<<X>>, <<X, X, LF>>}) \cup Links1({<<X, X>>})))}
    [] l[1].id = "check-case-conflict" ->
         Between({t \in Trees({"a", "A", "D", "d/a"}, Regular({<<X>>}) \cup Links1({<<X>>})) :
                    Cardinality(DOMAIN t) <= 3})
    [] l[1].id \in {"check-executables-have-shebangs", "check-shebang-scripts-are-executable"} ->
         {[r EXCEPT !.fileMode = f, !.allExecutable = x] : f \in BOOLEAN, x \in BOOLEAN,
            r \in From({<<>>}, Trees({"a", "A"}, {Entry(mode, c) : mode \in {"regular", "executable"},
                                                   c \in {<<X>>, Shebang, Shebang \o <<Nul>>}}))}
    [] l[1].id = "check-symlinks" ->
         From({<<>>}, Trees({"a", "A", "d/a"}, Regular({<<X>>}) \cup Links1(DOMAIN MCTargets)))
    [] l[1].id = "destroyed-symlinks" ->
         Between(Trees({"a"}, Regular(Short({X, CR, LF}, 3)) \cup Links1({<<X>>, <<X, LF>>, <<X, X>>})))
    [] l[1].id = "forbid-new-submodules" ->
         Between(Trees({"a", "A"}, Regular({<<X>>}) \cup {Entry("submodule", <<X>>), Entry("submodule", <<LF>>)}))
    [] l[1].id = "no-commit-to-branch" -> {[Nothing EXCEPT !.ref = ref] : ref \in Branches}
    [] l[1].id = "check-signed-commit" ->
         {Pushed(from, to, signed) : from \in DOMAIN MCAbove, to \in DOMAIN MCAbove \ {"none"},
                                     signed \in SUBSET {"c1", "c2", "d"}}
           \cup {[Nothing EXCEPT !.to = to] : to \in {"none", "c1", "m"}}
    [] l[1].id \in {"check-illegal-windows-names", "deny-filename-pattern", "require-filename-pattern"} ->
         Between(Trees({"a", "A"}, Regular({<<X>>}) \cup Links1({<<X>>})))
    [] OTHER -> {Nothing}
=============================================================================
