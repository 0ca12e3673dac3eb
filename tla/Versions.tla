------------------------------ MODULE Versions ------------------------------
(***************************************************************************)
(* The version requests of prek's languages: how the configured text is    *)
(* read (languages/<language>/version.rs), which versions a request        *)
(* accepts, and how the fragments of a `language_version` are merged       *)
(* (config/hook.rs).                                                       *)
(*                                                                         *)
(* A configured text is a record [name, body]: the name of the tool that   *)
(* may stand before the version ("python3.12", "bun@1.1"), or "", and what *)
(* is left: numbers, comparators, a word, a feature band.  A version is    *)
(* <<major, minor, patch>>.  Versions before a release are left out.       *)
(***************************************************************************)
EXTENDS Naturals, Sequences, SequencesExt

Invalid == [kind |-> "invalid"]
AnyVersion == [kind |-> "any"]
Unrecorded == <<0, 0, 0>>

Blank        == [t |-> "blank"]
Numbers(v)   == [t |-> "numbers", v |-> v]
Word(w)      == [t |-> "word", w |-> w]
Codename(w)  == [t |-> "codename", w |-> w]
Band(v)      == [t |-> "band", v |-> v]
Compare(cs)  == [t |-> "compare", cs |-> cs]   \* cs: a set of <<operator, numbers>>
Text(name, body) == [name |-> name, body |-> body]
NoText == Text("", Blank)

-----------------------------------------------------------------------------
(* semver::VersionReq: what one comparator accepts, its numbers possibly   *)
(* partial.                                                                *)

\* a is smaller than the partial version b
Smaller(a, b) == \E i \in DOMAIN b :
                    a[i] < b[i] /\ \A j \in 1 .. i - 1 : a[j] = b[j]
Larger(a, b)  == \E i \in DOMAIN b :
                    a[i] > b[i] /\ \A j \in 1 .. i - 1 : a[j] = b[j]

\* how many leading numbers a caret fixes: up to the first that is not zero
FixedByCaret(b) ==
    IF \A i \in DOMAIN b : b[i] = 0 THEN Len(b)
    ELSE CHOOSE i \in DOMAIN b : b[i] > 0 /\ \A j \in 1 .. i - 1 : b[j] = 0

Accepts(op, b, v) ==
    CASE op = "="  -> IsPrefix(b, v)
      [] op = ">"  -> Larger(v, b)
      [] op = ">=" -> ~Smaller(v, b)
      [] op = "<"  -> Smaller(v, b)
      [] op = "<=" -> ~Larger(v, b)
      [] op = "~"  -> ~Smaller(v, b) /\ IsPrefix(SubSeq(b, 1, IF Len(b) > 2 THEN 2 ELSE Len(b)), v)
      [] op = "^"  -> ~Smaller(v, b) /\ IsPrefix(SubSeq(b, 1, FixedByCaret(b)), v)

-----------------------------------------------------------------------------
(* The text a language accepts.                                            *)

\* One, two or three numbers name the versions that begin with them.
ParseVersionNumbers(body) ==
    IF body.t = "numbers" /\ Len(body.v) \in 1 .. 3
    THEN [kind |-> "numbers", v |-> body.v]
    ELSE Invalid

\* A single number of several digits is a wheel tag: 38 stands for 3.8.
SplitWheelTag(body) ==
    IF body.t # "numbers" \/ Len(body.v) # 1 \/ body.v[1] < 10 THEN body
    ELSE LET n == body.v[1]
             d == CHOOSE p \in {10, 100, 1000} : p <= n /\ n < 10 * p
         IN  Numbers(<<n \div d, n % d>>)

ParseRange(body) ==
    CASE body.t = "compare" -> [kind |-> "range", cs |-> body.cs]
      [] body.t = "numbers" /\ Len(body.v) \in 1 .. 3
             -> [kind |-> "range", cs |-> {<<"^", body.v>>}]
      [] OTHER -> Invalid

NumbersOrRange(body) ==
    IF ParseVersionNumbers(body) # Invalid THEN ParseVersionNumbers(body) ELSE ParseRange(body)

\* "python", "go", "node", "ruby" and "ruby-" may stand before numbers only.
Named(text, name, numbers) ==
    CASE text.name = name /\ text.body = Blank -> AnyVersion
      [] text.name = name -> numbers
      [] OTHER -> Invalid

ParsePython(text) ==
    CASE text = NoText    -> AnyVersion
      [] text.name # ""   -> Named(text, "python", ParseVersionNumbers(SplitWheelTag(text.body)))
      [] OTHER            -> NumbersOrRange(SplitWheelTag(text.body))

ParseGolang(text) ==
    CASE text = NoText    -> AnyVersion
      [] text.name # ""   -> Named(text, "go", ParseVersionNumbers(text.body))
      [] OTHER            -> NumbersOrRange(text.body)

ParseRuby(text) ==
    CASE text = NoText    -> AnyVersion
      [] text.name # ""   -> Named(text, "ruby", ParseVersionNumbers(text.body))
      [] OTHER            -> NumbersOrRange(text.body)

\* A codename is letters and digits; the model's codenames are.
ParseNode(text) ==
    CASE text = NoText               -> AnyVersion
      [] text.name # ""              -> Named(text, "node", ParseVersionNumbers(text.body))
      [] text.body = Word("lts")     -> [kind |-> "lts"]
      [] text.body.t = "codename"    -> [kind |-> "codename", w |-> text.body.w]
      [] OTHER                       -> NumbersOrRange(text.body)

\* "bun" alone, "bun@latest", "bun@<numbers>"; the same for deno, but "deno" alone
AtName(text, name) ==
    CASE text.name # name                 -> Invalid
      [] text.body = Word("latest")       -> AnyVersion
      [] OTHER                            -> ParseVersionNumbers(text.body)

ParseBun(text) ==
    CASE text = NoText                    -> AnyVersion
      [] text = Text("bun", Blank)        -> AnyVersion
      [] text.name # ""                   -> AtName(text, "bun")
      [] OTHER                            -> NumbersOrRange(text.body)

ParseDeno(text) ==
    CASE text = NoText                    -> AnyVersion
      [] text = Text("deno", Blank)       -> AnyVersion
      [] text.name # ""                   -> AtName(text, "deno")
      [] OTHER                            -> NumbersOrRange(text.body)

ParseRust(text) ==
    CASE text = NoText                    -> AnyVersion
      [] text.name # ""                   -> Invalid
      [] text.body \in {Word("stable"), Word("beta"), Word("nightly")}
                                          -> [kind |-> "channel", w |-> text.body.w]
      [] OTHER                            -> NumbersOrRange(text.body)

\* No ranges: a major version is its .0 channel, three numbers are exact.
ParseDotnet(text) ==
    CASE text.name \notin {"", "net"}     -> Invalid
      [] text.body = Blank                -> AnyVersion
      [] text.body \in {Word("lts"), Word("sts")}
                                          -> [kind |-> "track", w |-> text.body.w]
      [] text.body.t = "band"             -> [kind |-> "band", v |-> text.body.v]
      [] text.body.t = "numbers" /\ Len(text.body.v) = 1
                                          -> [kind |-> "numbers", v |-> Append(text.body.v, 0)]
      [] OTHER                            -> ParseVersionNumbers(text.body)

ParseSemver(text) ==
    CASE text = NoText                    -> AnyVersion
      [] text.name # ""                   -> Invalid
      [] OTHER                            -> ParseRange(text.body)

ParseRequest(language, text) ==
    CASE language = "python" -> ParsePython(text)
      [] language = "golang" -> ParseGolang(text)
      [] language = "ruby"   -> ParseRuby(text)
      [] language = "node"   -> ParseNode(text)
      [] language = "bun"    -> ParseBun(text)
      [] language = "deno"   -> ParseDeno(text)
      [] language = "rust"   -> ParseRust(text)
      [] language = "dotnet" -> ParseDotnet(text)
      [] OTHER               -> ParseSemver(text)

-----------------------------------------------------------------------------
(* Which versions a request accepts.                                       *)

\* the track of a .NET release: even majors from 5 on are supported for long
ReleaseTrack(v) ==
    CASE <<v[1], v[2]>> \in {<<1, 0>>, <<1, 1>>, <<2, 1>>, <<3, 1>>} -> "lts"
      [] <<v[1], v[2]>> \in {<<2, 0>>, <<2, 2>>, <<3, 0>>}           -> "sts"
      [] v[1] >= 5 /\ v[2] = 0 -> IF v[1] % 2 = 0 THEN "lts" ELSE "sts"
      [] OTHER -> "none"

\* label is the codename of a node release or the channel of a rust toolchain
Matches(request, version, label) ==
    CASE request.kind = "any"      -> TRUE
      [] request.kind = "numbers"  -> IsPrefix(request.v, version)
      [] request.kind = "range"    -> \A c \in request.cs : Accepts(c[1], c[2], version)
      [] request.kind = "lts"      -> label # "none"
      [] request.kind \in {"codename", "channel"} -> label = request.w
      [] request.kind = "track"    -> ReleaseTrack(version) = request.w
      [] request.kind = "band"     -> version[1] = request.v[1] /\ version[2] = request.v[2]
                                      /\ version[3] \div 100 = request.v[3]

\* rust: without a request, a toolchain of the stable channel or a release
RustSatisfiedBy(request, info) ==
    IF request.kind = "any" THEN info.label = "stable" \/ info.version[1] > 0
    ELSE Matches(request, info.version, info.label)

SatisfiedBy(language, request, info) ==
    IF language = "rust" THEN RustSatisfiedBy(request, info)
    ELSE Matches(request, info.version, info.label)

-----------------------------------------------------------------------------
(* A `language_version`: the request it states, whether a toolchain may be *)
(* downloaded, and which toolchains are preferred.                         *)

LanguageVersion(request, text, preference, downloads) ==
    [request |-> request, text |-> text, preference |-> preference, downloads |-> downloads]

\* texts is {} or {the request}; "default" and "system" name no version
FromWire(texts, preference) ==
    CASE texts = {}                          -> LanguageVersion("unspecified", NoText, preference, TRUE)
      [] texts = {Text("", Word("default"))} -> LanguageVersion("default", NoText, preference, TRUE)
      [] texts = {Text("", Word("system"))}  -> LanguageVersion("default", NoText, preference, FALSE)
      [] OTHER -> LanguageVersion("explicit", CHOOSE t \in texts : TRUE, preference, TRUE)

\* the configuration's fragment over the manifest's
UpdateVersion(mine, other) ==
    LET said == IF other.request # "unspecified" THEN other ELSE mine
    IN  [said EXCEPT !.preference = IF other.preference # "none" THEN other.preference
                                    ELSE mine.preference]

\* a hook's fragment over the project's default for its language
ApplyDefaults(mine, defaults) ==
    LET said == IF mine.request = "unspecified" THEN defaults ELSE mine
    IN  [said EXCEPT !.preference = IF mine.preference # "none" THEN mine.preference
                                    ELSE defaults.preference]

IsDefault(lv) == lv.preference = "none" /\ lv.request # "explicit" /\ lv.downloads

Preference(lv) == IF lv.preference = "none" THEN "managed" ELSE lv.preference

\* the order in which toolchains are searched
SearchOrder(preference) ==
    CASE preference = "only-managed" -> <<"managed">>
      [] preference = "managed"      -> <<"managed", "system">>
      [] preference = "system"       -> <<"system", "managed">>
      [] preference = "only-system"  -> <<"system">>

\* LanguageRequest::from_config: the version request with the policy
RequestOf(language, lv) ==
    [version    |-> ParseRequest(language, lv.text),
     preference |-> Preference(lv),
     downloads  |-> lv.downloads /\ Preference(lv) # "only-system"]
=============================================================================
