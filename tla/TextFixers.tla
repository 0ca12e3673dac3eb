------------------------------ MODULE TextFixers ------------------------------
(***************************************************************************)
(* The built-in hooks that rewrite text (hooks/pre_commit_hooks), as       *)
(* functions of the contents of a file: a sequence of bytes, of which      *)
(* there are the few that the hooks tell apart, and a byte order mark.     *)
(***************************************************************************)
EXTENDS Integers, SequencesExt, FiniteSetsExt

CONSTANTS
  Order,      \* [Bytes -> Nat], the order of bytes
  Lower,      \* [Bytes -> Bytes], to_ascii_lowercase
  BlockSize,  \* bytes that end-of-file-fixer reads at once
  Lanes,      \* counters of mixed-line-ending that are counted in parallel,
  LaneMax,    \* and the largest value of one
  Broken      \* requirements that are removed, pkg-resources==0.0.0

CR == "cr"
LF == "lf"
Space == "space"
Nul == "nul"
Mark == "mark"
Hash == "#"
Backslash == "\\"
Semicolon == ";"
Egg == "&egg="   \* the marker of a name in a URL, or #egg=
Bytes == DOMAIN Order
Blanks == {Space, CR, LF}

ASSUME BytesAssumption ==
  /\ {CR, LF, Space, Nul, Mark, Hash, Backslash, Semicolon, Egg} \subseteq Bytes
  /\ Order \in [Bytes -> Nat] /\ \A b, c \in Bytes : Order[b] = Order[c] => b = c
  /\ Lower \in [Bytes -> Bytes] /\ \A b \in Bytes : Lower[Lower[b]] = Lower[b]
  /\ {BlockSize, Lanes, LaneMax} \subseteq Nat \ {0} /\ Broken \subseteq Seq(Bytes)

Upto(s, n) == SubSeq(s, 1, n)
After(s, n) == SubSeq(s, n + 1, Len(s))
IsBlank(s) == ToSet(s) \subseteq Blanks
TrimEnd(s, bytes) == Upto(s, Max({0} \cup {i \in DOMAIN s : s[i] \notin bytes}))
EndsWith(s, t) == IsSuffix(t, s)

\* lines_with_terminator: a line has the LF that ends it.
Lines(text) ==
  LET ends == SetToSortSeq({i \in DOMAIN text : text[i] = LF \/ i = Len(text)}, <)
  IN [k \in DOMAIN ends |-> SubSeq(text, IF k = 1 THEN 1 ELSE ends[k - 1] + 1, ends[k])]

\* detect_line_ending
Ending(line) ==
  CASE EndsWith(line, <<CR, LF>>) -> <<CR, LF>>
    [] EndsWith(line, <<LF>>) /\ ~EndsWith(line, <<CR, LF>>) -> <<LF>>
    [] EndsWith(line, <<CR>>) -> <<CR>>
    [] OTHER -> <<>>
Body(line) == Upto(line, Len(line) - Len(Ending(line)))

-----------------------------------------------------------------------------
(***************************************************************************)
(* trailing-whitespace.  Its options are [chars, markdown].                *)
(***************************************************************************)
Plain(o) == o.chars = {} /\ ~o.markdown

\* Faulty: a CR that belongs to no line ending is taken for one.
CleanUpToAnyCR(line) ==
  LET body == TrimEnd(line, {CR, LF}) IN body = <<>> \/ Last(body) # Space

\* first_line_with_trailing_whitespace, for one line.
Clean(line) ==
  LET body == Body(line) IN body = <<>> \/ Last(body) \notin {Space, CR}

TrimmedLine(line, o) ==
  LET body == Body(line)
      break == o.markdown /\ EndsWith(body, <<Space, Space>>) /\ ~IsBlank(body)
      core == IF break THEN Upto(body, Len(body) - 2) ELSE body
  IN TrimEnd(core, IF o.chars = {} THEN Blanks ELSE o.chars)
       \o (IF break THEN <<Space, Space>> ELSE <<>>) \o Ending(line)

Trimmed(text, o) ==
  LET lines == Lines(text)
  IN IF Plain(o) /\ \A k \in DOMAIN lines : Clean(lines[k]) THEN text
     ELSE FlattenSeq([k \in DOMAIN lines |-> TrimmedLine(lines[k], o)])

-----------------------------------------------------------------------------
(***************************************************************************)
(* end-of-file-fixer.                                                      *)
(***************************************************************************)
Blocks(text) ==
  LET before(k) == Max({0, Len(text) - k * BlockSize})
  IN [k \in 1..((Len(text) + BlockSize - 1) \div BlockSize) |-> <<before(k) + 1, before(k - 1)>>]

ScanByte(text, scan, i) ==
  CASE scan.length >= 0 -> scan
    [] scan.length < 0 /\ text[i] \notin {CR, LF} ->
         [scan EXCEPT !.length = i + Max({scan.ending, 1})]
    [] OTHER -> [scan EXCEPT !.ending = IF text[i] = CR /\ scan.next = LF THEN 2 ELSE 1,
                             !.next = text[i]]

\* Faulty: an ending that a block cuts is not seen whole.
ScanBlockAlone(text, scan, block) ==
  FoldLeft(LAMBDA s, k : ScanByte(text, s, block[2] + 1 - k), [scan EXCEPT !.next = Nul],
           [k \in 1..(block[2] + 1 - block[1]) |-> k])

\* A block is read from its end; the byte after it is kept from the last one.
ScanBlock(text, scan, block) ==
  FoldLeft(LAMBDA s, k : ScanByte(text, s, block[2] + 1 - k), scan,
           [k \in 1..(block[2] + 1 - block[1]) |-> k])

\* fixed_file_len
FixedLength(text) ==
  LET scan == FoldLeft(LAMBDA s, block : ScanBlock(text, s, block),
                       [length |-> -1, ending |-> 0, next |-> Nul], Blocks(text))
  IN Max({scan.length, 0})

Ended(text) ==
  LET n == FixedLength(text)
  IN IF n > Len(text) THEN text \o <<LF>> ELSE Upto(text, n)

-----------------------------------------------------------------------------
(***************************************************************************)
(* mixed-line-ending.  Its option is Auto, No or an ending.               *)
(***************************************************************************)
Auto == <<"auto">>
No == <<"no">>
Endings == {<<CR>>, <<CR, LF>>, <<LF>>}

\* Faulty: a counter takes one byte more than it can count.
BatchOverflowing == Lanes * (LaneMax + 1)

Batch == Lanes * LaneMax

\* The bytes from the second on, each beside its predecessor, are counted in batches: a lane
\* wraps above LaneMax, and what does not fill the lanes is counted by itself.
Count(text, P(_)) ==
  LET n == Len(text) - 1
      offset(j) == (j - 1) % Batch
      whole(j) ==  \* bytes of its batch that fill the lanes
        LET from == j - 1 - offset(j) IN (Min({Batch, n - from}) \div Lanes) * Lanes
      laned == {j \in 1..n : offset(j) < whole(j)}
      counted(batch, lane) ==
        Cardinality({j \in laned : (j - 1) \div Batch = batch /\ offset(j) % Lanes = lane /\ P(j + 1)})
  IN Cardinality({j \in (1..n) \ laned : P(j + 1)})
       + MapThenSumSet(LAMBDA c : counted(c[1], c[2]) % (LaneMax + 1),
                       (0..(n \div Batch)) \X (0..Lanes - 1))

\* count_line_endings
Counts(text) ==
  LET first(b) == IF text # <<>> /\ text[1] = b THEN 1 ELSE 0
      pairs == Count(text, LAMBDA j : text[j] = LF /\ text[j - 1] = CR)
      cr == first(CR) + Count(text, LAMBDA j : text[j] = CR)
      lf == first(LF) + Count(text, LAMBDA j : text[j] = LF)
  IN [e \in Endings |-> CASE e = <<CR>> -> cr - pairs [] e = <<LF>> -> lf - pairs [] OTHER -> pairs]

\* find_most_common_ending
MostCommon(counts) ==
  CASE counts[<<LF>>] >= counts[<<CR, LF>>] /\ counts[<<LF>>] >= counts[<<CR>>] -> <<LF>>
    [] counts[<<CR, LF>>] > counts[<<LF>>] /\ counts[<<CR, LF>>] >= counts[<<CR>>] -> <<CR, LF>>
    [] OTHER -> <<CR>>

\* normalize_line_endings
Normalized(text, ending) ==
  FlattenSeq([i \in DOMAIN text |->
      CASE text[i] = CR -> ending
        [] text[i] = LF -> IF i > 1 /\ text[i - 1] = CR THEN <<>> ELSE ending
        [] OTHER -> <<text[i]>>])
    \o IF Last(text) \in {CR, LF} THEN <<>> ELSE ending

IsText(text) == text # <<>> /\ Nul \notin ToSet(text)
Unmixed(text, fix) ==
  LET counts == Counts(text)
      ending == IF fix = Auto THEN MostCommon(counts) ELSE fix
  IN IF fix = No \/ ~IsText(text) \/ (fix \in {Auto, <<LF>>} /\ CR \notin ToSet(text))
        \/ \A e \in Endings \ {ending} : counts[e] = 0
     THEN text ELSE Normalized(text, ending)

IsMixed(text) == IsText(text) /\ Cardinality({e \in Endings : Counts(text)[e] > 0}) > 1

-----------------------------------------------------------------------------
(***************************************************************************)
(* fix-byte-order-marker and file-contents-sorter, with [nocase, unique].  *)
(***************************************************************************)
Unmarked(text) == IF IsPrefix(<<Mark>>, text) THEN Tail(text) ELSE text

Less(s, t) ==
  \E k \in DOMAIN t :
    /\ \A i \in 1..k - 1 : i \in DOMAIN s /\ s[i] = t[i]
    /\ k > Len(s) \/ Order[s[k]] < Order[t[k]]

LowerCase(s) == [i \in DOMAIN s |-> Lower[s[i]]]

\* sort_by_cached_key, which is stable.
SortedBy(seq, Before(_, _)) ==
  LET order == SetToSortSeq(DOMAIN seq, LAMBDA i, j :
                 Before(seq[i], seq[j]) \/ (~Before(seq[j], seq[i]) /\ i < j))
  IN [k \in DOMAIN seq |-> seq[order[k]]]

Dedup(seq) ==
  FlattenSeq([k \in DOMAIN seq |-> IF k > 1 /\ seq[k - 1] = seq[k] THEN <<>> ELSE <<seq[k]>>])

\* Faulty: lines that differ in case only change places.
SortedLinesBackwards(lines, o) ==
  IF o.nocase THEN SortedBy(Reverse(lines), LAMBDA s, t : Less(LowerCase(s), LowerCase(t)))
  ELSE IF o.unique THEN Dedup(SortedBy(lines, Less)) ELSE SortedBy(lines, Less)

SortedLines(lines, o) ==
  IF o.nocase THEN SortedBy(lines, LAMBDA s, t : Less(LowerCase(s), LowerCase(t)))
  ELSE IF o.unique THEN Dedup(SortedBy(lines, Less)) ELSE SortedBy(lines, Less)

NormalLines(text) ==
  LET lines == Lines(text)
  IN SelectSeq([k \in DOMAIN lines |-> TrimEnd(lines[k], {CR, LF})], LAMBDA line : ~IsBlank(line))

Sorted(text, o) ==
  LET lines == SortedLines(NormalLines(text), o)
  IN FlattenSeq([k \in DOMAIN lines |-> lines[k] \o <<LF>>])

-----------------------------------------------------------------------------
(***************************************************************************)
(* requirements-txt-fixer.  A requirement has comments before it.          *)
(***************************************************************************)
IsComplete(value) ==
  value # <<>> /\ LET core == TrimEnd(value, {CR, LF}) IN core = <<>> \/ Last(core) # Backslash
IsComment(line) == \E i \in DOMAIN line : line[i] = Hash /\ IsBlank(Upto(line, i - 1))

Requirement(value, comments) == [value |-> value, comments |-> comments]
NotRead == [header |-> <<>>, list |-> <<>>, value |-> <<>>, comments |-> <<>>]

\* take_requirement
Taken(p) ==
  IF p.value = <<>> THEN p
  ELSE [p EXCEPT !.list = Append(@, Requirement(p.value, p.comments)), !.value = <<>>, !.comments = <<>>]

\* Faulty: a comment after an incomplete line is not kept.
ReadLineOnly(p, line) ==
  LET q == IF IsComplete(p.value) THEN Taken(p) ELSE p
  IN IF IsComment(line) /\ q.value # <<>> THEN q
     ELSE IF IsComment(line) \/ IsBlank(line) THEN [q EXCEPT !.comments = Append(@, line)]
     ELSE [q EXCEPT !.value = @ \o line]

\* One line of ParsedRequirements::parse; the first blank line after a comment ends the header.
ReadLine(p, line) ==
  LET q == IF IsComplete(p.value) THEN Taken(p) ELSE p
      atStart == q.header = <<>> /\ q.list = <<>>
  IN IF atStart /\ IsBlank(line) /\ q.comments # <<>> /\ q.comments[1][1] = Hash
     THEN [NotRead EXCEPT !.header = Append(q.comments, line)]
     ELSE IF IsComment(line) \/ IsBlank(line) THEN [q EXCEPT !.comments = Append(@, line)]
     ELSE [q EXCEPT !.value = @ \o line]

Parsed(text) == Taken(FoldLeft(ReadLine, NotRead, Lines(text)))

\* requirement_name: what follows the egg's marker, or what comes before a comparison, a
\* semicolon or a blank.
Compares(value, i) ==
  \/ value[i] \in {"<", ">"}
  \/ value[i] \in {"=", "!", "~"} /\ i < Len(value) /\ value[i + 1] = "="
Name(value) ==
  LET eggs == {i \in DOMAIN value : value[i] = Egg}
      ends == {i \in DOMAIN value : value[i] \in Blanks \cup {Semicolon} \/ Compares(value, i)}
  IN LowerCase(IF eggs # {} THEN After(value, Min(eggs))
               ELSE Upto(value, IF ends = {} THEN Len(value) ELSE Min(ends) - 1))

\* One that begins with a blank or a semicolon is an error.
IsValid(p) == \A k \in DOMAIN p.list : p.list[k].value[1] \notin Blanks \cup {Semicolon}

Before(r, s) ==
  \/ Less(Name(r.value), Name(s.value))
  \/ Name(r.value) = Name(s.value) /\ r.comments # <<>> /\ s.comments = <<>>

\* sort_and_filter and chunks
Rendered(p) ==
  LET list == SortedBy(SelectSeq(p.list, LAMBDA r : r.value \notin Broken), Before)
  IN FlattenSeq(p.header)
       \o FlattenSeq([k \in DOMAIN list |->
            FlattenSeq(list[k].comments)
              \o IF k > 1 /\ list[k - 1].value = list[k].value THEN <<>> ELSE list[k].value])
       \o FlattenSeq(p.comments)

Completed(text) == IF Last(text) = LF THEN text ELSE text \o <<LF>>
Required(text) ==
  IF IsBlank(text) \/ ~IsValid(Parsed(Completed(text))) THEN text ELSE Rendered(Parsed(Completed(text)))
=============================================================================
