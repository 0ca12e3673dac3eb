------------------------------- MODULE MCUpdate -------------------------------
(***************************************************************************)
(* An instance of Update for TLC: two projects share a repository, one of  *)
(* them has a second; tags appear, move and are not versions.              *)
(***************************************************************************)
EXTENDS Update

MCTags == {"v1", "v2", "nightly"}
MCCommits == {"c1", "c2"}
MCVersion == [t \in MCTags |-> CASE t = "v1" -> 1 [] t = "v2" -> 2 [] OTHER -> 0]
MCRank == [t \in MCTags |-> CASE t = "nightly" -> 0 [] t = "v1" -> 1 [] OTHER -> 2]
MCDotted == {"v1", "v2"}
MCDistance ==
  [t \in MCTags |-> [r \in MCTags \cup MCCommits |->
    IF t = r THEN 0 ELSE IF {t, r} = {"v1", "v2"} THEN 1 ELSE 7]]
MCHistory == [c \in MCCommits |-> IF c = "c1" THEN {"c1"} ELSE MCCommits]
MCManifest == [c \in MCCommits |-> IF c = "c1" THEN {"h", "k"} ELSE {"h"}]

\* The first release; a second, with another tag; the second tag moved to the first commit.
Tag(time, commit) == [time |-> time, commit |-> commit]
First1 == [tags |-> [t \in {"v1"} |-> Tag(0, "c1")], head |-> "c1"]
Second ==
  [tags |-> [t \in MCTags |-> IF t = "v1" THEN Tag(0, "c1") ELSE Tag(1, "c2")], head |-> "c2"]
Moved == [tags |-> [t \in {"v1", "v2"} |-> Tag(IF t = "v1" THEN 0 ELSE 1, "c1")], head |-> "c2"]
MCRemotes == {First1, Second, Moved}

E(repo, rev, frozen, hooks) == [repo |-> repo, rev |-> rev, frozen |-> frozen, hooks |-> hooks]
MCEntries ==
  {E("r", "v1", "none", {"h"}), E("r", "v1", "none", {"h", "k"}), E("r", "c2", "v1", {"h"}),
   E("r", "v2", "none", {"h"}), E("s", "v1", "none", {"h"})}

Request(cooldown, freeze, repos, edge, dry, code) ==
  [cooldown |-> cooldown, freeze |-> freeze, include |-> {}, exclude |-> {},
   including |-> [r \in {"r", "s"} |-> {}],
   excluding |-> [r \in {"r", "s"} |-> IF r = "s" THEN {"v2"} ELSE {}],
   repos |-> repos, edge |-> edge, dry |-> dry, code |-> code]
MCRequests ==
  {Request({}, FALSE, {"r", "s"}, FALSE, FALSE, FALSE), Request({0}, TRUE, {"r", "s"}, FALSE, FALSE, TRUE),
   Request({1}, TRUE, {"r", "s"}, FALSE, FALSE, FALSE),
   Request({}, FALSE, {"r"}, TRUE, FALSE, FALSE), Request({}, FALSE, {"r", "s"}, FALSE, TRUE, TRUE)}

\* One project waits before it updates, the other has no nightly versions.
Filters(include, exclude) == [include |-> include, exclude |-> exclude]
NoFilters == [r \in {"r", "s"} |-> Filters({}, {})]
Options(cooldown, freeze, include, repos) ==
  [cooldown |-> cooldown, freeze |-> freeze, include |-> include, exclude |-> {}, repos |-> repos]
MCProjectOptions ==
  [p \in {"p", "q"} |-> IF p = "p" THEN Options({1}, {}, {}, NoFilters)
                        ELSE Options({}, {FALSE}, {MCTags}, [NoFilters EXCEPT !["r"] = Filters({{"v1", "v2"}}, {})])]
MCGlobalOptions == Options({0}, {FALSE}, {}, NoFilters)

\* A user removes all entries, or exchanges two.
MCRewrites == {<<>>, <<E("s", "v1", "none", {"h"}), E("r", "v1", "none", {"h"})>>}

\* Both projects have the same entry, the second has another.
SomeInit ==
  /\ config \in {[x \in Projects |-> IF x = "p" THEN <<e>> ELSE <<e, f>>] :
                   e \in {x \in MCEntries : x.repo = "r" /\ x.hooks = {"h"}},
                   f \in {E("r", "v1", "none", {"h", "k"}), E("s", "v1", "none", {"h"})}}
  /\ now = 0
  /\ request = Request({}, FALSE, {"r", "s"}, FALSE, FALSE, FALSE)
  /\ remote \in {[x \in Repos |-> IF x = "r" THEN R ELSE Second] : R \in {First1, Second}}
  /\ Init
MCSpec == SomeInit /\ [][Next]_vars
=============================================================================
