------------------------------ MODULE Revisions ------------------------------
(***************************************************************************)
(* How `prek update` selects a revision for a repository of hooks          *)
(* (cli/update/repository.rs, cli/update/source.rs), as a function of what *)
(* was fetched: its tags with their times and commits, and its head.       *)
(***************************************************************************)
EXTENDS Naturals, FiniteSets

CONSTANTS
  Tags, Commits,
  Hooks,
  Version,    \* [Tags -> Nat], the order of semantic versions, 0 if it is none
  Rank,       \* [Tags -> Nat], the order of names
  Dotted,     \* tags with a dot in their name
  Distance,   \* [Tags -> [Tags \cup Commits -> Nat]], of Levenshtein
  History,    \* [Commits -> SUBSET Commits], what a commit leads to, itself included
  Manifest    \* [Commits -> SUBSET Hooks], {} without a manifest

ASSUME TagsAssumption ==
  /\ Version \in [Tags -> Nat] /\ Rank \in [Tags -> Nat] /\ Dotted \subseteq Tags
  /\ \A s, t \in Tags : Rank[s] = Rank[t] => s = t
  /\ Distance \in [Tags -> [Tags \cup Commits -> Nat]]
  /\ \A t \in Tags, r \in Tags \cup Commits : Distance[t][r] = 0 <=> t = r
  /\ Tags \cap Commits = {} /\ {"none", "failed"} \cap (Tags \cup Commits) = {}

ASSUME CommitsAssumption ==
  /\ Manifest \in [Commits -> SUBSET Hooks]
  /\ History \in [Commits -> SUBSET Commits] /\ \A c \in Commits : c \in History[c]

IsFetched(R) ==
  /\ DOMAIN R.tags \subseteq Tags /\ IsFiniteSet(DOMAIN R.tags) /\ R.head \in Commits
  /\ \A t \in DOMAIN R.tags : R.tags[t].time \in Nat /\ R.tags[t].commit \in Commits

TagsOf(R) == DOMAIN R.tags
TagsAt(R, tags, c) == {t \in tags \cap TagsOf(R) : R.tags[t].commit = c}

\* resolve_revision_to_commit
Resolve(R, rev) ==
  CASE rev \in Commits -> rev
    [] rev \in TagsOf(R) -> R.tags[rev].commit
    [] OTHER -> "none"

\* is_commit_present: reachable from what was fetched.
IsPresent(R, c) ==
  \E d \in {R.head} \cup {R.tags[t].commit : t \in TagsOf(R)} : c \in History[d]

\* compare_tag_metadata(s, t) is Less: s comes first, as the newer.
SortsNewer(R, s, t) ==
  \/ R.tags[s].time > R.tags[t].time
  \/ /\ R.tags[s].time = R.tags[t].time
     /\ \/ Version[s] > Version[t]
        \/ Version[s] = Version[t] /\ Rank[s] < Rank[t]

Newest(R, tags) == CHOOSE t \in tags : \A s \in tags \ {t} : SortsNewer(R, t, s)

\* current_tag_metadata
CurrentTag(R, rev) ==
  IF rev \in TagsOf(R) THEN rev
  ELSE LET tags == TagsAt(R, Tags, Resolve(R, rev))
       IN IF tags = {} THEN "none" ELSE Newest(R, tags)

\* select_best_tag
Nearer(s, t, rev) ==
  \/ Distance[s][rev] < Distance[t][rev]
  \/ /\ Distance[s][rev] = Distance[t][rev]
     /\ Version[s] > Version[t] \/ (Version[s] = Version[t] /\ Rank[s] < Rank[t])

BestTag(tags, rev, undotted) ==
  LET candidates == IF tags \cap Dotted # {} THEN tags \cap Dotted
                    ELSE IF undotted THEN tags ELSE {}
  IN IF candidates = {} THEN "none"
     ELSE CHOOSE t \in candidates : \A s \in candidates \ {t} : Nearer(t, s, rev)

\* The binary search by time finds any tag of just that time, else the newest older one.
Candidates(R, tags, cutoff) ==
  LET at == {t \in tags \cap TagsOf(R) : R.tags[t].time = cutoff}
      before == {t \in tags \cap TagsOf(R) : R.tags[t].time < cutoff}
  IN IF at # {} THEN at ELSE IF before # {} THEN {Newest(R, before)} ELSE {}

\* Faulty: the newer tag is not kept.
NeverKept(R, rev, candidate) == FALSE

\* The revision is kept rather than downgraded.
Downgrades(R, rev, candidate) ==
  LET tag == CurrentTag(R, rev)
  IN /\ tag # "none" /\ R.tags[tag].commit # R.tags[candidate].commit
     /\ SortsNewer(R, tag, candidate)

\* resolve_bleeding_edge: git names some tag of the head, if there is one.
Edges(R) == LET tags == TagsAt(R, Tags, R.head) IN IF tags = {} THEN {R.head} ELSE tags

Monus(n, k) == IF n >= k THEN n - k ELSE 0

\* select_update_revision, "none" if nothing is eligible.  What is asked is what a
\* configuration asks: [repo, rev, hooks, cooldown, freeze, tags].
Preferred(R, asked, candidate) ==
  LET best == BestTag(TagsAt(R, asked.tags, R.tags[candidate].commit), asked.rev, FALSE)
  IN IF asked.cooldown > 0 /\ Downgrades(R, asked.rev, candidate) THEN asked.rev
     ELSE IF best = "none" THEN candidate ELSE best

Selections(R, asked, edge, now) ==
  LET candidates == Candidates(R, asked.tags, Monus(now, asked.cooldown))
  IN IF edge THEN Edges(R)
     ELSE IF candidates = {} THEN {"none"}
     ELSE {Preferred(R, asked, t) : t \in candidates}

Revision(rev, frozen) == [rev |-> rev, frozen |-> frozen]
Failed == Revision("failed", "none")
NoRevision == Revision("none", "none")

\* checkout_and_validate_manifest
HasHooks(R, rev, hooks) ==
  LET c == Resolve(R, rev)
  IN c # "none" /\ Manifest[c] # {} /\ hooks \subseteq Manifest[c]

\* evaluate_repo_target
Evaluated(R, asked, selected) ==
  LET exact == Resolve(R, selected)
      revision == IF asked.freeze /\ exact # selected THEN Revision(exact, selected)
                  ELSE Revision(selected, "none")
  IN IF selected = "none" THEN Revision(asked.rev, "none")
     ELSE IF revision.rev # "none" /\ HasHooks(R, revision.rev, asked.hooks) THEN revision
     ELSE Failed

\* collect_frozen_mismatches: the comment of a pinned commit, as it should be.
FrozenFor(R, rev, frozen) ==
  LET best == BestTag(TagsAt(R, Tags, rev), frozen, TRUE)
  IN CASE rev \notin Commits \/ frozen = "none" \/ Resolve(R, frozen) = rev -> frozen
       [] rev \in Commits /\ frozen # "none" /\ Resolve(R, frozen) # rev ->
            IF best # "none" THEN best ELSE IF IsPresent(R, rev) THEN "none" ELSE frozen
=============================================================================
