---------------------------- MODULE UpdateProofs ----------------------------
(***************************************************************************)
(* Proofs about Update for any projects, repositories, releases, options   *)
(* and edits.                                                              *)
(***************************************************************************)
EXTENDS Update, FiniteSetTheorems, WellFoundedInduction, TLAPS

(***************************************************************************)
(* A set of numbers has a least one, and a finite set that is totally      *)
(* ordered has a first member.                                             *)
(***************************************************************************)
LEMMA Least ==
  ASSUME NEW some \in SUBSET Nat, some # {}
  PROVE  \E x \in some : \A y \in some : x <= y
<1>1. PICK x \in some : \A y \in some : ~(<<y, x>> \in OpToRel(<, Nat))
  BY NatLessThanWellFounded, WFMin
<1>2. ASSUME NEW y \in some PROVE x <= y
  <2>1. x \in Nat /\ y \in Nat
    OBVIOUS
  <2>2. y < x => <<y, x>> \in OpToRel(<, Nat)
    BY <2>1 DEF OpToRel
  <2>3. ~(y < x)
    BY <1>1, <2>2, Zenon
  <2> QED
    BY <2>1, <2>3
<1> QED
  BY <1>2

LEMMA HasFirst ==
  ASSUME NEW S, IsFiniteSet(S), S # {}, NEW before,
         \A x, y \in S : x # y => <<x, y>> \in before \/ <<y, x>> \in before,
         \A x, y, z \in S : <<x, y>> \in before /\ <<y, z>> \in before => <<x, z>> \in before
  PROVE  \E x \in S : \A y \in S \ {x} : <<x, y>> \in before
<1> DEFINE First1(T) == \E x \in T : \A y \in T \ {x} : <<x, y>> \in before
           without == {T \in SUBSET S : T # {} /\ ~First1(T)}
           sizes == {Cardinality(T) : T \in without}
<1> SUFFICES ASSUME without # {} PROVE FALSE
  OBVIOUS
<1>1. \A T \in SUBSET S : IsFiniteSet(T) /\ Cardinality(T) \in Nat
  BY FS_Subset, FS_CardinalityType
<1>2. sizes \in SUBSET Nat /\ sizes # {}
  BY <1>1
<1>3. PICK n \in sizes : \A m \in sizes : n <= m
  <2> HIDE DEF sizes
  <2> QED
    BY <1>2, Least
<1>4. PICK T \in without : Cardinality(T) = n
  OBVIOUS
<1>5. PICK x \in T : TRUE
  OBVIOUS
<1>6. Cardinality(T \ {x}) = Cardinality(T) - 1
  BY <1>1, FS_RemoveElement
<1>7. T \ {x} \notin without
  <2>1. ~(n <= Cardinality(T \ {x}))
    BY <1>1, <1>4, <1>6
  <2>2. \A U \in without : Cardinality(U) \in sizes
    OBVIOUS
  <2> HIDE DEF without, sizes
  <2> QED
    BY <1>3, <2>1, <2>2
<1>8. CASE T \ {x} = {}
  BY <1>8
<1>9. CASE First1(T \ {x})
  <2>1. PICK y \in T \ {x} : \A z \in T \ {x, y} : <<y, z>> \in before
    BY <1>9
  <2>2. CASE <<y, x>> \in before
    BY <2>1, <2>2
  <2>3. CASE <<x, y>> \in before
    BY <2>1, <2>3
  <2> QED
    BY <2>2, <2>3
<1> QED
  BY <1>7, <1>8, <1>9

-----------------------------------------------------------------------------
(***************************************************************************)
(* Tags are totally ordered, by age and by their resemblance to a revision.*)
(***************************************************************************)
LEMMA NewestIs ==
  ASSUME NEW R, IsFetched(R), NEW some \in SUBSET TagsOf(R), some # {}
  PROVE  /\ Newest(R, some) \in some
         /\ \A t \in some \ {Newest(R, some)} : SortsNewer(R, Newest(R, some), t)
<1> DEFINE newer == {u \in some \X some : SortsNewer(R, u[1], u[2])}
<1>1. IsFiniteSet(some) /\ some \subseteq Tags
  BY FS_Subset DEF IsFetched, TagsOf
<1>2. \A t \in some : R.tags[t].time \in Nat /\ Version[t] \in Nat /\ Rank[t] \in Nat
  BY <1>1, TagsAssumption DEF IsFetched, TagsOf
<1>3. \A s, t \in some : <<s, t>> \in newer <=> SortsNewer(R, s, t)
  OBVIOUS
<1>4. ASSUME NEW s \in some, NEW t \in some, s # t
      PROVE  SortsNewer(R, s, t) \/ SortsNewer(R, t, s)
  <2>1. Rank[s] # Rank[t]
    BY <1>1, <1>4, TagsAssumption
  <2> QED
    BY <1>2, <2>1 DEF SortsNewer
<1>5. \A r, s, t \in some : SortsNewer(R, r, s) /\ SortsNewer(R, s, t) => SortsNewer(R, r, t)
  BY <1>2 DEF SortsNewer
<1> HIDE DEF newer
<1>6. \E t \in some : \A s \in some \ {t} : <<t, s>> \in newer
  BY <1>1, <1>3, <1>4, <1>5, HasFirst
<1>7. \E t \in some : \A s \in some \ {t} : SortsNewer(R, t, s)
  BY <1>3, <1>6
<1> QED
  BY <1>7 DEF Newest

LEMMA BestTagIs ==
  ASSUME NEW tags \in SUBSET Tags, IsFiniteSet(tags), NEW rev \in Tags \cup Commits,
         NEW undotted, NEW best, best = BestTag(tags, rev, undotted)
  PROVE  /\ best # "none" => best \in tags
         /\ best # "none" /\ ~undotted => best \in Dotted
         /\ best = "none" => tags \cap Dotted = {}
         /\ rev \in tags \cap Dotted => best = rev
<1> DEFINE candidates == IF tags \cap Dotted # {} THEN tags \cap Dotted
                         ELSE IF undotted THEN tags ELSE {}
           nearer == {u \in candidates \X candidates : Nearer(u[1], u[2], rev)}
<1>1. IsFiniteSet(candidates) /\ candidates \subseteq tags
  BY FS_Subset
<1>2. \A t \in candidates : Distance[t][rev] \in Nat /\ Version[t] \in Nat /\ Rank[t] \in Nat
  BY <1>1, TagsAssumption
<1>3. \A s, t \in candidates : <<s, t>> \in nearer <=> Nearer(s, t, rev)
  OBVIOUS
<1>a. rev \in tags \cap Dotted => rev \in candidates
  OBVIOUS
<1>b. best = IF candidates = {} THEN "none"
             ELSE CHOOSE t \in candidates : \A s \in candidates \ {t} : Nearer(t, s, rev)
  BY DEF BestTag
<1>c. candidates = {} => tags \cap Dotted = {}
  OBVIOUS
<1>d. ~undotted => candidates \subseteq Dotted
  OBVIOUS
<1> HIDE DEF candidates
<1>4. ASSUME NEW s \in candidates, NEW t \in candidates, s # t
      PROVE  Nearer(s, t, rev) \/ Nearer(t, s, rev)
  <2>1. Rank[s] # Rank[t]
    BY <1>1, <1>4, TagsAssumption
  <2> QED
    BY <1>2, <2>1 DEF Nearer
<1>5. \A r, s, t \in candidates : Nearer(r, s, rev) /\ Nearer(s, t, rev) => Nearer(r, t, rev)
  BY <1>2 DEF Nearer
<1> HIDE DEF nearer
<1>6. CASE candidates = {}
  BY <1>6, <1>a, <1>b, <1>c
<1>7. CASE candidates # {}
  <2>1. \E t \in candidates : \A s \in candidates \ {t} : <<t, s>> \in nearer
    BY <1>1, <1>3, <1>4, <1>5, <1>7, HasFirst
  <2>2. \E t \in candidates : \A s \in candidates \ {t} : Nearer(t, s, rev)
    BY <1>3, <2>1
  <2>3. best \in candidates /\ \A s \in candidates \ {best} : Nearer(best, s, rev)
    BY <1>7, <1>b, <2>2
  <2>4. best # "none"
    BY <1>1, <2>3, TagsAssumption
  <2>5. rev \in tags \cap Dotted => best = rev
    <3> SUFFICES ASSUME rev \in tags \cap Dotted, best # rev PROVE FALSE
      OBVIOUS
    <3>1. Nearer(best, rev, rev)
      BY <1>a, <2>3
    <3>2. Distance[rev][rev] = 0 /\ Distance[best][rev] # 0
      BY <1>1, <2>3, TagsAssumption
    <3> QED
      BY <1>2, <1>a, <2>3, <3>1, <3>2 DEF Nearer
  <2> QED
    BY <1>1, <1>d, <2>3, <2>4, <2>5
<1> QED
  BY <1>6, <1>7

-----------------------------------------------------------------------------
(***************************************************************************)
(* What is asked for, what a revision stands for, and what is selected.    *)
(***************************************************************************)
IsAsked(a) ==
  a.rev \in Tags \cup Commits /\ a.cooldown \in Nat /\ a.freeze \in BOOLEAN
  /\ a.tags \subseteq Tags /\ a.hooks \subseteq Hooks

LEMMA ResolveIs ==
  ASSUME NEW R, IsFetched(R), NEW rev
  PROVE  /\ rev \in Commits => Resolve(R, rev) = rev
         /\ rev \in TagsOf(R) => Resolve(R, rev) = R.tags[rev].commit /\ Resolve(R, rev) \in Commits
         /\ Resolve(R, rev) \in Commits \cup {"none"}
         /\ Resolve(R, rev) # "none" => rev \in Commits \cup TagsOf(R)
<1>1. TagsOf(R) \cap Commits = {} /\ "none" \notin Commits
  BY TagsAssumption DEF IsFetched, TagsOf
<1>2. \A t \in TagsOf(R) : R.tags[t].commit \in Commits
  BY DEF IsFetched, TagsOf
<1> QED
  BY <1>1, <1>2 DEF Resolve

LEMMA EvaluatedIs ==
  ASSUME NEW R, IsFetched(R), NEW a, IsAsked(a), NEW s, s # "none",
         NEW x, x = Evaluated(R, a, s), x # Failed
  PROVE  /\ s \in Commits \cup TagsOf(R) /\ x.rev \in Commits \cup TagsOf(R)
         /\ Resolve(R, x.rev) = Resolve(R, s) /\ Resolve(R, s) \in Commits
         /\ HasHooks(R, x.rev, a.hooks)
         /\ x.rev = IF a.freeze THEN Resolve(R, s) ELSE s
         /\ \/ x.frozen = "none"
            \/ x.frozen = s /\ s \in TagsOf(R) /\ x.rev \in Commits
         /\ x = Revision(x.rev, x.frozen)
<1> DEFINE exact == Resolve(R, s)
           revision == IF a.freeze /\ exact # s THEN Revision(exact, s) ELSE Revision(s, "none")
<1>1. x = revision /\ revision.rev # "none" /\ HasHooks(R, revision.rev, a.hooks)
  BY DEF Evaluated
<1>2. a.freeze \in BOOLEAN
  BY DEF IsAsked
<1>3. Resolve(R, x.rev) # "none"
  BY <1>1 DEF HasHooks
<1>4. x.rev = IF a.freeze THEN exact ELSE s
  BY <1>1, <1>2 DEF Revision
<1>5. x = Revision(x.rev, x.frozen) /\ (x.frozen = "none" \/ (x.frozen = s /\ a.freeze /\ exact # s))
  BY <1>1 DEF Revision
<1>6. exact # "none"
  BY <1>1, <1>3, <1>4 DEF Revision
<1>7. s \in Commits \cup TagsOf(R) /\ exact \in Commits
  BY <1>6, ResolveIs
<1>8. Resolve(R, exact) = exact
  BY <1>7, ResolveIs
<1>9. exact # s => s \in TagsOf(R)
  BY <1>7, ResolveIs
<1> HIDE DEF revision, exact
<1>10. HasHooks(R, x.rev, a.hooks)
  BY <1>1
<1> QED
  BY <1>2, <1>4, <1>5, <1>7, <1>8, <1>9, <1>10 DEF exact

LEMMA CandidateIs ==
  ASSUME NEW R, IsFetched(R), NEW tags \in SUBSET Tags, NEW cutoff \in Nat,
         NEW t \in Candidates(R, tags, cutoff)
  PROVE  t \in tags \cap TagsOf(R) /\ R.tags[t].time <= cutoff
<1> DEFINE at == {s \in tags \cap TagsOf(R) : R.tags[s].time = cutoff}
           before == {s \in tags \cap TagsOf(R) : R.tags[s].time < cutoff}
<1>1. t \in at \/ (before # {} /\ t = Newest(R, before))
  BY DEF Candidates
<1>2. t \in at \/ t \in before
  BY <1>1, NewestIs
<1>3. R.tags[t].time \in Nat
  BY <1>2 DEF IsFetched, TagsOf
<1> QED
  BY <1>2, <1>3

LEMMA CurrentIs ==
  ASSUME NEW R, IsFetched(R), NEW rev \in Tags \cup Commits, NEW tag, tag = CurrentTag(R, rev)
  PROVE  /\ rev \in TagsOf(R) => tag = rev
         /\ tag # "none" => tag \in TagsAt(R, Tags, Resolve(R, rev))
         /\ tag # "none" /\ rev \notin TagsOf(R) =>
              \A t \in TagsAt(R, Tags, Resolve(R, rev)) \ {tag} : SortsNewer(R, tag, t)
         /\ tag = "none" => TagsAt(R, Tags, Resolve(R, rev)) = {}
<1>1. TagsOf(R) \subseteq Tags /\ "none" \notin Tags
  BY TagsAssumption DEF IsFetched, TagsOf
<1>2. CASE rev \in TagsOf(R)
  BY <1>1, <1>2, ResolveIs DEF CurrentTag, TagsAt
<1>3. CASE rev \notin TagsOf(R)
  <2> DEFINE tags == TagsAt(R, Tags, Resolve(R, rev))
  <2>1. tag = IF tags = {} THEN "none" ELSE Newest(R, tags)
    BY <1>3 DEF CurrentTag
  <2>2. tags \subseteq TagsOf(R)
    BY DEF TagsAt
  <2> HIDE DEF tags
  <2>3. tags # {} => tag \in tags /\ \A t \in tags \ {tag} : SortsNewer(R, tag, t)
    BY <2>1, <2>2, NewestIs
  <2> QED
    BY <1>1, <1>3, <2>1, <2>2, <2>3 DEF tags
<1> QED
  BY <1>2, <1>3

LEMMA PreferredIs ==
  ASSUME NEW R, IsFetched(R), NEW a, IsAsked(a), NEW t \in a.tags \cap TagsOf(R),
         NEW s, s = Preferred(R, a, t)
  PROVE  \/ a.cooldown > 0 /\ Downgrades(R, a.rev, t) /\ s = a.rev
         \/ /\ ~(a.cooldown > 0 /\ Downgrades(R, a.rev, t))
            /\ s \in TagsAt(R, a.tags, R.tags[t].commit)
            /\ s \in Dotted \/ (s = t /\ TagsAt(R, a.tags, R.tags[t].commit) \cap Dotted = {})
            /\ a.rev \in TagsAt(R, a.tags, R.tags[t].commit) \cap Dotted => s = a.rev
<1> DEFINE tags == TagsAt(R, a.tags, R.tags[t].commit)
           best == BestTag(tags, a.rev, FALSE)
<1>1. tags \in SUBSET Tags /\ IsFiniteSet(tags) /\ t \in tags
  <2>1. tags \subseteq TagsOf(R) /\ t \in tags
    BY DEF TagsAt
  <2>2. TagsOf(R) \subseteq Tags /\ IsFiniteSet(TagsOf(R))
    BY DEF IsFetched, TagsOf
  <2> QED
    BY <2>1, <2>2, FS_Subset
<1>2. s = IF a.cooldown > 0 /\ Downgrades(R, a.rev, t) THEN a.rev ELSE IF best = "none" THEN t ELSE best
  BY DEF Preferred
<1>a. a.rev \in Tags \cup Commits
  BY DEF IsAsked
<1> HIDE DEF tags
<1>3. /\ best # "none" => best \in tags /\ best \in Dotted
      /\ best = "none" => tags \cap Dotted = {}
      /\ a.rev \in tags \cap Dotted => best = a.rev
  <2>1. ASSUME NEW undotted, ~undotted
        PROVE  LET b == BestTag(tags, a.rev, undotted)
               IN  /\ b # "none" => b \in tags /\ b \in Dotted
                   /\ b = "none" => tags \cap Dotted = {}
                   /\ a.rev \in tags \cap Dotted => b = a.rev
    BY <1>1, <1>a, <2>1, BestTagIs
  <2> QED
    BY <2>1
<1> HIDE DEF best
<1> QED
  BY <1>1, <1>2, <1>3 DEF tags

LEMMA EdgesAre ==
  ASSUME NEW R, IsFetched(R), NEW s \in Edges(R)
  PROVE  s # "none" /\ s \in Commits \cup TagsOf(R) /\ Resolve(R, s) = R.head
<1>1. R.head \in Commits /\ "none" \notin Commits \cup TagsOf(R)
  BY TagsAssumption DEF IsFetched, TagsOf
<1>2. s = R.head \/ (s \in TagsOf(R) /\ R.tags[s].commit = R.head)
  BY DEF Edges, TagsAt
<1> QED
  BY <1>1, <1>2, ResolveIs

(***************************************************************************)
(* The comment of a pinned commit.                                         *)
(***************************************************************************)
LEMMA FrozenIs ==
  ASSUME NEW R, IsFetched(R), NEW rev \in Tags \cup Commits, NEW old \in Tags \cup {"none"},
         NEW frozen, frozen = FrozenFor(R, rev, old)
  PROVE  /\ frozen \in Tags \cup {"none"}
         /\ frozen # old /\ frozen # "none" => rev \in Commits /\ Resolve(R, frozen) = rev
         /\ FrozenFor(R, rev, frozen) = frozen
<1> DEFINE tags == TagsAt(R, Tags, rev)
           best == BestTag(tags, old, TRUE)
<1>1. CASE rev \notin Commits \/ old = "none" \/ Resolve(R, old) = rev
  <2>1. frozen = old
    BY <1>1 DEF FrozenFor
  <2> QED
    BY <2>1
<1>2. CASE rev \in Commits /\ old # "none" /\ Resolve(R, old) # rev
  <2>1. frozen = IF best # "none" THEN best ELSE IF IsPresent(R, rev) THEN "none" ELSE old
    BY <1>2 DEF FrozenFor
  <2>2. tags \in SUBSET Tags /\ IsFiniteSet(tags) /\ \A t \in tags : Resolve(R, t) = rev
    <3>1. tags \subseteq TagsOf(R) /\ \A t \in tags : R.tags[t].commit = rev
      BY DEF TagsAt
    <3>2. TagsOf(R) \subseteq Tags /\ IsFiniteSet(TagsOf(R))
      BY DEF IsFetched, TagsOf
    <3> QED
      BY <3>1, <3>2, FS_Subset, ResolveIs
  <2>a. old \in Tags
    BY <1>2
  <2> HIDE DEF tags
  <2>3. best # "none" => best \in tags
    BY <2>2, <2>a, BestTagIs
  <2> HIDE DEF best
  <2>4. CASE best # "none"
    <3>1. Resolve(R, frozen) = rev /\ frozen \in Tags
      BY <2>1, <2>2, <2>3, <2>4
    <3>2. FrozenFor(R, rev, frozen) = frozen
      BY <3>1 DEF FrozenFor
    <3> QED
      BY <1>2, <3>1, <3>2
  <2>5. CASE best = "none"
    <3>1. frozen = "none" \/ frozen = old
      BY <2>1, <2>5
    <3>2. FrozenFor(R, rev, "none") = "none"
      BY DEF FrozenFor
    <3> QED
      BY <3>1, <3>2
  <2> QED
    BY <2>4, <2>5
<1> QED
  BY <1>1, <1>2

(***************************************************************************)
(* To ask again for what was given gives the same.                         *)
(***************************************************************************)
SameButRev(a, b) ==
  b.cooldown = a.cooldown /\ b.freeze = a.freeze /\ b.tags = a.tags /\ b.hooks = a.hooks

LEMMA EvaluatedAgain ==
  ASSUME NEW R, IsFetched(R), NEW a, IsAsked(a), NEW b, SameButRev(a, b),
         NEW s, s # "none", NEW x, x = Evaluated(R, a, s), x # Failed,
         NEW z, z # "none", Resolve(R, z) = Resolve(R, s), a.freeze \/ z = s
  PROVE  Evaluated(R, b, z).rev = x.rev
<1>1. Resolve(R, s) \in Commits /\ HasHooks(R, x.rev, a.hooks)
      /\ x.rev = IF a.freeze THEN Resolve(R, s) ELSE s
  BY EvaluatedIs
<1>2. "none" \notin Commits
  BY TagsAssumption
<1>3. b.freeze = a.freeze /\ b.hooks = a.hooks
  BY DEF SameButRev
<1>4. CASE a.freeze
  <2>1. Evaluated(R, b, z) = IF Resolve(R, s) # z THEN Revision(Resolve(R, s), z) ELSE Revision(z, "none")
    BY <1>1, <1>2, <1>3, <1>4 DEF Evaluated, Revision
  <2> QED
    BY <1>1, <1>4, <2>1 DEF Revision
<1>5. CASE ~a.freeze
  <2>1. z = s /\ x.rev = s
    BY <1>1, <1>5
  <2>2. Evaluated(R, b, z) = Revision(s, "none")
    BY <1>1, <1>3, <1>5, <2>1 DEF Evaluated, Revision
  <2> QED
    BY <2>1, <2>2 DEF Revision
<1> QED
  BY <1>4, <1>5

LEMMA SameAgain ==
  ASSUME NEW R, IsFetched(R), NEW a, IsAsked(a), NEW edge \in BOOLEAN, NEW at \in Nat,
         NEW s \in Selections(R, a, edge, at), NEW x, x = Evaluated(R, a, s), x # Failed,
         NEW b, SameButRev(a, b), b.rev = x.rev
  PROVE  \E z \in Selections(R, b, edge, at) : Evaluated(R, b, z).rev = x.rev
<1> DEFINE some == Candidates(R, a.tags, Monus(at, a.cooldown))
<1>a. Monus(at, a.cooldown) \in Nat
  BY DEF Monus, IsAsked
<1>b. \A t \in some : t \in a.tags \cap TagsOf(R)
  BY <1>a, CandidateIs DEF IsAsked
<1>c. some = Candidates(R, b.tags, Monus(at, b.cooldown))
  BY DEF SameButRev
<1> HIDE DEF some
<1>1. CASE edge
  <2>1. s \in Selections(R, b, edge, at) /\ s \in Edges(R)
    BY <1>1 DEF Selections
  <2>2. s # "none"
    BY <2>1, EdgesAre
  <2>3. Evaluated(R, b, s).rev = x.rev
    BY <2>2, EvaluatedAgain
  <2> QED
    BY <2>1, <2>3
<1>2. CASE ~edge /\ some = {}
  <2>1. s = "none" /\ "none" \in Selections(R, b, edge, at)
    BY <1>2, <1>c DEF Selections, some
  <2>2. Evaluated(R, b, "none") = Revision(b.rev, "none")
    BY DEF Evaluated
  <2> QED
    BY <2>1, <2>2 DEF Revision
<1>3. CASE ~edge /\ some # {}
  <2>1. PICK t \in some : s = Preferred(R, a, t)
    BY <1>3 DEF Selections, some
  <2> DEFINE z == Preferred(R, b, t)
             c == R.tags[t].commit
  <2>2. z \in Selections(R, b, edge, at)
    BY <1>3, <1>c, <2>1 DEF Selections
  <2>3. t \in a.tags \cap TagsOf(R) /\ c \in Commits
    BY <1>b, <2>1 DEF IsFetched, TagsOf
  <2>4. s # "none"
    BY <2>1, <2>3, PreferredIs, TagsAssumption DEF IsAsked, TagsAt
  <2>5. x.rev = (IF a.freeze THEN Resolve(R, s) ELSE s) /\ x.rev \in Commits \cup TagsOf(R)
        /\ Resolve(R, x.rev) = Resolve(R, s) /\ Resolve(R, s) \in Commits
    BY <2>4, EvaluatedIs
  <2>6. IsAsked(b)
    BY <2>5 DEF IsAsked, SameButRev, IsFetched, TagsOf
  <2>7. b.cooldown = a.cooldown /\ b.tags = a.tags /\ b.rev = x.rev /\ a.rev \in Tags \cup Commits
    BY DEF SameButRev, IsAsked
  <2> SUFFICES z # "none" /\ Resolve(R, z) = Resolve(R, s) /\ (a.freeze \/ z = s)
    BY <2>2, <2>4, EvaluatedAgain
  <2>8. CASE a.cooldown > 0 /\ Downgrades(R, a.rev, t) /\ s = a.rev
    <3>1. CASE ~a.freeze
      <4>1. b.rev = a.rev
        BY <2>5, <2>7, <2>8, <3>1
      <4>2. z = s
        BY <2>1, <2>7, <4>1 DEF Preferred
      <4> QED
        BY <2>4, <4>2
    <3>2. CASE a.freeze
      <4> DEFINE d == Resolve(R, s)
                 old == CurrentTag(R, a.rev)
                 new == CurrentTag(R, d)
      <4>1. b.rev = d /\ d \in Commits /\ d \notin TagsOf(R) /\ Resolve(R, d) = d
        BY <2>5, <2>7, <3>2, ResolveIs, TagsAssumption DEF IsFetched, TagsOf
      <4>2. old # "none" /\ R.tags[old].commit # c /\ SortsNewer(R, old, t)
        BY <2>8 DEF Downgrades
      <4>3. old \in TagsAt(R, Tags, d)
        BY <2>7, <2>8, <4>2, CurrentIs
      <4>4. new \in TagsAt(R, Tags, d) /\ (new = old \/ SortsNewer(R, new, old)) /\ new # "none"
        BY <4>1, <4>3, CurrentIs
      <4>5. {new, old, t} \subseteq TagsOf(R) /\ R.tags[new].commit = d /\ R.tags[old].commit = d
        BY <2>3, <4>3, <4>4 DEF TagsAt
      <4> HIDE DEF new, old
      <4>6. SortsNewer(R, new, t)
        <5>1. \A u \in {new, old, t} : R.tags[u].time \in Nat /\ Version[u] \in Nat /\ Rank[u] \in Nat
          BY <4>5, TagsAssumption DEF IsFetched, TagsOf
        <5> QED
          BY <4>2, <4>4, <5>1 DEF SortsNewer
      <4>7. Downgrades(R, d, t)
        BY <4>2, <4>4, <4>5, <4>6 DEF Downgrades, new
      <4>8. z = d
        BY <2>7, <2>8, <4>1, <4>7 DEF Preferred
      <4> QED
        BY <3>2, <4>1, <4>8, TagsAssumption
    <3> QED
      BY <3>1, <3>2
  <2>9. CASE /\ ~(a.cooldown > 0 /\ Downgrades(R, a.rev, t))
             /\ s \in TagsAt(R, a.tags, c)
             /\ s \in Dotted \/ (s = t /\ TagsAt(R, a.tags, c) \cap Dotted = {})
    <3>1. s \in TagsOf(R) /\ Resolve(R, s) = c
      BY <2>9, ResolveIs DEF TagsAt
    <3> DEFINE tag == CurrentTag(R, b.rev)
    <3>2. tag # "none" => R.tags[tag].commit = c
      <4>1. Resolve(R, b.rev) = c /\ b.rev \in Tags \cup Commits
        BY <2>5, <2>6, <2>7, <3>1 DEF IsAsked
      <4> QED
        BY <4>1, CurrentIs DEF TagsAt
    <3>3. ~Downgrades(R, b.rev, t)
      BY <3>2 DEF Downgrades
    <3> HIDE DEF z
    <3>4. /\ z \in TagsAt(R, a.tags, c)
          /\ z \in Dotted \/ (z = t /\ TagsAt(R, a.tags, c) \cap Dotted = {})
          /\ b.rev \in TagsAt(R, a.tags, c) \cap Dotted => z = b.rev
      <4>1. z = Preferred(R, b, t) /\ t \in b.tags \cap TagsOf(R)
        BY <2>3, <2>7 DEF z
      <4> QED
        BY <2>6, <2>7, <3>3, <4>1, PreferredIs
    <3>5. z \in TagsOf(R) /\ Resolve(R, z) = c /\ z # "none"
      BY <3>4, ResolveIs, TagsAssumption DEF TagsAt, IsFetched, TagsOf
    <3>6. ~a.freeze => z = s
      BY <2>5, <2>7, <2>9, <3>4
    <3> QED
      BY <3>1, <3>5, <3>6
  <2> QED
    BY <2>1, <2>3, <2>8, <2>9, PreferredIs
<1> QED
  BY <1>1, <1>2, <1>3

-----------------------------------------------------------------------------
(***************************************************************************)
(* Options: whatever level gives a value, it is one of those allowed.      *)
(***************************************************************************)
LEMMA FirstIs ==
  ASSUME NEW n \in Nat, NEW options, DOMAIN options = 1..n, NEW default, NEW V,
         \A i \in 1..n : options[i] \subseteq V, default \in V
  PROVE  First(options, default) \in V
<1> DEFINE given == {i \in 1..n : options[i] # {}}
<1>1. CASE given = {}
  BY <1>1 DEF First
<1>2. CASE given # {}
  <2>1. given \in SUBSET Nat
    OBVIOUS
  <2>2. PICK k \in given : \A j \in given : k <= j
    <3> HIDE DEF given
    <3> QED
      BY <1>2, <2>1, Least
  <2>3. k \in DOMAIN options /\ options[k] # {} /\ \A j \in 1..k - 1 : options[j] = {}
    BY <2>2
  <2> DEFINE i == CHOOSE m \in DOMAIN options : options[m] # {} /\ \A j \in 1..m - 1 : options[j] = {}
  <2>4. i \in DOMAIN options /\ options[i] # {}
    BY <2>3
  <2>5. First(options, default) = CHOOSE v \in options[i] : TRUE
    BY <2>3 DEF First
  <2> HIDE DEF i
  <2>6. First(options, default) \in options[i]
    BY <2>4, <2>5
  <2> QED
    BY <2>4, <2>6
<1> QED
  BY <1>1, <1>2

LEMMA TargetIs ==
  ASSUME NEW r \in Requests, NEW p \in Projects, NEW e \in AnyEntry, NEW t, t = TargetOf(r, p, e)
  PROVE  /\ t.repo = e.repo /\ t.rev = e.rev /\ t.hooks = e.hooks
         /\ t.cooldown = Cooldown(r, p) /\ t.freeze = Freeze(r, p) /\ t.tags = FilterOf(r, p, e.repo)
         /\ IsAsked(t) /\ t.repo \in Repos
<1>1. e.repo \in Repos /\ e.rev \in Tags \cup Commits /\ e.hooks \subseteq Hooks
  BY DEF AnyEntry
<1>2. IsRequest(r) /\ AreOptions(GlobalOptions) /\ AreOptions(ProjectOptions[p])
      /\ AreFilters(ProjectOptions[p].repos[e.repo])
  BY <1>1, UpdateAssumption
<1>3. Cooldown(r, p) \in Nat
  <2> DEFINE options == <<r.cooldown, ProjectOptions[p].cooldown, GlobalOptions.cooldown>>
  <2>1. DOMAIN options = 1..3 /\ \A i \in 1..3 : options[i] \subseteq Nat
    BY <1>2 DEF IsRequest, AreOptions, Optional
  <2> HIDE DEF options
  <2>2. First(options, 0) \in Nat
    BY <2>1, FirstIs
  <2> QED
    BY <2>2 DEF Cooldown, options
<1>4. Freeze(r, p) \in BOOLEAN
  BY DEF Freeze
<1>5. FilterOf(r, p, e.repo) \subseteq Tags
  <2> DEFINE own == ProjectOptions[p]
             options == <<r.including[e.repo], r.include, own.repos[e.repo].include, own.include,
                          GlobalOptions.include>>
             Some == SUBSET Tags
  <2>1. DOMAIN options = 1..5 /\ (\A i \in 1..5 : options[i] \subseteq Some) /\ Tags \in Some
    BY <1>1, <1>2 DEF IsRequest, AreOptions, AreFilters, Optional
  <2> HIDE DEF options, Some
  <2>a. First(options, Tags) \in Some
    BY <2>1, FirstIs
  <2>2. First(options, Tags) \in SUBSET Tags
    BY <2>a DEF Some
  <2>3. FilterOf(r, p, e.repo) \subseteq First(options, Tags)
    BY DEF FilterOf, options
  <2> QED
    BY <2>2, <2>3
<1> QED
  BY <1>1, <1>3, <1>4, <1>5 DEF TargetOf, IsAsked

-----------------------------------------------------------------------------
(***************************************************************************)
(* The command.                                                            *)
(***************************************************************************)
Listed == {list \in Seq(AnyEntry) : Len(list) <= MaxLength}
Fetches == [is : {"waiting", "failed"}, at : Nat]
             \cup [is : {"fetched", "evaluated"}, at : Nat, has : Remotes]
Writes == {"write", "truncate", "fill"}
Places == {"idle", "fetch", "ended"} \cup Writes

Typed ==
  /\ config \in [Projects -> Listed \cup {Torn}] /\ remote \in [Repos -> Remotes]
  /\ now \in 0..MaxTime /\ pc \in Places /\ request \in Requests
  /\ read \in [Projects -> Listed]
  /\ target = [u \in UsagesOf(read) |-> TargetOf(request, u[1], EntryOf(read, u))]
  /\ fetched \in [Repos -> Fetches]
  /\ writing \in Projects \cup {"none"} /\ buffer \in Listed
  /\ todo \subseteq Projects /\ edited \subseteq Projects
  /\ exit \in {"none", "success", "failure", "error"} /\ runs \in 0..MaxRuns /\ edits \in 0..MaxEdits

\* The targets of the repositories that are done with have answers, each from what was
\* fetched of its own repository and when it was evaluated.
Over(r) == fetched[r].is \in {"failed", "evaluated"}
Answered(t) ==
  \/ results[t] = Failed
  \/ /\ fetched[t.repo].is = "evaluated"
     /\ \E s \in Selections(fetched[t.repo].has, t, request.edge, fetched[t.repo].at) :
          results[t] = Evaluated(fetched[t.repo].has, t, s)
Judged ==
  /\ DOMAIN results = {t \in Targets : Over(t.repo)}
  /\ \A t \in DOMAIN results : Answered(t)

\* The plan is what these answers give, once all are there.
Done == \A t \in Targets : Over(t.repo)
RecordedPlan == [p \in Projects |-> [i \in DOMAIN read[p] |-> Recorded(<<p, i>>)]]
Recording ==
  /\ pc \in {"idle", "fetch"} => plan = Empty
  /\ plan = Empty \/ (plan = RecordedPlan /\ Done)
  /\ pc \in Writes => plan = RecordedPlan /\ Done /\ exit = "none"
  /\ pc \in {"idle", "fetch"} => exit = "none"
  /\ pc = "ended" => exit # "none"
  /\ exit \in {"success", "failure"} => plan = RecordedPlan /\ Done /\ exit = Result

\* What is written of a project that nobody edits.
Kept(p) == config[p] = read[p]
Brought(p) == IF request.dry THEN Kept(p) ELSE HasPlan(config[p], p)
Written ==
  /\ pc = "idle" => read = Empty
  /\ pc \in Writes /\ request.dry => todo = {}
  /\ pc \in {"truncate", "fill"} => writing \in todo
  /\ pc \in {"truncate", "fill"} /\ writing \notin edited => buffer = Merged(read[writing], plan[writing])
  /\ \A p \in Projects \ edited :
       /\ pc = "fetch" => Kept(p)
       /\ pc \in Writes =>
            IF p \notin todo THEN Brought(p)
            ELSE IF pc = "fill" /\ writing = p THEN config[p] = Torn ELSE Kept(p)
       /\ pc = "ended" /\ exit # "error" => Brought(p)
       /\ exit = "error" /\ read # Empty => Kept(p) \/ (~request.dry /\ (config[p] = Torn \/ HasPlan(config[p], p)))

UpdateInv == Typed /\ Judged /\ Recording /\ Written

LEMMA ListFacts ==
  /\ Torn \notin Listed /\ <<>> \in Listed /\ NoRevision \notin AnyEntry
  /\ \A list \in Listed : DOMAIN list = 1..Len(list) /\ Len(list) \in 0..MaxLength
                         /\ \A i \in DOMAIN list : list[i] \in AnyEntry
  /\ \A list \in Rewrites : list \in Listed
<1>1. NoRevision \notin AnyEntry
  <2> SUFFICES ASSUME NoRevision \in AnyEntry PROVE FALSE
    OBVIOUS
  <2>1. DOMAIN NoRevision = {"repo", "rev", "frozen", "hooks"}
    BY DEF AnyEntry
  <2>2. DOMAIN NoRevision = {"rev", "frozen"}
    BY DEF NoRevision, Revision
  <2> QED
    BY <2>1, <2>2
<1>2. Torn \notin Listed
  <2> SUFFICES ASSUME Torn \in Seq(AnyEntry) PROVE FALSE
    BY DEF Listed
  <2>1. Torn[1] = NoRevision /\ 1 \in DOMAIN Torn
    BY DEF Torn
  <2> QED
    BY <1>1, <2>1
<1>3. \A list \in Rewrites : list \in Listed
  <2>1. Entries \subseteq AnyEntry /\ Rewrites \subseteq Seq(Entries) /\ \A list \in Rewrites : Len(list) <= MaxLength
    BY UpdateAssumption
  <2>2. \A list \in Seq(Entries) : list \in Seq(AnyEntry)
    BY <2>1
  <2> QED
    BY <2>1, <2>2 DEF Listed
<1>4. MaxLength \in Nat
  BY UpdateAssumption
<1>5. <<>> \in Listed
  BY <1>4 DEF Listed
<1>6. \A list \in Listed : DOMAIN list = 1..Len(list) /\ Len(list) \in 0..MaxLength
                           /\ \A i \in DOMAIN list : list[i] \in AnyEntry
  BY <1>4 DEF Listed
<1> QED
  BY <1>1, <1>2, <1>3, <1>5, <1>6

LEMMA UsageFacts ==
  ASSUME NEW lists \in [Projects -> Listed]
  PROVE  /\ \A u \in UsagesOf(lists) : u[1] \in Projects /\ u[2] \in DOMAIN lists[u[1]] /\ u = <<u[1], u[2]>>
                                       /\ EntryOf(lists, u) \in AnyEntry
         /\ \A p \in Projects : \A i \in DOMAIN lists[p] : <<p, i>> \in UsagesOf(lists)
<1>1. \A p \in Projects : \A i \in DOMAIN lists[p] : lists[p][i] \in AnyEntry /\ i \in 1..MaxLength
  <2> SUFFICES ASSUME NEW p \in Projects, NEW i \in DOMAIN lists[p]
               PROVE  lists[p][i] \in AnyEntry /\ i \in 1..MaxLength
    OBVIOUS
  <2>1. lists[p] \in Listed
    OBVIOUS
  <2>2. DOMAIN lists[p] = 1..Len(lists[p]) /\ Len(lists[p]) \in 0..MaxLength /\ lists[p][i] \in AnyEntry
    BY <2>1, ListFacts
  <2>3. MaxLength \in Nat
    BY UpdateAssumption
  <2> QED
    BY <2>2, <2>3
<1> QED
  BY <1>1 DEF UsagesOf, EntryOf

LEMMA TargetFacts ==
  ASSUME Typed
  PROVE  /\ Usages = UsagesOf(read)
         /\ \A u \in Usages : /\ u[1] \in Projects /\ u[2] \in DOMAIN read[u[1]] /\ u = <<u[1], u[2]>>
                             /\ Entry(u) \in AnyEntry /\ target[u] = TargetOf(request, u[1], Entry(u))
                             /\ IsAsked(target[u]) /\ target[u].repo = Entry(u).repo /\ target[u].repo \in Repos
                             /\ target[u].rev = Entry(u).rev /\ target[u].hooks = Entry(u).hooks
                             /\ target[u].cooldown = Cooldown(request, u[1]) /\ target[u].freeze = Freeze(request, u[1])
                             /\ target[u].tags = FilterOf(request, u[1], Entry(u).repo)
         /\ \A t \in Targets : IsAsked(t) /\ t.repo \in Repos
<1>1. read \in [Projects -> Listed] /\ request \in Requests
      /\ target = [u \in UsagesOf(read) |-> TargetOf(request, u[1], EntryOf(read, u))]
  BY DEF Typed
<1>2. Usages = UsagesOf(read)
  BY <1>1 DEF Usages
<1>3. ASSUME NEW u \in Usages
      PROVE  /\ u[1] \in Projects /\ u[2] \in DOMAIN read[u[1]] /\ u = <<u[1], u[2]>>
             /\ Entry(u) \in AnyEntry /\ target[u] = TargetOf(request, u[1], Entry(u))
             /\ IsAsked(target[u]) /\ target[u].repo = Entry(u).repo /\ target[u].repo \in Repos
             /\ target[u].rev = Entry(u).rev /\ target[u].hooks = Entry(u).hooks
             /\ target[u].cooldown = Cooldown(request, u[1]) /\ target[u].freeze = Freeze(request, u[1])
             /\ target[u].tags = FilterOf(request, u[1], Entry(u).repo)
  <2>1. u[1] \in Projects /\ u[2] \in DOMAIN read[u[1]] /\ u = <<u[1], u[2]>> /\ Entry(u) \in AnyEntry
    BY <1>1, <1>2, UsageFacts DEF Entry
  <2>2. target[u] = TargetOf(request, u[1], Entry(u))
    BY <1>1, <1>2 DEF Entry
  <2> QED
    BY <1>1, <2>1, <2>2, TargetIs
<1> QED
  BY <1>2, <1>3 DEF Targets

LEMMA TypedInit == Init => Typed
<1> SUFFICES ASSUME Init PROVE Typed
  OBVIOUS
<1>1. config \in [Projects -> Listed \cup {Torn}]
  <2>1. ASSUME NEW list \in Lists PROVE list \in Listed
    <3>1. PICK n \in 0..MaxLength : list \in [1..n -> Entries]
      BY DEF Lists
    <3>2. Entries \subseteq AnyEntry /\ MaxLength \in Nat
      BY UpdateAssumption
    <3>3. list \in Seq(AnyEntry) /\ Len(list) = n
      BY <3>1, <3>2
    <3> QED
      BY <3>1, <3>2, <3>3 DEF Listed
  <2> QED
    BY <2>1 DEF Init
<1>2. read \in [Projects -> Listed] /\ buffer \in Listed
  BY ListFacts DEF Init, Empty
<1>3. target = [u \in UsagesOf(read) |-> TargetOf(request, u[1], EntryOf(read, u))]
  <2>1. UsagesOf(read) = {}
    BY DEF Init, Empty, UsagesOf
  <2> QED
    BY <2>1 DEF Init
<1>4. fetched \in [Repos -> Fetches]
  BY DEF Init, Fetches, Waiting
<1>5. MaxRuns \in Nat /\ MaxEdits \in Nat
  BY UpdateAssumption
<1> QED
  BY <1>1, <1>2, <1>3, <1>4, <1>5 DEF Init, Typed, Places

LEMMA MergedIs ==
  ASSUME NEW list \in Listed, NEW revisions, DOMAIN revisions = DOMAIN list,
         \A i \in DOMAIN revisions :
           revisions[i] = NoRevision \/ (revisions[i].rev \in Tags \cup Commits /\ revisions[i].frozen \in Tags \cup {"none"})
  PROVE  Merged(list, revisions) \in Listed
<1>1. \A i \in DOMAIN list : list[i] \in AnyEntry
  BY ListFacts
<1>2. ASSUME NEW i \in DOMAIN list PROVE Rewritten(list[i], revisions[i]) \in AnyEntry
  <2>1. list[i] \in AnyEntry
    BY <1>1
  <2> QED
    BY <2>1 DEF Rewritten, AnyEntry
<1>3. DOMAIN list = 1..Len(list) /\ Len(list) \in Nat /\ Len(list) <= MaxLength
  BY ListFacts DEF Listed
<1>4. Merged(list, revisions) \in [1..Len(list) -> AnyEntry]
  BY <1>2, <1>3 DEF Merged
<1>5. Merged(list, revisions) \in Seq(AnyEntry) /\ Len(Merged(list, revisions)) = Len(list)
  BY <1>3, <1>4
<1> QED
  BY <1>3, <1>5 DEF Listed

(***************************************************************************)
(* What is recorded for a usage once its target is answered.               *)
(***************************************************************************)
LEMMA FetchedFacts ==
  ASSUME Typed, NEW r \in Repos, fetched[r].is \in {"fetched", "evaluated"}
  PROVE  IsFetched(fetched[r].has) /\ fetched[r].at \in Nat
<1>1. fetched[r] \in [is : {"fetched", "evaluated"}, at : Nat, has : Remotes]
  BY DEF Typed, Fetches
<1> QED
  BY <1>1, UpdateAssumption

LEMMA AnswerIs ==
  ASSUME Typed, Judged, Done, NEW u \in Usages, Selected(u), results[target[u]] # Failed
  PROVE  /\ fetched[Entry(u).repo].is = "evaluated"
         /\ IsFetched(FetchedFor(u)) /\ fetched[Entry(u).repo].at \in Nat
         /\ \E s \in Selections(FetchedFor(u), target[u], request.edge, fetched[Entry(u).repo].at) :
              results[target[u]] = Evaluated(FetchedFor(u), target[u], s)
<1>1. target[u] \in Targets /\ target[u].repo = Entry(u).repo /\ Entry(u).repo \in Repos
  BY TargetFacts DEF Targets
<1>2. Answered(target[u])
  BY <1>1 DEF Judged, Done
<1> QED
  BY <1>1, <1>2, FetchedFacts DEF Answered, FetchedFor

LEMMA RecordedIs ==
  ASSUME Typed, Judged, Done, NEW u \in Usages, NEW new, new = Recorded(u), new # NoRevision
  PROVE  /\ Selected(u) /\ results[target[u]] # Failed
         /\ LET e == Entry(u)
                x == results[target[u]]
                frozen == FrozenFor(FetchedFor(u), e.rev, e.frozen)
            IN  \/ x.rev # e.rev /\ new = x
                \/ x.rev = e.rev /\ frozen # e.frozen /\ new = Revision(e.rev, frozen)
         /\ new.rev \in Tags \cup Commits /\ new.frozen \in Tags \cup {"none"}
         /\ new = Revision(new.rev, new.frozen)
<1> DEFINE e == Entry(u)
           x == results[target[u]]
           frozen == FrozenFor(FetchedFor(u), e.rev, e.frozen)
<1>1. Selected(u) /\ x # Failed
  BY DEF Recorded
<1>2. \/ x.rev # e.rev /\ new = x
      \/ x.rev = e.rev /\ frozen # e.frozen /\ new = Revision(e.rev, frozen)
  BY DEF Recorded, FetchedFor
<1>3. IsAsked(target[u]) /\ target[u].rev = e.rev /\ e \in AnyEntry
  BY TargetFacts
<1>4. e.rev \in Tags \cup Commits /\ e.frozen \in Tags \cup {"none"}
  BY <1>3 DEF AnyEntry
<1>5. IsFetched(FetchedFor(u)) /\ TagsOf(FetchedFor(u)) \subseteq Tags
  BY <1>1, AnswerIs DEF IsFetched, TagsOf
<1>6. CASE x.rev = e.rev /\ new = Revision(e.rev, frozen)
  BY <1>1, <1>2, <1>4, <1>5, <1>6, FrozenIs DEF Revision
<1>7. CASE x.rev # e.rev /\ new = x
  <2>1. PICK s \in Selections(FetchedFor(u), target[u], request.edge, fetched[e.repo].at) :
               x = Evaluated(FetchedFor(u), target[u], s)
    BY <1>1, AnswerIs
  <2>2. s # "none"
    BY <1>3, <1>7, <2>1 DEF Evaluated, Revision
  <2>3. /\ x.rev \in Commits \cup TagsOf(FetchedFor(u))
        /\ x.frozen = "none" \/ (x.frozen = s /\ s \in TagsOf(FetchedFor(u)))
        /\ x = Revision(x.rev, x.frozen)
    BY <1>1, <1>3, <1>5, <2>1, <2>2, EvaluatedIs
  <2> QED
    BY <1>1, <1>2, <1>5, <1>7, <2>3
<1> QED
  BY <1>2, <1>6, <1>7

LEMMA PlanFacts ==
  ASSUME Typed, Judged, Recording
  PROVE  /\ \A p \in Projects : \A i \in DOMAIN plan[p] :
              /\ i \in DOMAIN read[p] /\ <<p, i>> \in Usages
              /\ \/ plan[p][i] = NoRevision
                 \/ /\ plan[p][i].rev \in Tags \cup Commits /\ plan[p][i].frozen \in Tags \cup {"none"}
                    /\ plan[p][i] = Revision(plan[p][i].rev, plan[p][i].frozen)
         /\ pc \in Writes => \A p \in Projects : DOMAIN plan[p] = DOMAIN read[p]
<1>1. CASE plan = Empty /\ pc \notin Writes
  BY <1>1 DEF Empty
<1>2. CASE plan = RecordedPlan /\ Done
  <2>1. \A p \in Projects : plan[p] = [i \in DOMAIN read[p] |-> Recorded(<<p, i>>)]
    BY <1>2 DEF RecordedPlan
  <2>2. ASSUME NEW p \in Projects, NEW i \in DOMAIN read[p] PROVE <<p, i>> \in Usages
    BY TargetFacts, UsageFacts DEF Typed
  <2>3. ASSUME NEW p \in Projects, NEW i \in DOMAIN read[p]
        PROVE  LET new == Recorded(<<p, i>>)
               IN  \/ new = NoRevision
                   \/ /\ new.rev \in Tags \cup Commits /\ new.frozen \in Tags \cup {"none"}
                      /\ new = Revision(new.rev, new.frozen)
    BY <1>2, <2>2, RecordedIs
  <2>4. ASSUME NEW p \in Projects, NEW i \in DOMAIN plan[p]
        PROVE  i \in DOMAIN read[p] /\ plan[p][i] = Recorded(<<p, i>>)
    BY <2>1
  <2>5. \A p \in Projects : DOMAIN plan[p] = DOMAIN read[p]
    BY <2>1
  <2> QED
    BY <2>2, <2>3, <2>4, <2>5
<1> QED
  BY <1>1, <1>2 DEF Recording

-----------------------------------------------------------------------------
(***************************************************************************)
(* Types.                                                                  *)
(***************************************************************************)
LEMMA TypedStep == Typed /\ Judged /\ Recording /\ [Next]_vars => Typed'
<1> SUFFICES ASSUME Typed, Judged, Recording, [Next]_vars PROVE Typed'
  OBVIOUS
<1>a. MaxRuns \in Nat /\ MaxEdits \in Nat /\ MaxTime \in Nat
  BY UpdateAssumption
<1>1. CASE Collect
  <2>1. fetched' \in [Repos -> Fetches] /\ request' \in Requests /\ edited' = {}
        /\ pc' \in Places /\ exit' \in {"none", "error"}
    BY <1>1 DEF Collect, Waiting, Fetches, Places
  <2>2. read' \in [Projects -> Listed]
    <3>1. CASE Loaded = Projects
      <4>1. read' = config /\ \A p \in Projects : config[p] \in Listed
        BY <1>1, <3>1 DEF Collect, Loaded, Typed
      <4> QED
        BY <4>1 DEF Typed
    <3>2. CASE Loaded # Projects
      BY <1>1, <3>2, ListFacts DEF Collect, Empty
    <3> QED
      BY <3>1, <3>2
  <2>3. target' = [u \in UsagesOf(read') |-> TargetOf(request', u[1], EntryOf(read', u))]
    BY <1>1 DEF Collect
  <2>4. runs' \in 0..MaxRuns
    BY <1>1, <1>a DEF Collect, Typed
  <2> QED
    BY <1>1, <2>1, <2>2, <2>3, <2>4 DEF Collect, Typed
<1>2. ASSUME NEW r \in Repos, Fetch(r) PROVE Typed'
  <2>1. fetched' \in [Repos -> Fetches]
    <3>1. now \in Nat /\ remote[r] \in Remotes
      BY <1>a DEF Typed
    <3>2. fetched' = [fetched EXCEPT ![r] = [is |-> "fetched", at |-> now, has |-> remote[r]]]
          \/ fetched' = [fetched EXCEPT ![r] = [is |-> "failed", at |-> now]]
      BY <1>2 DEF Fetch
    <3>3. [is |-> "fetched", at |-> now, has |-> remote[r]] \in Fetches /\ [is |-> "failed", at |-> now] \in Fetches
      BY <3>1 DEF Fetches
    <3> QED
      BY <3>2, <3>3 DEF Typed
  <2> QED
    BY <1>2, <2>1 DEF Fetch, outside, Typed
<1>3. ASSUME NEW r \in Repos, Evaluate(r) PROVE Typed'
  <2>1. fetched' \in [Repos -> Fetches]
    <3>1. now \in Nat /\ fetched[r] \in [is : {"fetched", "evaluated"}, at : Nat, has : Remotes]
      BY <1>3, <1>a DEF Evaluate, Typed, Fetches
    <3>2. [fetched[r] EXCEPT !.is = "evaluated", !.at = now] \in Fetches
      BY <3>1 DEF Fetches
    <3>3. fetched' = [fetched EXCEPT ![r] = [fetched[r] EXCEPT !.is = "evaluated", !.at = now]]
      BY <1>3 DEF Evaluate, Typed
    <3> QED
      BY <3>2, <3>3 DEF Typed
  <2> QED
    BY <1>3, <2>1 DEF Evaluate, outside, Typed
<1>4. CASE Apply
  BY <1>4 DEF Apply, outside, Typed, Places, Writes
<1>5. ASSUME NEW p \in Projects, Read(p) PROVE Typed'
  <2>1. buffer' \in Listed
    <3>1. CASE config[p] # Torn /\ Len(config[p]) = Len(plan[p])
      <4>1. buffer' = Merged(config[p], plan[p]) /\ config[p] \in Listed
        BY <1>5, <3>1 DEF Read, Typed
      <4>2. pc \in Writes /\ read[p] \in Listed
        BY <1>5 DEF Read, Writes, Typed
      <4>3. DOMAIN plan[p] = DOMAIN read[p] /\ plan[p] = [i \in DOMAIN read[p] |-> Recorded(<<p, i>>)]
        BY <4>2, PlanFacts DEF Recording, RecordedPlan
      <4>4. Len(plan[p]) = Len(read[p])
        BY <4>2, <4>3, ListFacts
      <4>5. DOMAIN plan[p] = DOMAIN config[p]
        BY <3>1, <4>1, <4>2, <4>3, <4>4, ListFacts
      <4> QED
        BY <4>1, <4>5, MergedIs, PlanFacts
    <3>2. CASE ~(config[p] # Torn /\ Len(config[p]) = Len(plan[p]))
      BY <1>5, <3>2 DEF Read, Typed
    <3> QED
      BY <3>1, <3>2
  <2> QED
    BY <1>5, <2>1 DEF Read, outside, Typed, Places, Writes
<1>6. CASE Truncate
  BY <1>6 DEF Truncate, outside, Typed, Places, Writes
<1>7. CASE Write
  BY <1>7, ListFacts DEF Write, outside, Typed, Places, Writes
<1>8. CASE Return
  BY <1>8 DEF Return, Result, outside, Typed, Places
<1>9. CASE Kill
  BY <1>9, ListFacts DEF Kill, outside, Typed, Places
<1>10. ASSUME NEW r \in Repos, Push(r) PROVE Typed'
  BY <1>10, <1>a DEF Push, others, Typed
<1>11. ASSUME NEW p \in Projects, UserEdits(p) PROVE Typed'
  <2>1. config' \in [Projects -> Listed \cup {Torn}]
    BY <1>11, ListFacts DEF UserEdits, Typed
  <2> QED
    BY <1>11, <1>a, <2>1 DEF UserEdits, others, Typed
<1>12. CASE TimePasses
  BY <1>12, <1>a DEF TimePasses, others, Typed
<1>13. CASE UNCHANGED vars
  BY <1>13 DEF vars, Typed
<1> QED
  BY <1>1, <1>2, <1>3, <1>4, <1>5, <1>6, <1>7, <1>8, <1>9, <1>10, <1>11, <1>12, <1>13 DEF Next, Step, Outside

-----------------------------------------------------------------------------
(***************************************************************************)
(* Answers.                                                                *)
(***************************************************************************)
askedFor == <<request, read, target>>
answers == <<askedFor, fetched, results>>

LEMMA AnswersKept ==
  /\ UNCHANGED askedFor => Targets' = Targets /\ \A r : TargetsOf(r)' = TargetsOf(r)
  /\ UNCHANGED answers => /\ Judged' = Judged /\ Done' = Done /\ RecordedPlan' = RecordedPlan
                          /\ \A u : Recorded(u)' = Recorded(u)
<1>1. ASSUME UNCHANGED askedFor PROVE Targets' = Targets /\ \A r : TargetsOf(r)' = TargetsOf(r)
  BY <1>1 DEF askedFor, Targets, TargetsOf, Usages, Selected, Entry, EntryOf
<1>2. ASSUME UNCHANGED answers
      PROVE  /\ Judged' = Judged /\ Done' = Done /\ RecordedPlan' = RecordedPlan
             /\ \A u : Recorded(u)' = Recorded(u)
  <2>1. UNCHANGED <<request, read, target, fetched, results>> /\ Targets' = Targets
    BY <1>1, <1>2 DEF answers, askedFor
  <2>2. Done' = Done
    BY <2>1 DEF Done, Over
  <2>3. Judged' = Judged
    BY <2>1 DEF Judged, Over, Answered
  <2>4. \A u : Recorded(u)' = Recorded(u)
    BY <2>1 DEF Recorded, Selected, Entry, EntryOf
  <2>5. RecordedPlan' = RecordedPlan
    BY <2>1, <2>4 DEF RecordedPlan
  <2> QED
    BY <2>2, <2>3, <2>4, <2>5
<1> QED
  BY <1>1, <1>2

LEMMA JudgedStep == Typed /\ Judged /\ [Next]_vars => Judged'
<1> SUFFICES ASSUME Typed, Judged, [Next]_vars PROVE Judged'
  OBVIOUS
<1>1. CASE Collect
  <2>1. \A r \in Repos : ~Over(r)'
    BY <1>1 DEF Collect, Over, Waiting
  <2>2. \A t \in Targets' : t.repo \in Repos
    <3>1. ASSUME NEW u \in DOMAIN target' PROVE target'[u].repo \in Repos
      <4>1. read' \in [Projects -> Listed] /\ request' \in Requests
        <5>1. CASE Loaded = Projects
          BY <1>1, <5>1 DEF Collect, Loaded, Typed
        <5>2. CASE Loaded # Projects
          BY <1>1, <5>2, ListFacts DEF Collect, Empty
        <5> QED
          BY <5>1, <5>2
      <4>2. target' = [v \in UsagesOf(read') |-> TargetOf(request', v[1], EntryOf(read', v))]
        BY <1>1 DEF Collect
      <4>3. u[1] \in Projects /\ EntryOf(read', u) \in AnyEntry
        BY <4>1, <4>2, UsageFacts
      <4> QED
        BY <4>1, <4>2, <4>3, TargetIs
    <3> QED
      BY <3>1 DEF Targets, Usages
  <2>3. DOMAIN results' = {}
    BY <1>1 DEF Collect
  <2> QED
    BY <2>1, <2>2, <2>3 DEF Judged
<1>2. ASSUME NEW r \in Repos, Fetch(r) PROVE Judged'
  <2>1. UNCHANGED askedFor /\ Targets' = Targets /\ \A t \in Targets : t.repo \in Repos
    BY <1>2, AnswersKept, TargetFacts DEF Fetch, askedFor
  <2>2. ~Over(r) /\ request' = request /\ fetched \in [Repos -> Fetches]
    BY <1>2 DEF Fetch, Over, Typed
  <2>3. \A s \in Repos \ {r} : fetched'[s] = fetched[s]
    BY <1>2, <2>2 DEF Fetch
  <2>4. \A t \in DOMAIN results : t \in Targets /\ t.repo \in Repos \ {r} /\ Answered(t)
    BY <2>1, <2>2 DEF Judged
  <2>5. CASE fetched' = [fetched EXCEPT ![r] = [is |-> "fetched", at |-> now, has |-> remote[r]]] /\ UNCHANGED results
    <3>1. \A s \in Repos : Over(s)' <=> Over(s)
      BY <2>2, <2>3, <2>5 DEF Over
    <3> QED
      BY <2>1, <2>2, <2>3, <2>4, <2>5, <3>1 DEF Judged, Answered
  <2>6. CASE /\ fetched' = [fetched EXCEPT ![r] = [is |-> "failed", at |-> now]]
             /\ results' = [t \in DOMAIN results \cup TargetsOf(r) |-> IF t.repo = r THEN Failed ELSE results[t]]
    <3>1. Over(r)' /\ \A s \in Repos \ {r} : Over(s)' <=> Over(s)
      BY <2>2, <2>3, <2>6 DEF Over
    <3>2. DOMAIN results' = {t \in Targets' : Over(t.repo)'}
      BY <2>1, <2>2, <2>4, <2>6, <3>1 DEF Judged, TargetsOf
    <3>3. ASSUME NEW t \in DOMAIN results' PROVE Answered(t)'
      <4>1. CASE t.repo = r
        BY <2>6, <3>3, <4>1 DEF Answered
      <4>2. CASE t.repo # r
        BY <2>2, <2>3, <2>4, <2>6, <3>3, <4>2 DEF Answered, TargetsOf
      <4> QED
        BY <4>1, <4>2
    <3> QED
      BY <3>2, <3>3 DEF Judged
  <2> QED
    BY <1>2, <2>5, <2>6 DEF Fetch
<1>3. ASSUME NEW r \in Repos, Evaluate(r) PROVE Judged'
  <2>1. UNCHANGED askedFor /\ Targets' = Targets /\ \A t \in Targets : t.repo \in Repos
    BY <1>3, AnswersKept, TargetFacts DEF Evaluate, askedFor
  <2>2. ~Over(r) /\ request' = request /\ fetched \in [Repos -> Fetches]
        /\ fetched[r] \in [is : {"fetched", "evaluated"}, at : Nat, has : Remotes]
    BY <1>3 DEF Evaluate, Over, Typed, Fetches
  <2>3. \A s \in Repos \ {r} : fetched'[s] = fetched[s]
    BY <1>3, <2>2 DEF Evaluate
  <2>4. \A t \in DOMAIN results : t \in Targets /\ t.repo \in Repos \ {r} /\ Answered(t)
    BY <2>1, <2>2 DEF Judged
  <2>5. fetched'[r].is = "evaluated" /\ fetched'[r].at = now /\ fetched'[r].has = fetched[r].has
    <3>1. fetched' = [fetched EXCEPT ![r] = [fetched[r] EXCEPT !.is = "evaluated", !.at = now]]
      BY <1>3, <2>2 DEF Evaluate
    <3> QED
      BY <2>2, <3>1
  <2>6. Over(r)' /\ \A s \in Repos \ {r} : Over(s)' <=> Over(s)
    BY <2>3, <2>5 DEF Over
  <2>7. PICK lost \in SUBSET TargetsOf(r),
             choice \in [TargetsOf(r) -> UNION {Selections(fetched[r].has, t, request.edge, now) : t \in TargetsOf(r)}] :
          /\ \A t \in TargetsOf(r) : choice[t] \in Selections(fetched[r].has, t, request.edge, now)
          /\ results' = [t \in DOMAIN results \cup TargetsOf(r) |->
               IF t.repo # r THEN results[t]
               ELSE IF t \in lost THEN Failed ELSE Evaluated(fetched[r].has, t, choice[t])]
    BY <1>3 DEF Evaluate
  <2>8. DOMAIN results' = {t \in Targets' : Over(t.repo)'}
    BY <2>1, <2>2, <2>4, <2>6, <2>7 DEF Judged, TargetsOf
  <2>9. ASSUME NEW t \in DOMAIN results' PROVE Answered(t)'
    <3>1. CASE t.repo = r
      <4>1. t \in TargetsOf(r)
        BY <2>4, <2>7, <3>1
      <4>2. results'[t] = Failed \/ results'[t] = Evaluated(fetched[r].has, t, choice[t])
        BY <2>7, <3>1, <4>1
      <4>3. choice[t] \in Selections(fetched[r].has, t, request.edge, now)
        BY <2>7, <4>1
      <4> QED
        BY <2>2, <2>5, <3>1, <4>2, <4>3 DEF Answered
    <3>2. CASE t.repo # r
      BY <2>2, <2>3, <2>4, <2>7, <2>9, <3>2 DEF Answered, TargetsOf
    <3> QED
      BY <3>1, <3>2
  <2> QED
    BY <2>8, <2>9 DEF Judged
<1>4. CASE UNCHANGED answers
  BY <1>4, AnswersKept
<1>5. Apply \/ Truncate \/ Write \/ Return \/ Kill \/ Outside \/ (\E p \in Projects : Read(p)) \/ UNCHANGED vars
        => UNCHANGED answers
  BY DEF Apply, Truncate, Write, Return, Kill, Outside, Read, Push, UserEdits, TimePasses, outside, others, vars,
     answers, askedFor
<1> QED
  BY <1>1, <1>2, <1>3, <1>4, <1>5 DEF Next, Step

LEMMA RecordingStep == Typed /\ Judged /\ Recording /\ [Next]_vars => Recording'
<1> SUFFICES ASSUME Typed, Judged, Recording, [Next]_vars PROVE Recording'
  OBVIOUS
<1>1. CASE Collect
  BY <1>1 DEF Collect, Recording, Writes
<1>2. CASE \E r \in Repos : Fetch(r) \/ Evaluate(r)
  BY <1>2 DEF Fetch, Evaluate, Recording, Writes
<1>3. CASE Apply
  <2>1. UNCHANGED answers /\ pc' = "write" /\ exit' = "none"
    BY <1>3 DEF Apply, answers, askedFor, Recording
  <2>2. plan' = RecordedPlan
    BY <1>3 DEF Apply, RecordedPlan
  <2>3. Done
    BY <1>3, TargetFacts DEF Apply, Done, Over, TargetsOf
  <2> QED
    BY <2>1, <2>2, <2>3, AnswersKept DEF Recording, Writes
<1>4. CASE UNCHANGED <<answers, plan>>
  <2>1. RecordedPlan' = RecordedPlan /\ Done' = Done /\ UNCHANGED plan
    BY <1>4, AnswersKept
  <2>2. Result' = Result
    BY <1>4 DEF Result, Failures, Planned, answers, askedFor
  <2>3. CASE UNCHANGED <<pc, exit>>
    BY <2>1, <2>2, <2>3 DEF Recording
  <2>4. CASE pc \in Writes /\ pc' \in Writes /\ UNCHANGED exit
    BY <2>1, <2>4 DEF Recording, Writes
  <2>5. CASE pc' = "ended" /\ exit' = "error"
    BY <2>1, <2>5 DEF Recording, Writes
  <2>6. CASE pc \in Writes /\ pc' = "ended" /\ exit' = Result
    BY <2>1, <2>2, <2>6 DEF Recording, Writes, Result
  <2>7. Truncate \/ Write \/ Return \/ Kill \/ Outside \/ (\E p \in Projects : Read(p)) \/ UNCHANGED vars
        => \/ UNCHANGED <<pc, exit>>
           \/ pc \in Writes /\ pc' \in Writes /\ UNCHANGED exit
           \/ pc' = "ended" /\ exit' = "error"
           \/ pc \in Writes /\ pc' = "ended" /\ exit' = Result
    BY DEF Truncate, Write, Return, Kill, Outside, Read, Push, UserEdits, TimePasses, others, vars, Writes
  <2> QED
    BY <1>1, <1>2, <1>3, <2>3, <2>4, <2>5, <2>6, <2>7 DEF Next, Step
<1>5. Truncate \/ Write \/ Return \/ Kill \/ Outside \/ (\E p \in Projects : Read(p)) \/ UNCHANGED vars
        => UNCHANGED <<answers, plan>>
  BY DEF Truncate, Write, Return, Kill, Outside, Read, Push, UserEdits, TimePasses, outside, others, vars,
     answers, askedFor
<1> QED
  BY <1>1, <1>2, <1>3, <1>4, <1>5 DEF Next, Step

-----------------------------------------------------------------------------
(***************************************************************************)
(* What is written.                                                        *)
(***************************************************************************)
LEMMA MergedHasPlan ==
  ASSUME Typed, Judged, Recording, pc \in Writes, NEW p \in Projects
  PROVE  HasPlan(Merged(read[p], plan[p]), p)
<1> DEFINE list == Merged(read[p], plan[p])
<1>1. DOMAIN list = DOMAIN read[p] /\ DOMAIN plan[p] = DOMAIN read[p]
  BY PlanFacts DEF Merged
<1>2. ASSUME NEW i \in DOMAIN list
      PROVE  /\ list[i].repo = read[p][i].repo /\ list[i].hooks = read[p][i].hooks
             /\ IF plan[p][i] = NoRevision THEN list[i] = read[p][i]
                ELSE Revision(list[i].rev, list[i].frozen) = plan[p][i]
  <2>1. list[i] = Rewritten(read[p][i], plan[p][i])
    BY <1>1, <1>2 DEF Merged
  <2>2. read[p] \in Listed /\ i \in DOMAIN read[p]
    BY <1>1, <1>2 DEF Typed
  <2>3. read[p][i] \in AnyEntry
    BY <2>2, ListFacts
  <2>4. plan[p][i] = NoRevision \/ plan[p][i] = Revision(plan[p][i].rev, plan[p][i].frozen)
    BY <1>1, <1>2, PlanFacts
  <2> HIDE DEF list
  <2>5. CASE plan[p][i] = NoRevision
    BY <2>1, <2>5 DEF Rewritten
  <2>6. CASE plan[p][i] # NoRevision
    <3>1. list[i] = [read[p][i] EXCEPT !.rev = plan[p][i].rev, !.frozen = plan[p][i].frozen]
      BY <2>1, <2>6 DEF Rewritten
    <3>2. /\ list[i].repo = read[p][i].repo /\ list[i].hooks = read[p][i].hooks
          /\ list[i].rev = plan[p][i].rev /\ list[i].frozen = plan[p][i].frozen
      BY <2>3, <3>1 DEF AnyEntry
    <3> QED
      BY <2>4, <2>6, <3>2
  <2> QED
    BY <2>5, <2>6
<1> HIDE DEF list
<1> QED
  BY <1>1, <1>2 DEF HasPlan, list

LEMMA WrittenStep == Typed /\ Judged /\ Recording /\ Written /\ [Next]_vars => Written'
<1> SUFFICES ASSUME Typed, Judged, Recording, Written, [Next]_vars PROVE Written'
  OBVIOUS
<1>a. pc \in {"idle", "fetch", "ended", "write", "truncate", "fill"}
  BY DEF Typed, Places, Writes
<1>b. "write" \in Writes /\ "truncate" \in Writes /\ "fill" \in Writes
      /\ "fetch" \notin Writes /\ "ended" \notin Writes /\ "idle" \notin Writes
  BY DEF Writes
<1>1. CASE Collect
  <2>1. edited' = {} /\ config' = config /\ pc' \in {"fetch", "ended"}
    BY <1>1 DEF Collect
  <2>2. CASE Loaded = Projects
    BY <1>1, <1>b, <2>1, <2>2 DEF Collect, Written, Kept
  <2>3. CASE Loaded # Projects
    BY <1>1, <1>b, <2>1, <2>3 DEF Collect, Written, Kept
  <2> QED
    BY <2>2, <2>3
<1>2. CASE \E r \in Repos : Fetch(r) \/ Evaluate(r)
  <2>1. pc = "fetch" /\ UNCHANGED <<config, pc, read, exit, edited>> /\ exit = "none"
    BY <1>2 DEF Fetch, Evaluate, outside, Recording
  <2> QED
    BY <1>b, <2>1 DEF Written, Kept
<1>3. CASE Apply
  <2>1. pc = "fetch" /\ pc' = "write" /\ exit' = "none" /\ UNCHANGED <<config, read, request, edited>>
    BY <1>3 DEF Apply, outside, Recording
  <2>2. \A p \in Projects \ edited : Kept(p) /\ Kept(p)'
    BY <2>1 DEF Written, Kept
  <2>3. todo' = IF request.dry THEN {} ELSE {p \in Projects : \E i \in DOMAIN plan'[p] : plan'[p][i] # NoRevision}
    BY <1>3 DEF Apply
  <2>4. ASSUME NEW p \in Projects \ edited, p \notin todo' PROVE Brought(p)'
    <3>1. CASE request.dry
      BY <2>1, <2>2, <3>1 DEF Brought
    <3>2. CASE ~request.dry
      <4>1. \A i \in DOMAIN plan'[p] : plan'[p][i] = NoRevision
        BY <2>3, <2>4, <3>2
      <4>2. DOMAIN plan'[p] = DOMAIN read[p] /\ config'[p] = read[p] /\ read' = read
        BY <1>3, <2>1, <2>2 DEF Apply, Kept
      <4>3. HasPlan(config[p], p)'
        BY <4>1, <4>2 DEF HasPlan
      <4> QED
        BY <2>1, <3>2, <4>3 DEF Brought
    <3> QED
      BY <3>1, <3>2
  <2>5. edited' = edited /\ (request'.dry => todo' = {})
    BY <2>1, <2>3
  <2> QED
    BY <1>b, <2>1, <2>2, <2>4, <2>5 DEF Written
<1>4. ASSUME UNCHANGED <<read, request, plan>>
      PROVE  \A p \in Projects : config'[p] = config[p] => (Kept(p)' <=> Kept(p)) /\ (Brought(p)' <=> Brought(p))
                                                         /\ (HasPlan(config[p], p)' <=> HasPlan(config[p], p))
  <2>1. \A p \in Projects : config'[p] = config[p] => (HasPlan(config[p], p)' <=> HasPlan(config[p], p))
    BY <1>4 DEF HasPlan
  <2>2. \A p \in Projects : config'[p] = config[p] => (Kept(p)' <=> Kept(p))
    BY <1>4 DEF Kept
  <2> QED
    BY <1>4, <2>1, <2>2 DEF Brought
<1>5. ASSUME NEW q \in Projects, Read(q) PROVE Written'
  <2>1. UNCHANGED <<config, read, request, plan, todo, edited>> /\ pc = "write" /\ q \in todo /\ exit = "none"
    BY <1>5, <1>b DEF Read, outside, Recording
  <2>2. CASE config[q] # Torn /\ Len(config[q]) = Len(plan[q])
    <3>1. writing' = q /\ buffer' = Merged(config[q], plan[q]) /\ pc' = "truncate" /\ exit' = "none"
      BY <1>5, <2>1, <2>2 DEF Read
    <3>2. q \notin edited => config[q] = read[q]
      BY <1>b, <2>1 DEF Written, Kept
    <3> QED
      BY <1>4, <1>b, <2>1, <3>1, <3>2 DEF Written
  <2>3. CASE ~(config[q] # Torn /\ Len(config[q]) = Len(plan[q]))
    <3>1. pc' = "ended" /\ exit' = "error"
      BY <1>5, <2>3 DEF Read
    <3>2. \A p \in Projects \ edited : Kept(p) \/ (~request.dry /\ HasPlan(config[p], p))
      BY <1>b, <2>1 DEF Written, Brought
    <3> QED
      BY <1>4, <1>b, <2>1, <3>1, <3>2 DEF Written
  <2> QED
    BY <2>2, <2>3
<1>6. CASE Truncate
  <2>1. UNCHANGED <<read, request, plan, todo, edited, writing, buffer, exit>> /\ pc = "truncate" /\ pc' = "fill"
        /\ exit = "none" /\ config' = [config EXCEPT ![writing] = Torn]
    BY <1>6, <1>b DEF Truncate, outside, Recording
  <2>2. writing \in todo /\ writing \in Projects /\ config \in [Projects -> Listed \cup {Torn}]
    BY <2>1 DEF Written, Typed
  <2>3. config'[writing] = Torn /\ \A p \in Projects \ {writing} : config'[p] = config[p]
    BY <2>1, <2>2
  <2>4. writing' = writing /\ todo' = todo /\ edited' = edited /\ exit' = "none" /\ request' = request
    BY <2>1
  <2>5. \A p \in Projects \ edited : IF p \notin todo THEN Brought(p) ELSE Kept(p)
    BY <1>b, <2>1 DEF Written
  <2>6. \A p \in Projects \ edited : IF p \notin todo THEN Brought(p)' ELSE p # writing => Kept(p)'
    BY <1>4, <2>1, <2>2, <2>3, <2>5
  <2>7. /\ writing \notin edited => buffer' = Merged(read'[writing], plan'[writing])
        /\ request.dry => todo = {}
    BY <1>b, <2>1 DEF Written
  <2> QED
    BY <1>b, <2>1, <2>2, <2>3, <2>4, <2>6, <2>7 DEF Written
<1>7. CASE Write
  <2>1. UNCHANGED <<read, request, plan, edited, exit>> /\ pc = "fill" /\ pc' = "write" /\ exit = "none"
        /\ config' = [config EXCEPT ![writing] = buffer] /\ todo' = todo \ {writing}
    BY <1>7, <1>b DEF Write, outside, Recording
  <2>2. writing \in todo /\ writing \in Projects /\ config \in [Projects -> Listed \cup {Torn}] /\ ~request.dry
    BY <1>b, <2>1 DEF Written, Typed
  <2>3. PICK q \in Projects : q = writing
    BY <2>2
  <2>4. config'[q] = buffer /\ todo' = todo \ {q} /\ \A p \in Projects \ {q} : config'[p] = config[p]
    BY <2>1, <2>2, <2>3
  <2>5. ASSUME q \notin edited PROVE Brought(q)'
    <3>1. buffer = Merged(read[q], plan[q])
      BY <2>1, <2>3, <2>5 DEF Written
    <3>2. HasPlan(buffer, q)
      BY <1>b, <2>1, <3>1, MergedHasPlan
    <3>3. HasPlan(config[q], q)'
      BY <2>1, <2>4, <3>2 DEF HasPlan
    <3> QED
      BY <2>1, <2>2, <3>3 DEF Brought
  <2>6. ASSUME NEW p \in Projects \ edited, p # q PROVE IF p \notin todo THEN Brought(p)' ELSE Kept(p)'
    <3>1. IF p \notin todo THEN Brought(p) ELSE Kept(p)
      BY <1>b, <2>1, <2>3, <2>6 DEF Written
    <3> QED
      BY <1>4, <2>1, <2>4, <2>6, <3>1
  <2> QED
    BY <1>b, <2>1, <2>2, <2>4, <2>5, <2>6 DEF Written
<1>8. CASE Return
  <2>1. UNCHANGED <<config, read, request, plan, edited, todo>> /\ pc = "write" /\ todo = {} /\ pc' = "ended"
        /\ exit' \in {"success", "failure"}
    BY <1>8 DEF Return, outside, Result
  <2>2. \A p \in Projects \ edited : Brought(p)'
    BY <1>4, <1>b, <2>1 DEF Written
  <2> QED
    BY <1>b, <2>1, <2>2 DEF Written
<1>9. CASE Kill
  <2>1. UNCHANGED <<config, read, request, plan, edited>> /\ pc \notin {"idle", "ended"} /\ pc' = "ended" /\ exit' = "error"
    BY <1>9 DEF Kill, outside, Running
  <2>2. ASSUME NEW p \in Projects \ edited
        PROVE  Kept(p) \/ (~request.dry /\ (config[p] = Torn \/ HasPlan(config[p], p)))
    <3>1. CASE pc = "fetch"
      BY <3>1 DEF Written
    <3>2. CASE pc \in Writes
      BY <3>2 DEF Written, Brought
    <3> QED
      BY <1>a, <1>b, <2>1, <3>1, <3>2
  <2> QED
    BY <1>4, <1>b, <2>1, <2>2 DEF Written
<1>10. CASE (\E r \in Repos : Push(r)) \/ TimePasses \/ UNCHANGED vars
  <2>1. UNCHANGED <<config, read, request, plan, edited, todo, writing, buffer, pc, exit>>
    BY <1>10 DEF Push, TimePasses, others, vars
  <2> QED
    BY <1>4, <2>1 DEF Written
<1>11. ASSUME NEW q \in Projects, UserEdits(q) PROVE Written'
  <2>1. UNCHANGED <<read, request, plan, todo, writing, buffer, pc, exit>> /\ edited' = edited \cup {q}
        /\ \A p \in Projects \ {q} : config'[p] = config[p]
    BY <1>11 DEF UserEdits, others, Typed
  <2> QED
    BY <1>4, <2>1 DEF Written
<1> QED
  BY <1>1, <1>2, <1>3, <1>5, <1>6, <1>7, <1>8, <1>9, <1>10, <1>11 DEF Next, Step, Outside

LEMMA UpdateStart == Init => UpdateInv
<1> SUFFICES ASSUME Init PROVE UpdateInv
  OBVIOUS
<1>1. Typed
  BY TypedInit
<1>2. Judged
  <2>1. \A r \in Repos : ~Over(r)
    BY DEF Init, Over, Waiting
  <2>2. \A t \in Targets : t.repo \in Repos
    BY <1>1, TargetFacts
  <2> QED
    BY <2>1, <2>2 DEF Judged, Init
<1>3. Recording
  BY DEF Init, Recording, Writes
<1>4. Written
  BY DEF Init, Written, Writes
<1> QED
  BY <1>1, <1>2, <1>3, <1>4 DEF UpdateInv

LEMMA UpdateAlways == Spec => []UpdateInv
<1>1. UpdateInv /\ [Next]_vars => UpdateInv'
  BY TypedStep, JudgedStep, RecordingStep, WrittenStep DEF UpdateInv
<1> QED
  BY <1>1, UpdateStart, PTL DEF Spec

-----------------------------------------------------------------------------
(***************************************************************************)
(* Every variable has its type, and revisions are planned for the entries  *)
(* that were read, and are revisions.                                      *)
(***************************************************************************)
THEOREM UpdateTyping == Spec => []TypeOK
<1>1. UpdateInv => TypeOK
  <2> SUFFICES ASSUME UpdateInv PROVE TypeOK
    OBVIOUS
  <2>1. Typed /\ Judged /\ Recording
    BY DEF UpdateInv
  <2>2. \A list \in Listed : list \in Seq(AnyEntry)
    BY DEF Listed
  <2>3. (\A p \in Projects : config[p] = Torn \/ config[p] \in Seq(AnyEntry)) /\ read \in [Projects -> Seq(AnyEntry)]
    BY <2>1, <2>2 DEF Typed
  <2>4. \A r \in Repos : fetched[r].is \in {"waiting", "failed", "fetched", "evaluated"}
    BY <2>1 DEF Typed, Fetches
  <2>5. Usages = UsagesOf(read) /\ DOMAIN results \subseteq Targets
    BY <2>1, TargetFacts DEF Judged
  <2>6. \A p \in Projects : \A i \in DOMAIN plan[p] :
          i \in DOMAIN read[p] /\ plan[p][i].rev \in Tags \cup Commits \cup {"none"}
    <3>1. NoRevision.rev = "none"
      BY DEF NoRevision, Revision
    <3> QED
      BY <2>1, <3>1, PlanFacts
  <2> QED
    BY <2>1, <2>3, <2>4, <2>5, <2>6 DEF Typed, TypeOK, Places, Writes
<1> QED
  BY <1>1, UpdateAlways, PTL

LEMMA PlannedIsList ==
  ASSUME Typed, NEW p \in Projects, HasPlan(config[p], p)
  PROVE  config[p] # Torn
<1> SUFFICES ASSUME HasPlan(Torn, p) PROVE FALSE
  OBVIOUS
<1>1. DOMAIN Torn = {1} /\ Torn[1] = NoRevision
  BY DEF Torn
<1>2. read[p] \in Listed /\ 1 \in DOMAIN read[p]
  BY <1>1 DEF HasPlan, Typed
<1>3. plan[p][1] # NoRevision
  <2>1. read[p][1] \in AnyEntry
    BY <1>2, ListFacts
  <2> QED
    BY <1>1, <2>1, ListFacts DEF HasPlan
<1>4. Revision(NoRevision.rev, NoRevision.frozen) = NoRevision
  BY DEF NoRevision, Revision
<1> QED
  BY <1>1, <1>3, <1>4 DEF HasPlan

(***************************************************************************)
(* A configuration that nobody else edits is written as planned or not at  *)
(* all, and no error-free end leaves one behind (WritesAsPlanned), however *)
(* commands, kills, pushes and edits of other configurations interleave.   *)
(***************************************************************************)
THEOREM PlansAreWritten == Spec => []WritesAsPlanned
<1>1. UpdateInv => WritesAsPlanned
  <2> SUFFICES ASSUME UpdateInv, read # Empty, NEW p \in Projects \ edited
               PROVE  /\ config[p] = Torn => ~request.dry /\ (exit = "error" \/ (pc = "fill" /\ writing = p))
                      /\ config[p] \notin {Torn, read[p]} => pc # "fetch" /\ ~request.dry /\ HasPlan(config[p], p)
                      /\ exit \in {"success", "failure"} /\ ~request.dry => HasPlan(config[p], p)
    BY DEF WritesAsPlanned
  <2>1. Typed /\ Judged /\ Recording /\ Written
    BY DEF UpdateInv
  <2>2. ~Torn = read[p] /\ read[p] \in Listed
    BY <2>1, ListFacts DEF Typed
  <2>3. HasPlan(config[p], p) => config[p] # Torn
    BY <2>1, PlannedIsList
  <2>4. CASE pc \in {"idle", "fetch"}
    BY <2>1, <2>2, <2>4 DEF Written, Recording, Kept, Typed
  <2>5. CASE pc \in Writes
    BY <2>1, <2>2, <2>3, <2>5 DEF Written, Recording, Kept, Brought, Writes
  <2>6. CASE pc = "ended"
    BY <2>1, <2>2, <2>3, <2>6 DEF Written, Recording, Kept, Brought
  <2> QED
    BY <2>1, <2>4, <2>5, <2>6 DEF Typed, Places
<1> QED
  BY <1>1, UpdateAlways, PTL

-----------------------------------------------------------------------------
(***************************************************************************)
(* What is selected.                                                       *)
(***************************************************************************)
LEMMA PlannedIs ==
  ASSUME UpdateInv, NEW u \in PlannedUsages
  PROVE  u \in Usages /\ Typed /\ Judged /\ Done /\ PlanOf(u) = Recorded(u) /\ PlanOf(u) # NoRevision
<1>1. Typed /\ Judged /\ Recording
  BY DEF UpdateInv
<1>2. u \in Usages /\ u[2] \in DOMAIN plan[u[1]] /\ PlanOf(u) # NoRevision
  BY DEF PlannedUsages, PlanOf
<1>3. u[1] \in Projects /\ u = <<u[1], u[2]>>
  BY <1>1, <1>2, TargetFacts
<1>4. plan # Empty
  BY <1>2, <1>3 DEF Empty
<1>5. plan = RecordedPlan /\ Done
  BY <1>1, <1>4 DEF Recording
<1>6. plan[u[1]][u[2]] = Recorded(<<u[1], u[2]>>)
  BY <1>2, <1>3, <1>5 DEF RecordedPlan
<1> QED
  BY <1>1, <1>2, <1>3, <1>5, <1>6, Zenon DEF PlanOf

\* A new revision comes from the head, or from what the cooldown keeps, or from a tag
\* that the options of the project leave.
LEMMA NewRevisionIs ==
  ASSUME UpdateInv, NEW u \in PlannedUsages, PlanOf(u).rev # Entry(u).rev
  PROVE  LET R == FetchedFor(u)
             e == Entry(u)
             a == target[u]
             new == PlanOf(u)
         IN  \E s :
              /\ s \in Commits \cup TagsOf(R) /\ new = Evaluated(R, a, s) /\ new # Failed /\ s # "none"
              /\ Resolve(R, s) = CommitOf(u) /\ Resolve(R, s) \in Commits
              /\ IF request.edge THEN Resolve(R, s) = R.head
                 ELSE \E t \in a.tags \cap TagsOf(R) :
                        /\ R.tags[t].time <= Monus(fetched[e.repo].at, a.cooldown)
                        /\ \/ a.cooldown > 0 /\ Downgrades(R, a.rev, t) /\ s = a.rev
                           \/ /\ ~(a.cooldown > 0 /\ Downgrades(R, a.rev, t))
                              /\ s \in TagsAt(R, a.tags, R.tags[t].commit)
<1> DEFINE R == FetchedFor(u)
           e == Entry(u)
           a == target[u]
           new == PlanOf(u)
<1>1. u \in Usages /\ Typed /\ Judged /\ Done /\ new = Recorded(u) /\ new # NoRevision
  BY PlannedIs
<1>2. Selected(u) /\ new # Failed /\ new = results[a]
  BY <1>1, RecordedIs DEF Revision
<1>3. IsFetched(R) /\ fetched[e.repo].at \in Nat /\ IsAsked(a) /\ a.rev = e.rev
  BY <1>1, <1>2, AnswerIs, TargetFacts
<1>4. PICK s \in Selections(R, a, request.edge, fetched[e.repo].at) : new = Evaluated(R, a, s)
  BY <1>1, <1>2, AnswerIs
<1>5. s # "none"
  BY <1>3, <1>4 DEF Evaluated, Revision
<1>6. s \in Commits \cup TagsOf(R) /\ Resolve(R, s) = CommitOf(u) /\ Resolve(R, s) \in Commits
  BY <1>2, <1>3, <1>4, <1>5, EvaluatedIs DEF CommitOf
<1>7. CASE request.edge
  <2>1. s \in Edges(R)
    BY <1>4, <1>7 DEF Selections
  <2> QED
    BY <1>2, <1>3, <1>4, <1>5, <1>6, <1>7, <2>1, EdgesAre
<1>8. CASE ~request.edge
  <2> DEFINE cutoff == Monus(fetched[e.repo].at, a.cooldown)
  <2>1. cutoff \in Nat
    BY <1>3 DEF Monus, IsAsked
  <2>2. PICK t \in Candidates(R, a.tags, cutoff) : s = Preferred(R, a, t)
    BY <1>4, <1>5, <1>8 DEF Selections
  <2>3. t \in a.tags \cap TagsOf(R) /\ R.tags[t].time <= cutoff
    BY <1>3, <2>1, <2>2, CandidateIs DEF IsAsked
  <2>4. \/ a.cooldown > 0 /\ Downgrades(R, a.rev, t) /\ s = a.rev
        \/ /\ ~(a.cooldown > 0 /\ Downgrades(R, a.rev, t))
           /\ s \in TagsAt(R, a.tags, R.tags[t].commit)
    BY <1>3, <2>2, <2>3, PreferredIs
  <2> HIDE DEF R, e, a, new, cutoff
  <2>5. \E v \in a.tags \cap TagsOf(R) :
          /\ R.tags[v].time <= cutoff
          /\ \/ a.cooldown > 0 /\ Downgrades(R, a.rev, v) /\ s = a.rev
             \/ /\ ~(a.cooldown > 0 /\ Downgrades(R, a.rev, v))
                /\ s \in TagsAt(R, a.tags, R.tags[v].commit)
    BY <2>3, <2>4
  <2> QED
    BY <1>2, <1>4, <1>5, <1>6, <1>8, <2>5 DEF R, e, a, new, cutoff
<1> QED
  BY <1>7, <1>8

(***************************************************************************)
(* An entry gets only what its own project's options allow (OwnSelection), *)
(* though its repository is fetched once for all projects and while others *)
(* change it.                                                              *)
(***************************************************************************)
THEOREM SelectionsAreOwn == Spec => []OwnSelection
<1>1. UpdateInv => OwnSelection
  <2> SUFFICES ASSUME UpdateInv, NEW u \in PlannedUsages
               PROVE  LET p == u[1]
                          R == FetchedFor(u)
                          new == PlanOf(u)
                      IN /\ Selected(u)
                         /\ new.rev # Entry(u).rev =>
                              /\ Manifest[CommitOf(u)] # {} /\ Entry(u).hooks \subseteq Manifest[CommitOf(u)]
                              /\ IF request.edge THEN CommitOf(u) = R.head
                                 ELSE \/ Cooldown(request, p) > 0 /\ CommitOf(u) = Resolve(R, Entry(u).rev)
                                      \/ \E t \in TagsAt(R, FilterOf(request, p, Entry(u).repo), CommitOf(u)) :
                                           R.tags[t].time <= Monus(fetched[Entry(u).repo].at, Cooldown(request, p))
                              /\ Freeze(request, p) => new.rev \in Commits
                         /\ new.frozen # "none" => new.rev \in Commits /\ Resolve(R, new.frozen) = new.rev
    BY DEF OwnSelection
  <2> DEFINE p == u[1]
             R == FetchedFor(u)
             e == Entry(u)
             a == target[u]
             new == PlanOf(u)
  <2>1. u \in Usages /\ Typed /\ Judged /\ Done /\ new = Recorded(u) /\ new # NoRevision
    BY PlannedIs
  <2>2. /\ Selected(u) /\ results[a] # Failed
        /\ \/ results[a].rev # e.rev /\ new = results[a]
           \/ new = Revision(e.rev, FrozenFor(R, e.rev, e.frozen)) /\ FrozenFor(R, e.rev, e.frozen) # e.frozen
    BY <2>1, RecordedIs
  <2>3. IsFetched(R) /\ IsAsked(a) /\ e \in AnyEntry
    BY <2>1, <2>2, AnswerIs, TargetFacts
  <2>4. a.rev = e.rev /\ a.hooks = e.hooks /\ a.cooldown = Cooldown(request, p) /\ a.freeze = Freeze(request, p)
        /\ a.tags = FilterOf(request, p, e.repo)
    BY <2>1, TargetFacts
  <2>5. CASE new.rev # e.rev
    <3>1. PICK s :
            /\ s \in Commits \cup TagsOf(R) /\ new = Evaluated(R, a, s) /\ new # Failed /\ s # "none"
            /\ Resolve(R, s) = CommitOf(u) /\ Resolve(R, s) \in Commits
            /\ IF request.edge THEN Resolve(R, s) = R.head
               ELSE \E t \in a.tags \cap TagsOf(R) :
                      /\ R.tags[t].time <= Monus(fetched[e.repo].at, a.cooldown)
                      /\ \/ a.cooldown > 0 /\ Downgrades(R, a.rev, t) /\ s = a.rev
                         \/ /\ ~(a.cooldown > 0 /\ Downgrades(R, a.rev, t))
                            /\ s \in TagsAt(R, a.tags, R.tags[t].commit)
      BY <2>5, NewRevisionIs
    <3>2. /\ HasHooks(R, new.rev, a.hooks) /\ new.rev = (IF a.freeze THEN Resolve(R, s) ELSE s)
          /\ new.frozen = "none" \/ (new.frozen = s /\ s \in TagsOf(R) /\ new.rev \in Commits)
          /\ Resolve(R, new.rev) = Resolve(R, s)
      BY <2>3, <3>1, EvaluatedIs
    <3>3. Manifest[CommitOf(u)] # {} /\ e.hooks \subseteq Manifest[CommitOf(u)]
      BY <2>4, <3>2 DEF HasHooks, CommitOf
    <3>4. request.edge => CommitOf(u) = R.head
      BY <3>1
    <3>5. ~request.edge =>
            \/ Cooldown(request, p) > 0 /\ CommitOf(u) = Resolve(R, e.rev)
            \/ \E t \in TagsAt(R, FilterOf(request, p, e.repo), CommitOf(u)) :
                 R.tags[t].time <= Monus(fetched[e.repo].at, Cooldown(request, p))
      <4> SUFFICES ASSUME ~request.edge,
                          ~(Cooldown(request, p) > 0 /\ CommitOf(u) = Resolve(R, e.rev))
                   PROVE  \E t \in TagsAt(R, FilterOf(request, p, e.repo), CommitOf(u)) :
                            R.tags[t].time <= Monus(fetched[e.repo].at, Cooldown(request, p))
        OBVIOUS
      <4> HIDE DEF R, e, a, new, p
      <4>1. PICK t \in a.tags \cap TagsOf(R) :
                  /\ R.tags[t].time <= Monus(fetched[e.repo].at, a.cooldown)
                  /\ \/ a.cooldown > 0 /\ s = a.rev
                     \/ s \in TagsAt(R, a.tags, R.tags[t].commit)
        BY <3>1
      <4>2. s \in TagsAt(R, a.tags, R.tags[t].commit)
        BY <2>4, <3>1, <4>1
      <4>3. s \in TagsOf(R) /\ R.tags[s].commit = R.tags[t].commit
        BY <4>2 DEF TagsAt
      <4>4. Resolve(R, s) = R.tags[t].commit
        BY <2>3, <4>3, ResolveIs
      <4>5. t \in TagsAt(R, a.tags, CommitOf(u))
        BY <3>1, <4>1, <4>4 DEF TagsAt
      <4> QED
        BY <2>4, <4>1, <4>5
    <3>6. Freeze(request, p) => new.rev \in Commits
      BY <2>4, <3>1, <3>2
    <3>7. new.frozen # "none" => new.rev \in Commits /\ Resolve(R, new.frozen) = new.rev
      BY <2>3, <3>1, <3>2, ResolveIs
    <3> HIDE DEF R, e, a, new
    <3> QED
      BY <2>2, <3>3, <3>4, <3>5, <3>6, <3>7 DEF R, e, new
  <2>6. CASE new.rev = e.rev
    <3>1. e.rev \in Tags \cup Commits /\ e.frozen \in Tags \cup {"none"}
      BY <2>3 DEF AnyEntry
    <3>2. new.frozen = FrozenFor(R, e.rev, e.frozen) /\ new.frozen # e.frozen
      BY <2>2, <2>6 DEF Revision
    <3>3. new.frozen # "none" => new.rev \in Commits /\ Resolve(R, new.frozen) = new.rev
      BY <2>3, <2>6, <3>1, <3>2, FrozenIs
    <3> QED
      BY <2>2, <2>6, <3>3
  <2> QED
    BY <2>5, <2>6
<1> QED
  BY <1>1, UpdateAlways, PTL

(***************************************************************************)
(* With a cooldown no entry goes back from a tag to a commit whose tags    *)
(* are all older (NeverDowngrades).                                        *)
(***************************************************************************)
THEOREM NothingIsDowngraded == Spec => []NeverDowngrades
<1>1. UpdateInv => NeverDowngrades
  <2> SUFFICES ASSUME UpdateInv, NEW u \in PlannedUsages,
                      Cooldown(request, u[1]) > 0, ~request.edge,
                      CurrentTag(FetchedFor(u), Entry(u).rev) # "none"
               PROVE  \E t \in TagsAt(FetchedFor(u), Tags, CommitOf(u)) :
                        \/ t = CurrentTag(FetchedFor(u), Entry(u).rev)
                        \/ ~SortsNewer(FetchedFor(u), CurrentTag(FetchedFor(u), Entry(u).rev), t)
    BY DEF NeverDowngrades
  <2> DEFINE R == FetchedFor(u)
             e == Entry(u)
             a == target[u]
             new == PlanOf(u)
             tag == CurrentTag(R, e.rev)
  <2>1. u \in Usages /\ Typed /\ Judged /\ Done /\ new = Recorded(u) /\ new # NoRevision
    BY PlannedIs
  <2>2. Selected(u) /\ results[a] # Failed
    BY <2>1, RecordedIs
  <2>3. IsFetched(R) /\ IsAsked(a) /\ e \in AnyEntry /\ a.rev = e.rev /\ a.cooldown > 0
    BY <2>1, <2>2, AnswerIs, TargetFacts
  <2>4. e.rev \in Tags \cup Commits
    BY <2>3 DEF AnyEntry
  <2>5. tag \in TagsAt(R, Tags, Resolve(R, e.rev))
    BY <2>3, <2>4, CurrentIs
  <2>6. CASE CommitOf(u) = Resolve(R, e.rev)
    BY <2>5, <2>6
  <2>7. CASE new.rev # e.rev
    <3>1. PICK s :
            /\ Resolve(R, s) = CommitOf(u)
            /\ \E t \in a.tags \cap TagsOf(R) :
                 \/ s = a.rev
                 \/ ~Downgrades(R, a.rev, t) /\ s \in TagsAt(R, a.tags, R.tags[t].commit)
      BY <2>3, <2>7, NewRevisionIs
    <3>2. PICK t \in a.tags \cap TagsOf(R) :
                 s = a.rev \/ (~Downgrades(R, a.rev, t) /\ s \in TagsAt(R, a.tags, R.tags[t].commit))
      BY <3>1
    <3>3. CASE s = a.rev
      BY <2>3, <2>6, <3>1, <3>3
    <3>4. CASE ~Downgrades(R, a.rev, t) /\ s \in TagsAt(R, a.tags, R.tags[t].commit)
      <4>1. s \in TagsOf(R) /\ R.tags[s].commit = R.tags[t].commit
        BY <3>4 DEF TagsAt
      <4>2. CommitOf(u) = R.tags[t].commit
        BY <2>3, <3>1, <4>1, ResolveIs
      <4>3. R.tags[tag].commit = R.tags[t].commit \/ ~SortsNewer(R, tag, t)
        BY <2>3, <3>4 DEF Downgrades
      <4>4. t \in TagsAt(R, Tags, CommitOf(u)) /\ (R.tags[tag].commit = R.tags[t].commit => tag \in TagsAt(R, Tags, CommitOf(u)))
        BY <2>3, <2>5, <4>2 DEF TagsAt, IsAsked
      <4> QED
        BY <4>3, <4>4
    <3> QED
      BY <3>2, <3>3, <3>4
  <2>8. CASE new.rev = e.rev
    BY <2>6, <2>8 DEF CommitOf
  <2> QED
    BY <2>7, <2>8
<1> QED
  BY <1>1, UpdateAlways, PTL

(***************************************************************************)
(* After a success an update of what was fetched would find nothing to do: *)
(* selection is idempotent, and so are the comments.                       *)
(***************************************************************************)
LEMMA WrittenIs ==
  ASSUME UpdateInv, exit = "success", ~request.dry \/ request.code,
         NEW u \in Usages, u[1] \notin edited
  PROVE  LET e == config[u[1]][u[2]]
             new == Recorded(u)
         IN  /\ Typed /\ Judged /\ Done /\ ~Failures
             /\ e \in AnyEntry /\ e.repo = Entry(u).repo /\ e.hooks = Entry(u).hooks
             /\ IF new = NoRevision THEN e = Entry(u) ELSE e.rev = new.rev /\ e.frozen = new.frozen
<1> DEFINE p == u[1]
           i == u[2]
           e == config[p][i]
           new == Recorded(u)
<1>1. Typed /\ Judged /\ Recording /\ Written
  BY DEF UpdateInv
<1>2. pc = "ended" /\ plan = RecordedPlan /\ Done /\ Result = "success"
  BY <1>1 DEF Recording, Typed, Places
<1>3. p \in Projects /\ i \in DOMAIN read[p] /\ u = <<p, i>> /\ Entry(u) = read[p][i] /\ Entry(u) \in AnyEntry
  BY <1>1, TargetFacts DEF Entry, EntryOf
<1>4. plan[p] = [k \in DOMAIN read[p] |-> Recorded(<<p, k>>)]
  BY <1>2, <1>3 DEF RecordedPlan
<1>5. plan[p][i] = new /\ i \in DOMAIN plan[p]
  BY <1>3, <1>4
<1>6. ~Failures /\ (request.code => ~Planned(p))
  BY <1>2, <1>3 DEF Result
<1>7. Brought(p)
  BY <1>1, <1>2, <1>3 DEF Written
<1>8. CASE request.dry
  <2>1. e = Entry(u)
    BY <1>3, <1>7, <1>8 DEF Brought, Kept
  <2>2. new = NoRevision
    BY <1>5, <1>6, <1>8 DEF Planned
  <2> QED
    BY <1>1, <1>2, <1>3, <1>6, <2>1, <2>2
<1>9. CASE ~request.dry
  <2>1. HasPlan(config[p], p)
    BY <1>7, <1>9 DEF Brought
  <2>2. config[p] \in Listed
    BY <1>1, <1>3, <2>1, PlannedIsList DEF Typed
  <2>3. i \in DOMAIN config[p]
    BY <1>3, <2>1 DEF HasPlan
  <2>4. e \in AnyEntry
    BY <2>2, <2>3, ListFacts
  <2>5. /\ e.repo = read[p][i].repo /\ e.hooks = read[p][i].hooks
        /\ IF new = NoRevision THEN e = read[p][i] ELSE Revision(e.rev, e.frozen) = new
    BY <1>5, <2>1, <2>3 DEF HasPlan
  <2>6. Revision(e.rev, e.frozen) = new => e.rev = new.rev /\ e.frozen = new.frozen
    BY DEF Revision
  <2> HIDE DEF e, new
  <2> QED
    BY <1>1, <1>2, <1>3, <1>6, <2>4, <2>5, <2>6 DEF e, new
<1> QED
  BY <1>8, <1>9

(***************************************************************************)
(* A success means that the same update, of what was fetched, may find     *)
(* nothing to do (SuccessMeansCurrent).                                    *)
(***************************************************************************)
THEOREM SuccessIsCurrent == Spec => []SuccessMeansCurrent
<1>1. UpdateInv => SuccessMeansCurrent
  <2> SUFFICES ASSUME UpdateInv, exit = "success", ~request.dry \/ request.code,
                      NEW u \in Usages, Selected(u), u[1] \notin edited
               PROVE  LET e == config[u[1]][u[2]]
                          R == FetchedFor(u)
                          asked == TargetOf(request, u[1], e)
                      IN /\ fetched[e.repo].is = "evaluated" /\ results[target[u]] # Failed
                         /\ FrozenFor(R, e.rev, e.frozen) = e.frozen
                         /\ \E s \in Selections(R, asked, request.edge, fetched[e.repo].at) :
                              Evaluated(R, asked, s).rev = e.rev
    BY DEF SuccessMeansCurrent
  <2> DEFINE e == config[u[1]][u[2]]
             old == Entry(u)
             R == FetchedFor(u)
             a == target[u]
             b == TargetOf(request, u[1], e)
             x == results[a]
             new == Recorded(u)
             at == fetched[old.repo].at
  <2>1. Typed /\ Judged /\ Done /\ ~Failures
    BY WrittenIs
  <2>2. /\ e \in AnyEntry /\ e.repo = old.repo /\ e.hooks = old.hooks
        /\ IF new = NoRevision THEN e = old ELSE e.rev = new.rev /\ e.frozen = new.frozen
    BY WrittenIs
  <2>3. a \in Targets /\ a \in DOMAIN results
    BY <2>1 DEF Targets, Judged, Done
  <2>4. x # Failed
    BY <2>1, <2>3 DEF Failures
  <2>5. fetched[old.repo].is = "evaluated" /\ IsFetched(R) /\ at \in Nat
    BY <2>1, <2>4, AnswerIs
  <2>6. PICK s \in Selections(R, a, request.edge, at) : x = Evaluated(R, a, s)
    BY <2>1, <2>4, AnswerIs
  <2>7. /\ u[1] \in Projects /\ old \in AnyEntry /\ IsAsked(a) /\ a = TargetOf(request, u[1], old)
        /\ request \in Requests /\ a.rev = old.rev
    BY <2>1, TargetFacts DEF Typed
  <2>8. /\ b.rev = e.rev /\ b.hooks = e.hooks /\ b.cooldown = Cooldown(request, u[1])
        /\ b.freeze = Freeze(request, u[1]) /\ b.tags = FilterOf(request, u[1], e.repo)
    BY <2>2, <2>7, TargetIs
  <2>9. /\ a.hooks = old.hooks /\ a.cooldown = Cooldown(request, u[1])
        /\ a.freeze = Freeze(request, u[1]) /\ a.tags = FilterOf(request, u[1], old.repo)
    BY <2>1, TargetFacts
  <2>10. SameButRev(a, b)
    BY <2>2, <2>8, <2>9 DEF SameButRev
  <2>11. old.rev \in Tags \cup Commits /\ old.frozen \in Tags \cup {"none"}
    BY <2>7 DEF AnyEntry
  <2>12. request.edge \in BOOLEAN
    BY <2>7, UpdateAssumption DEF IsRequest
  <2> DEFINE frozen == FrozenFor(R, old.rev, old.frozen)
  <2>13. new = IF x.rev # old.rev THEN x
               ELSE IF frozen # old.frozen THEN Revision(old.rev, frozen) ELSE NoRevision
    BY <2>4 DEF Recorded, FetchedFor
  <2> HIDE DEF e, old, R, a, b, x, new, at, frozen
  <2>14. e.rev = x.rev /\ FrozenFor(R, e.rev, e.frozen) = e.frozen
    <3>1. CASE x.rev # old.rev
      <4>1. s # "none"
        BY <2>6, <2>7, <3>1 DEF Evaluated, Revision
      <4>2. /\ x.rev \in Commits \cup TagsOf(R) /\ Resolve(R, x.rev) = Resolve(R, s)
            /\ x.frozen = "none" \/ (x.frozen = s /\ x.rev \in Commits)
            /\ x = Revision(x.rev, x.frozen)
        BY <2>4, <2>5, <2>6, <2>7, <4>1, EvaluatedIs
      <4>3. x # NoRevision
        BY <2>5, <4>2, TagsAssumption DEF IsFetched, TagsOf, NoRevision, Revision
      <4>4. e.rev = x.rev /\ e.frozen = x.frozen
        BY <2>2, <2>13, <3>1, <4>3
      <4>5. x.rev \in Commits => Resolve(R, x.rev) = x.rev
        BY <2>5, ResolveIs
      <4>6. x.frozen = "none" \/ Resolve(R, x.frozen) = x.rev
        BY <4>2, <4>5
      <4>7. FrozenFor(R, x.rev, x.frozen) = x.frozen
        BY <4>6 DEF FrozenFor
      <4> QED
        BY <4>4, <4>7
    <3>2. CASE x.rev = old.rev
      <4>1. Revision(old.rev, frozen) # NoRevision
        BY <2>11, TagsAssumption DEF NoRevision, Revision
      <4>2. Revision(old.rev, frozen).rev = old.rev /\ Revision(old.rev, frozen).frozen = frozen
        BY DEF Revision
      <4>3. e.rev = old.rev /\ e.frozen = frozen
        BY <2>2, <2>13, <3>2, <4>1, <4>2
      <4>4. FrozenFor(R, old.rev, frozen) = frozen
        BY <2>5, <2>11, FrozenIs DEF frozen
      <4> QED
        BY <3>2, <4>3, <4>4
    <3> QED
      BY <3>1, <3>2
  <2>15. \E z \in Selections(R, b, request.edge, at) : Evaluated(R, b, z).rev = x.rev
    BY <2>4, <2>5, <2>6, <2>7, <2>8, <2>10, <2>12, <2>14, SameAgain
  <2> QED
    BY <2>2, <2>4, <2>5, <2>14, <2>15 DEF e, old, R, a, b, x, at
<1> QED
  BY <1>1, UpdateAlways, PTL

=============================================================================
