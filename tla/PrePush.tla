------------------------------- MODULE PrePush -------------------------------
(***************************************************************************)
(* What `git push` makes the pre-push hook check: hook_impl.rs             *)
(* (hook_run_options, pre_push_run_options), the revision queries of       *)
(* git.rs and the files of a range (changed_files).                        *)
(*                                                                         *)
(* A push is a record: `parents` gives the sequence of parents of each     *)
(* commit, numbered from 1 with parents before children; `tree` gives the  *)
(* contents of the files of each commit, 0 for no file; `index` the files  *)
(* of the index, which is of the branch checked out and not always of the  *)
(* one pushed; `tracking` holds the tips of the remote-tracking branches   *)
(* of the remote; `refs` are the updates git writes to the hook's stdin,   *)
(* with 0 for the zero object name and a number that is no commit for an   *)
(* object that is not here.                                                *)
(***************************************************************************)
EXTENDS Naturals, Sequences

Commits(h) == DOMAIN h.parents

IsPush(h) ==
  /\ h.parents \in Seq(Seq(Nat))
  /\ \A c \in Commits(h) : \A i \in DOMAIN h.parents[c] : h.parents[c][i] \in 1..(c - 1)
  /\ h.tracking \subseteq Commits(h)
  /\ h.refs \in Seq([local : Commits(h) \cup {0}, remote : Nat])

\* The commits reachable from each commit, itself included.
Ancestors(h) ==
  LET reach[c \in Commits(h)] ==
        {c} \cup UNION {reach[h.parents[c][i]] : i \in DOMAIN h.parents[c]}
  IN reach

\* git rev-list c --not --remotes=name
Unknown(h, c) == Ancestors(h)[c] \ UNION {Ancestors(h)[t] : t \in h.tracking}

ParentsOf(h, c) == {h.parents[c][i] : i \in DOMAIN h.parents[c]}

\* Faulty: rev-list without --reverse, the last unknown commit instead.
NewestUnknown(h, c) == {d \in Unknown(h, c) : \A e \in Unknown(h, c) : d \notin ParentsOf(h, e)}

(***************************************************************************)
(* ancestors_not_in_remote(...).first(): in reversed topological order no  *)
(* commit comes before its parents.  Where several may come first, git's   *)
(* choice depends on dates.                                                *)
(***************************************************************************)
FirstUnknown(h, c) == {d \in Unknown(h, c) : ParentsOf(h, d) \cap Unknown(h, c) = {}}

Roots(h, c) == {d \in Ancestors(h)[c] : h.parents[d] = <<>>}

Skip == [kind |-> "skip", from |-> 0, to |-> 0, ref |-> 0]
All(local, i) == [kind |-> "all", from |-> 0, to |-> local, ref |-> i]
Diff(remote, local, i) == [kind |-> "diff", from |-> remote, to |-> local, ref |-> i]

\* The remote's commit is here and the update is a fast-forward.
FastForward(h, ref) ==
  /\ ref.remote # 0
  /\ ref.remote \in Commits(h)
  /\ ref.remote \in Ancestors(h)[ref.local]

\* pre_push_run_options for the i-th update, each value it may return.
RefOptions(h, i) ==
  LET ref == h.refs[i]
  IN CASE ref.local = 0 -> {Skip}
       [] ref.local # 0 /\ FastForward(h, ref) -> {Diff(ref.remote, ref.local, i)}
       [] ref.local # 0 /\ ~FastForward(h, ref) ->
            IF Unknown(h, ref.local) = {} THEN {Skip}
            ELSE {IF d \in Roots(h, ref.local) THEN All(ref.local, i)
                  ELSE Diff(h.parents[d][1], ref.local, i) : d \in FirstUnknown(h, ref.local)}

\* hook_run_options: the first update that gives options, and no other.
Options(h) ==
  LET giving == {i \in DOMAIN h.refs : RefOptions(h, i) # {Skip}}
  IN IF giving = {} THEN {Skip}
     ELSE RefOptions(h, CHOOSE i \in giving : \A j \in giving : i <= j)

\* git diff from...to compares with a merge base of the two.
MergeBases(h, a, b) ==
  LET common == Ancestors(h)[a] \cap Ancestors(h)[b]
  IN {c \in common : \A d \in common : c \in Ancestors(h)[d] => c = d}

Files(h) == DOMAIN h.tree[1]
Present(h, c) == {f \in Files(h) : h.tree[c][f] # 0}

\* collect_files_for_selection: the files hooks are run on, without those the
\* push deletes.  all_files lists the index, whatever commit is pushed.
Selected(h, o) ==
  CASE o.kind = "skip" -> {}
    [] o.kind = "all" -> h.index
    [] o.kind = "diff" ->
         {f \in Present(h, o.to) : \E b \in MergeBases(h, o.from, o.to) :
            h.tree[o.to][f] # h.tree[b][f]}

-----------------------------------------------------------------------------
(***************************************************************************)
(* What the checks must not miss.                                          *)
(***************************************************************************)

\* Commits the remote is known to have when update i is pushed.
Held(h, i) ==
  UNION {Ancestors(h)[t] : t \in h.tracking \cup ({h.refs[i].remote} \cap Commits(h))}

\* Files of the pushed commit whose contents no commit of the remote has.
NewContents(h, i) ==
  {f \in Present(h, h.refs[i].local) :
     \A c \in Held(h, i) : h.tree[c][f] # h.tree[h.refs[i].local][f]}

\* The update deletes a branch or the remote has every commit of it.
NothingNew(h, i) ==
  \/ h.refs[i].local = 0
  \/ Ancestors(h)[h.refs[i].local] \subseteq UNION {Ancestors(h)[t] : t \in h.tracking}

\* The update brings a commit without parents that the remote lacks.
BringsRoot(h, i) == Roots(h, h.refs[i].local) \cap Unknown(h, h.refs[i].local) # {}

\* Every file that is new to the remote is checked, and nothing that is new is
\* passed over for an update that has nothing.  An update that brings a root may
\* miss what is not in the index: files of a branch that is not checked out.
Covered(h, o) ==
  IF o.kind = "skip" THEN \A i \in DOMAIN h.refs : NothingNew(h, i)
  ELSE /\ \A f \in NewContents(h, o.ref) :
            f \in Selected(h, o) \/ (BringsRoot(h, o.ref) /\ f \notin h.index)
       /\ \A i \in 1..(o.ref - 1) : NothingNew(h, i)

=============================================================================
