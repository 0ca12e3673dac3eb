------------------------------ MODULE MCGitShim ------------------------------
(***************************************************************************)
(* Two commands, a plain hook, another hook manager and a hook that is     *)
(* neither text nor executable; pushes of a linear, a rebased, a merged, a *)
(* deleted and a first branch, the last one checked out or not.            *)
(***************************************************************************)
EXTENDS GitShim, TLC

CONSTANTS p1, p2, plain, manager, odd

Tree(a, b) == [f \in {"a", "b"} |-> IF f = "a" THEN a ELSE b]
Update(local, remote) == [local |-> local, remote |-> remote]
MCPushes ==
  LET
    Line == [parents |-> <<<<>>, <<1>>, <<2>>, <<3>>>>,
             tree |-> <<Tree(1, 1), Tree(2, 1), Tree(2, 2), Tree(1, 2)>>,
             index |-> {"a", "b"}, tracking |-> {1}, refs |-> <<Update(4, 2)>>]
    Merged == [parents |-> <<<<>>, <<1>>, <<1>>, <<3>>, <<4, 2>>>>,
               tree |-> <<Tree(1, 1), Tree(1, 2), Tree(2, 1), Tree(3, 1), Tree(3, 2)>>,
               index |-> {"b"}, tracking |-> {2}, refs |-> <<Update(5, 0)>>]
    Joined == [parents |-> <<<<>>, <<>>, <<1, 2>>>>,
               tree |-> <<Tree(1, 0), Tree(0, 1), Tree(1, 1)>>,
               index |-> {"a", "b"}, tracking |-> {1}, refs |-> <<Update(3, 1)>>]
  IN { \* a fast-forward, then more branches
       Line,
       \* a deletion and a branch the remote has come before a new branch
       [Line EXCEPT !.refs = <<Update(0, 3), Update(1, 0), Update(4, 0), Update(3, 0)>>],
       \* nothing new, and a commit of the remote that is not here
       [Line EXCEPT !.tracking = {4}, !.refs = <<Update(3, 9)>>],
       [Line EXCEPT !.tracking = {2}, !.refs = <<Update(4, 9)>>],
       \* a first push, of the branch checked out and of another
       [Line EXCEPT !.tracking = {}, !.refs = <<Update(3, 0)>>],
       [Line EXCEPT !.tracking = {}, !.refs = <<Update(3, 0)>>, !.index = {"a"}],
       \* a merge with the remote's branch, pushed as new and over a rebased one
       Merged,
       [Merged EXCEPT !.refs = <<Update(4, 2)>>],
       \* unrelated histories
       Joined,
       [Joined EXCEPT !.refs = <<Update(3, 0)>>, !.index = {"b"}] }

\* What was there first; the rest comes about by what others do.
SomeInit == Init /\ ~external /\ legacy \in {NoFile, Original(plain)}
SomeSpec == SomeInit /\ [][Next]_vars

Symmetry == Permutations(Commands)
=============================================================================
