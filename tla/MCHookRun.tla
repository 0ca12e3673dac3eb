----------------------------- MODULE MCHookRun -----------------------------
(***************************************************************************)
(* Instances of HookRun.  The workspace has the root project at depth 0    *)
(* and two sibling projects at depth 1.                                    *)
(***************************************************************************)
EXTENDS HookRunInv

MCProjects == {"root", "app", "lib"}
MCDepth == [p \in MCProjects |-> IF p = "root" THEN 0 ELSE 1]
MCNested == [p \in MCProjects |-> IF p = "root" THEN MCProjects ELSE {p}]
MCContent == {0, 1}

\* app runs a built-in hook and a command in one group, then another command;
\* lib and root run one command each, that of root beside a skipped
\* hook and before a check that only reads.
MCHooks == {"fmt", "lint", "test", "libcmd", "rootcmd", "rootcheck", "skipped"}
MCProjectOf ==
  [h \in MCHooks |-> CASE h \in {"fmt", "lint", "test"} -> "app"
                       [] h = "libcmd" -> "lib"
                       [] OTHER -> "root"]
MCPriority == [h \in MCHooks |-> IF h \in {"test", "rootcheck"} THEN 1 ELSE 0]
MCKind ==
  [h \in MCHooks |-> CASE h = "fmt" -> "builtin"
                       [] h = "skipped" -> "skip"
                       [] h = "rootcheck" -> "readonly"
                       [] OTHER -> "external"]
MCConfined == [h \in MCHooks |-> MCNested[MCProjectOf[h]]]

(***************************************************************************)
(* Contents are only compared with each other, and with Indexed in runs    *)
(* that begin with a cleaned worktree.  So it is enough that one area,     *)
(* that of app, may begin with either content.                             *)
(***************************************************************************)
MCInit == Init /\ \A a \in {"root", "lib"} : worktree[a] = Indexed
MCSpec == MCInit /\ [][Next]_vars /\ Fairness

\* A chain root > web > ui for the run about edits outside the project.
ChainProjects == {"root", "web", "ui"}
ChainDepth == [p \in ChainProjects |-> CASE p = "root" -> 0 [] p = "web" -> 1 [] p = "ui" -> 2]
ChainNested == [p \in ChainProjects |-> {q \in ChainProjects : ChainDepth[q] >= ChainDepth[p]}]
ChainHooks == {"uicmd", "webcheck", "webcmd", "skipped", "rootcmd"}
ChainProjectOf ==
  [h \in ChainHooks |-> CASE h = "uicmd" -> "ui"
                          [] h = "rootcmd" -> "root"
                          [] OTHER -> "web"]
ChainPriority == [h \in ChainHooks |-> IF h = "skipped" THEN 3 ELSE 2]
ChainKind ==
  [h \in ChainHooks |-> CASE h \in {"uicmd", "webcmd", "rootcmd"} -> "external"
                          [] h = "webcheck" -> "readonly"
                          [] h = "skipped" -> "skip"]
ChainConfined == [h \in ChainHooks |-> ChainNested[ChainProjectOf[h]]]

\* The command of project ui also edits a file of the root project.
ChainErrant == [ChainConfined EXCEPT !["uicmd"] = {"ui", "root"}]
=============================================================================
