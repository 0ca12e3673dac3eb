--------------------------- MODULE WorkspaceProofs ---------------------------
(***************************************************************************)
(* Proofs about Workspace for every tree of directories, every             *)
(* configuration and any number of commands and changes.                   *)
(***************************************************************************)
EXTENDS Workspace, FiniteSetTheorems, WellFoundedInduction, TLAPS

-----------------------------------------------------------------------------
(***************************************************************************)
(* What an undisturbed walk of a root relies on, and what a cache that     *)
(* nothing has outgrown still says: a directory is free if no ignore file  *)
(* and no broken project outside the list is on the way to it; the free    *)
(* directories with a configuration are listed, and the listed ones are    *)
(* free.                                                                   *)
(***************************************************************************)
Free(top, list, d) ==
  /\ top \in Above[d] /\ Below(top, d) \cap ignored = {}
  /\ \A e \in Above[d] \ {d} : top \in Above[e] /\ Broken(e) => e \in list

Covers(c, top) ==
  c.is = "filled" /\ ~c.outgrown =>
    /\ \A d \in Dirs : Free(top, c.list, d) /\ Present(d) => d \in c.list
    /\ \A d \in c.list : d \in Dirs /\ Free(top, c.list, d)

\* What `prek init` made is listed, unless the cache will not be used.
KnowsMade(c, top) ==
  c.is = "filled" /\ top \in c.list =>
    /\ Present(top) \/ top \in c.changed
    /\ c.changed = {} => made \cap Projects(top) \subseteq c.list

Sound(c, top) == Covers(c, top) /\ KnowsMade(c, top)

\* The caches, and the copies that commands are about to read or to write.
Held == {"restore", "truncate", "write"}
CacheInv ==
  /\ \A d \in Dirs : Sound(cache[d], d)
  /\ \A p \in Commands : pc[p] \in Held => Sound(pending[p], root[p])

\* What an undisturbed command knows.
WalkOf(top) == [d \in Projects(top) |-> file[d].says]
AsWalked(p) == ~Fails(root[p], request[p]) /\ found[p] = WalkOf(root[p])
Seen(p) == root[p] \in DOMAIN found[p] => made \cap Projects(root[p]) \subseteq DOMAIN found[p]

StepOf(p) ==
  /\ pc[p] \in {"root", "load", "restore", "walk"} => found[p] = NoProjects
  /\ pc[p] \in {"root", "load", "walk"} => pending[p] = NoCache
  /\ pc[p] = "restore" => pending[p].is = "filled"
  /\ calm[p] =>
       /\ pc[p] \notin {"idle", "root", "error"} => root[p] \in Nearest(cwd[p])
       /\ pc[p] = "restore" => pending[p].changed = {}
       /\ pc[p] \in {"truncate", "write"} => AsWalked(p)
       /\ pc[p] \in {"select", "done"} => (pending[p].outgrown \/ AsWalked(p)) /\ Seen(p)
       /\ pc[p] = "error" /\ Nearest(cwd[p]) # {} /\ ~pending[p].outgrown =>
            \/ Fails(root[p], request[p])
            \/ found[p] = WalkOf(root[p]) /\ \A d \in Projects(root[p]) : ~MatchesPath(request[p], d)
StepInv == \A p \in Commands : StepOf(p)

WorkspaceInv == TypeOK /\ CacheInv /\ StepInv

-----------------------------------------------------------------------------
(***************************************************************************)
(* Types.                                                                  *)
(***************************************************************************)
LEMMA CacheTypes ==
  /\ NoCache \in Caches /\ Torn \in Caches
  /\ \A list \in SUBSET Dirs, outgrown \in BOOLEAN : Filled(list, outgrown) \in Caches
  /\ \A c \in Caches, d \in Dirs, top \in Dirs, grows \in BOOLEAN :
       Touched(c, d) \in Caches /\ Outgrown(c, top, d, grows) \in Caches
  /\ NoProjects \in Workspaces
<1>1. \A c \in Caches, d \in Dirs : Touched(c, d) \in Caches
  BY DEF Touched, Caches
<1>2. \A c \in Caches, d \in Dirs, top \in Dirs, grows \in BOOLEAN : Outgrown(c, top, d, grows) \in Caches
  BY DEF Outgrown, Caches
<1>3. NoProjects \in [{} -> Configs]
  BY DEF NoProjects
<1>4. NoProjects \in Workspaces
  BY <1>3 DEF Workspaces
<1> QED
  BY <1>1, <1>2, <1>4 DEF NoCache, Torn, Filled, Caches

LEMMA ProjectsAre ==
  ASSUME TypeOK, NEW top \in Dirs
  PROVE  /\ Projects(top) \subseteq Dirs /\ Reached(top) \subseteq Dirs
         /\ \A d \in Dirs : Good(d) => file[d].says \in Configs
         /\ WalkOf(top) \in Workspaces
<1>1. Projects(top) \subseteq Dirs /\ Reached(top) \subseteq Dirs
  BY DEF Projects, Reached
<1>2. \A d \in Dirs : Good(d) => file[d].says \in Configs
  BY DEF TypeOK, FileStates, FilesOf, Good
<1>3. \A d \in Projects(top) : file[d].says \in Configs
  BY <1>1, <1>2 DEF Projects
<1>4. WalkOf(top) \in [Projects(top) -> Configs]
  BY <1>3 DEF WalkOf
<1> QED
  BY <1>1, <1>2, <1>4 DEF Workspaces

LEMMA TypesStart == Init => TypeOK
<1> SUFFICES ASSUME Init PROVE TypeOK
  OBVIOUS
<1>1. cache \in [Dirs -> Caches] /\ pending \in [Commands -> Caches] /\ found \in [Commands -> Workspaces]
  BY CacheTypes DEF Init
<1> QED
  BY <1>1 DEF Init, TypeOK, Places

LEMMA ChangesTyped ==
  ASSUME TypeOK, Changing
  PROVE  /\ edits' \in 0..MaxEdits /\ calm' \in [Commands -> BOOLEAN]
         /\ pc' \in [Commands -> Places] /\ cwd' \in [Commands -> Dirs]
         /\ request' \in [Commands -> Requests] /\ refresh' \in [Commands -> BOOLEAN]
         /\ root' \in [Commands -> Dirs] /\ found' \in [Commands -> Workspaces]
         /\ starts' \in 0..MaxStarts
<1>1. edits \in 0..MaxEdits /\ edits < MaxEdits /\ edits' = edits + 1 /\ MaxEdits \in Nat
  BY WorkspaceAssumption DEF TypeOK, Changing
<1>2. edits' \in 0..MaxEdits
  BY <1>1
<1>3. calm' \in [Commands -> BOOLEAN]
  BY DEF Changing
<1> QED
  BY <1>2, <1>3 DEF TypeOK, Changing, asked

LEMMA TypesKept == TypeOK /\ [Next]_vars => TypeOK'
<1> SUFFICES ASSUME TypeOK, [Next]_vars PROVE TypeOK'
  OBVIOUS
<1>1. ASSUME NEW p \in Commands, Command(p) PROVE TypeOK'
  <2>1. CASE Start(p)
    <3>1. starts \in 0..MaxStarts /\ starts < MaxStarts /\ starts' = starts + 1 /\ MaxStarts \in Nat
      BY <2>1, WorkspaceAssumption DEF TypeOK, Start
    <3>2. starts' \in 0..MaxStarts
      BY <3>1
    <3>3. pc' \in [Commands -> Places]
      BY <2>1 DEF Start, TypeOK, Go, Places
    <3>4. found' \in [Commands -> Workspaces] /\ pending' \in [Commands -> Caches]
      BY <2>1, CacheTypes DEF Start, TypeOK
    <3>5. cwd' \in [Commands -> Dirs] /\ request' \in [Commands -> Requests]
      BY <2>1 DEF Start, TypeOK
    <3>6. refresh' \in [Commands -> BOOLEAN] /\ calm' \in [Commands -> BOOLEAN]
      BY <2>1 DEF Start, TypeOK
    <3> QED
      BY <2>1, <3>2, <3>3, <3>4, <3>5, <3>6 DEF Start, TypeOK, disk
  <2>2. CASE FindRoot(p)
    <3>1. Nearest(cwd[p]) \subseteq Dirs
      BY TreeAssumption DEF Nearest, TypeOK
    <3>2. root' \in [Commands -> Dirs]
      BY <2>2, <3>1 DEF FindRoot, TypeOK
    <3>3. pc' \in [Commands -> Places]
      BY <2>2 DEF FindRoot, TypeOK, Go, Places
    <3> QED
      BY <2>2, <3>2, <3>3 DEF FindRoot, TypeOK, disk, asked
  <2>3. CASE Load(p)
    <3>1. cache' \in [Dirs -> Caches] /\ pending' \in [Commands -> Caches]
      BY <2>3, CacheTypes DEF Load, TypeOK
    <3>2. pc' \in [Commands -> Places]
      BY <2>3 DEF Load, TypeOK, Go, Places
    <3> QED
      BY <2>3, <3>1, <3>2 DEF Load, TypeOK, disk, asked
  <2>4. CASE Restore(p)
    <3>1. pending[p].list \subseteq Dirs
      BY DEF TypeOK, Caches
    <3>2. (\A d \in pending[p].list : Good(d)) => [d \in pending[p].list |-> file[d].says] \in [pending[p].list -> Configs]
      BY <3>1 DEF TypeOK, FileStates, FilesOf, Good
    <3>3. (\A d \in pending[p].list : Good(d)) => [d \in pending[p].list |-> file[d].says] \in Workspaces
      BY <3>1, <3>2 DEF Workspaces
    <3>4. found' \in [Commands -> Workspaces] /\ pending' \in [Commands -> Caches]
      BY <2>4, <3>3, CacheTypes DEF Restore, TypeOK
    <3>5. pc' \in [Commands -> Places]
      BY <2>4 DEF Restore, TypeOK, Go, Places
    <3> QED
      BY <2>4, <3>4, <3>5 DEF Restore, TypeOK, disk, asked
  <2>5. CASE Walk(p)
    <3>1. root[p] \in Dirs
      BY DEF TypeOK
    <3>2. WalkOf(root[p]) \in Workspaces /\ Projects(root[p]) \in SUBSET Dirs
      BY <3>1, ProjectsAre
    <3>3. found' \in [Commands -> Workspaces] /\ pending' \in [Commands -> Caches]
      BY <2>5, <3>2, CacheTypes DEF Walk, TypeOK, WalkOf
    <3>4. pc' \in [Commands -> Places]
      <4>1. Go(p, "error") \/ Go(p, "truncate")
        BY <2>5 DEF Walk
      <4> QED
        BY <4>1 DEF TypeOK, Go, Places
    <3> QED
      BY <2>5, <3>3, <3>4 DEF Walk, TypeOK, disk, asked
  <2>6. CASE Truncate(p)
    <3>1. cache' \in [Dirs -> Caches] /\ pending' \in [Commands -> Caches]
      <4>1. NoCache \in Caches /\ Torn \in Caches
        BY CacheTypes
      <4> QED
        BY <2>6, <4>1 DEF Truncate, TypeOK
    <3>2. pc' \in [Commands -> Places]
      BY <2>6 DEF Truncate, TypeOK, Go, Places
    <3> QED
      BY <2>6, <3>1, <3>2 DEF Truncate, TypeOK, disk, asked
  <2>7. CASE Write(p)
    BY <2>7, CacheTypes DEF Write, TypeOK, Go, Places, disk, asked
  <2>8. CASE Select(p)
    BY <2>8 DEF Select, TypeOK, Go, Places, disk, asked
  <2>9. CASE Kill(p)
    BY <2>9, CacheTypes DEF Kill, TypeOK, Go, Places, disk, asked
  <2> QED
    BY <1>1, <2>1, <2>2, <2>3, <2>4, <2>5, <2>6, <2>7, <2>8, <2>9 DEF Command
<1>2. CASE UserEdits
  <2>1. PICK d \in Dirs, s \in FilesOf(Rewrites), told \in BOOLEAN :
          LET grows == ~Good(d)
              Change(c, top) == Outgrown(IF told THEN Touched(c, d) ELSE c, top, d, grows)
          IN /\ file' = [file EXCEPT ![d] = s]
             /\ cache' = [e \in Dirs |-> Change(cache[e], e)]
             /\ pending' = [p \in Commands |-> Change(pending[p], root[p])]
             /\ made' = IF grows THEN {} ELSE made \ {d}
    BY <1>2 DEF UserEdits
  <2>2. cache' \in [Dirs -> Caches] /\ pending' \in [Commands -> Caches]
    BY <2>1, CacheTypes DEF TypeOK, Good
  <2>3. s \in FileStates
    BY WorkspaceAssumption DEF FileStates, FilesOf
  <2>4. file' \in [Dirs -> FileStates] /\ made' \subseteq Dirs
    BY <2>1, <2>3 DEF TypeOK
  <2> QED
    BY <1>2, <2>2, <2>4, ChangesTyped DEF UserEdits, TypeOK
<1>3. CASE UserIgnores
  <2>1. cache' \in [Dirs -> Caches] /\ pending' \in [Commands -> Caches]
    BY <1>3, CacheTypes DEF UserIgnores, TypeOK
  <2> QED
    BY <1>3, <2>1, ChangesTyped DEF UserIgnores, TypeOK
<1>4. CASE TimePasses
  <2>1. cache' \in [Dirs -> Caches]
    <3>1. \A c \in Caches, b \in BOOLEAN : [c EXCEPT !.old = b] \in Caches
      BY DEF Caches
    <3>2. \A c \in Caches : c.old \in BOOLEAN
      BY DEF Caches
    <3>3. \A d \in Dirs : (cache[d].old \/ cache[d].is = "filled") \in BOOLEAN
      OBVIOUS
    <3>4. cache' = [d \in Dirs |-> [cache[d] EXCEPT !.old = cache[d].old \/ cache[d].is = "filled"]]
      BY <1>4 DEF TimePasses
    <3>5. \A d \in Dirs : [cache[d] EXCEPT !.old = cache[d].old \/ cache[d].is = "filled"] \in Caches
      BY <3>1, <3>3 DEF TypeOK
    <3> QED
      BY <3>4, <3>5
  <2> QED
    BY <1>4, <2>1, ChangesTyped DEF TimePasses, TypeOK
<1>5. CASE InitProject
  <2>1. PICK d \in Dirs, c \in Rewrites :
          LET Added(k, top) == IF Good(d) THEN k ELSE Outgrown(Touched(k, d), top, d, TRUE)
          IN /\ file' = IF Good(d) THEN file ELSE [file EXCEPT ![d] = [is |-> "good", says |-> c]]
             /\ cache' = [e \in Dirs |-> IF e \in RootsAbove(d) THEN NoCache ELSE Added(cache[e], e)]
             /\ pending' = [p \in Commands |-> Added(pending[p], root[p])]
             /\ made' = IF Active = {} THEN made \cup {d} ELSE made \ {d}
    BY <1>5 DEF InitProject
  <2>2. \A k \in Caches, top \in Dirs : Outgrown(Touched(k, d), top, d, TRUE) \in Caches
    BY CacheTypes
  <2>3. cache' \in [Dirs -> Caches] /\ pending' \in [Commands -> Caches]
    BY <2>1, <2>2, CacheTypes DEF TypeOK
  <2>4. [is |-> "good", says |-> c] \in FileStates
    BY WorkspaceAssumption DEF FileStates, FilesOf
  <2>5. file' \in [Dirs -> FileStates] /\ made' \subseteq Dirs
    BY <2>1, <2>4 DEF TypeOK
  <2> QED
    <3>1. Changing /\ UNCHANGED ignored
      BY <1>5 DEF InitProject
    <3> QED
      BY <2>3, <2>5, <3>1, ChangesTyped DEF TypeOK
<1>6. CASE UNCHANGED vars
  BY <1>6 DEF vars, TypeOK
<1> QED
  BY <1>1, <1>2, <1>3, <1>4, <1>5, <1>6 DEF Next
-----------------------------------------------------------------------------
(***************************************************************************)
(* The caches stay sound.                                                  *)
(***************************************************************************)
LEMMA SoundSame ==
  ASSUME UNCHANGED <<file, ignored, made>>, NEW c, NEW top
  PROVE  Sound(c, top)' <=> Sound(c, top)
  BY DEF Sound, Covers, KnowsMade, Free, Good, Broken, Present, Projects, Reached

LEMMA UnusedIsSound ==
  ASSUME NEW c, c.is # "filled", NEW top
  PROVE  Sound(c, top)
  BY DEF Sound, Covers, KnowsMade

LEMMA WalkIsSound ==
  ASSUME TypeOK, NEW top \in Dirs
  PROVE  Sound(Filled(Projects(top), \E d \in Reached(top) : Broken(d)), top)
<1> DEFINE c == Filled(Projects(top), \E d \in Reached(top) : Broken(d))
<1>1. c.list = Projects(top) /\ c.changed = {} /\ c.is = "filled" /\ (c.outgrown <=> \E d \in Reached(top) : Broken(d))
  BY DEF Filled, NoCache
<1> HIDE DEF c
<1>2. \A d \in Dirs : Good(d) => Present(d) /\ ~Broken(d)
  BY DEF Good, Present, Broken
<1>3. \A d \in Dirs : Present(d) => Good(d) \/ Broken(d)
  BY DEF TypeOK, FileStates, FilesOf, Good, Present, Broken
<1>4. \A d \in Projects(top) : d \in Dirs /\ Good(d) /\ d \in Reached(top)
  BY DEF Projects, Reached
<1>5. ASSUME ~c.outgrown, NEW d \in Dirs, Free(top, c.list, d), Present(d) PROVE d \in c.list
  <2>1. \A e \in Above[d] \ {d} : top \in Above[e] => ~Broken(e)
    BY <1>1, <1>2, <1>4, <1>5 DEF Free
  <2>2. d \in Reached(top)
    BY <1>5, <2>1 DEF Free, Reached
  <2> QED
    BY <1>1, <1>3, <1>5, <2>2 DEF Projects
<1>6. ASSUME NEW d \in c.list PROVE d \in Dirs /\ Free(top, c.list, d)
  BY <1>1, <1>4, <1>6 DEF Free, Reached
<1>7. Covers(c, top)
  BY <1>5, <1>6 DEF Covers
<1>8. KnowsMade(c, top)
  BY <1>1, <1>2, <1>4 DEF KnowsMade
<1> QED
  BY <1>7, <1>8 DEF Sound, c

LEMMA EditKeeps ==
  ASSUME TypeOK, NEW top \in Dirs, NEW x \in Dirs, NEW s \in FileStates, NEW c \in Caches, NEW k \in Caches,
         file' = [file EXCEPT ![x] = s], ignored' = ignored,
         k.is = c.is, k.list = c.list, c.outgrown => k.outgrown,
         ~Good(x) /\ c.is = "filled" /\ top \in Above[x] => k.outgrown,
         Covers(c, top)
  PROVE  Covers(k, top)'
<1> SUFFICES ASSUME k.is = "filled", ~k.outgrown
             PROVE  /\ \A d \in Dirs : Free(top, c.list, d)' /\ Present(d)' => d \in c.list
                    /\ \A d \in c.list : d \in Dirs /\ Free(top, c.list, d)'
  BY DEF Covers
<1>1. /\ \A d \in Dirs : Free(top, c.list, d) /\ Present(d) => d \in c.list
      /\ \A d \in c.list : d \in Dirs /\ Free(top, c.list, d)
      /\ Good(x) \/ top \notin Above[x]
  BY DEF Covers
<1>2. \A e \in Dirs : e # x => (Broken(e)' <=> Broken(e)) /\ (Present(e)' <=> Present(e))
  BY DEF Broken, Present, TypeOK
<1>3. \A d \in Dirs : Above[d] \subseteq Dirs /\ d \in Above[d] /\ \A e \in Above[d] : Above[e] \subseteq Above[d]
  BY TreeAssumption
<1>4. CASE top \notin Above[x]
  <2>1. \A d \in Dirs : Free(top, c.list, d)' <=> Free(top, c.list, d)
    BY <1>2, <1>3, <1>4 DEF Free
  <2>2. \A d \in Dirs : Free(top, c.list, d) => d # x
    BY <1>4 DEF Free
  <2> QED
    BY <1>1, <1>2, <2>1, <2>2
<1>5. CASE Good(x)
  <2>1. Present(x) /\ ~Broken(x)
    BY <1>5 DEF Good, Present, Broken
  <2>2. ASSUME NEW d \in Dirs, Free(top, c.list, d)', Present(d)' PROVE d \in c.list
    <3>1. Free(top, c.list, d)
      BY <1>2, <1>3, <2>1, <2>2 DEF Free
    <3> QED
      BY <1>1, <1>2, <2>1, <2>2, <3>1
  <2>3. ASSUME NEW d \in c.list PROVE d \in Dirs /\ Free(top, c.list, d)'
    <3>1. d \in Dirs /\ Free(top, c.list, d)
      BY <1>1
    <3>2. ASSUME x \in Above[d], top \in Above[x] PROVE x \in c.list
      <4>1. Below(top, x) \cap ignored = {}
        BY <1>3, <3>1, <3>2 DEF Free, Below
      <4>2. Free(top, c.list, x)
        BY <1>3, <3>1, <3>2, <4>1 DEF Free
      <4> QED
        BY <1>1, <2>1, <4>2
    <3>3. \A e \in Above[d] \ {d} : top \in Above[e] /\ Broken(e)' => e \in c.list
      BY <1>2, <1>3, <3>1, <3>2 DEF Free
    <3> QED
      BY <3>1, <3>3 DEF Free
  <2> QED
    BY <2>2, <2>3
<1> QED
  BY <1>1, <1>4, <1>5

LEMMA FewerProjects ==
  ASSUME TypeOK, NEW top \in Dirs, NEW x \in Dirs, NEW s \in FileStates, ~Broken(x),
         file' = [file EXCEPT ![x] = s], ignored' = ignored
  PROVE  Projects(top)' \ {x} \subseteq Projects(top)
<1>1. \A e \in Dirs : Broken(e) => Broken(e)'
  BY DEF Broken, TypeOK
<1>2. \A e \in Dirs : e # x /\ Good(e)' => Good(e)
  BY DEF Good, TypeOK
<1>3. \A d \in Dirs : Above[d] \subseteq Dirs
  BY TreeAssumption
<1> QED
  BY <1>1, <1>2, <1>3 DEF Projects, Reached

LEMMA TouchedFields ==
  ASSUME NEW c \in Caches, NEW d
  PROVE  /\ Touched(c, d).is = c.is /\ Touched(c, d).list = c.list /\ Touched(c, d).outgrown = c.outgrown
         /\ Touched(c, d).changed = IF d \in c.list THEN c.changed \cup {d} ELSE c.changed
  BY DEF Touched, Caches

LEMMA UserEditKeeps ==
  ASSUME TypeOK, NEW top \in Dirs, NEW x \in Dirs, NEW s \in FileStates, NEW told \in BOOLEAN,
         NEW c \in Caches, NEW k, k = Outgrown(IF told THEN Touched(c, x) ELSE c, top, x, ~Good(x)),
         file' = [file EXCEPT ![x] = s], ignored' = ignored,
         told \/ (Present(x) /\ s.is # "none"),
         made' = IF ~Good(x) THEN {} ELSE made \ {x},
         Sound(c, top)
  PROVE  Sound(k, top)'
<1> DEFINE t == IF told THEN Touched(c, x) ELSE c
<1>1. t \in Caches /\ Good(x) \in BOOLEAN
  BY CacheTypes DEF Good
<1>2. t.is = c.is /\ t.list = c.list /\ t.outgrown = c.outgrown
      /\ t.changed = IF told /\ x \in c.list THEN c.changed \cup {x} ELSE c.changed
  BY TouchedFields
<1> HIDE DEF t
<1>3. k \in Caches
  BY <1>1, CacheTypes DEF t
<1>4. k.is = c.is /\ k.list = c.list /\ k.changed = t.changed /\ (c.outgrown => k.outgrown)
      /\ (~Good(x) /\ c.is = "filled" /\ top \in Above[x] => k.outgrown)
  <2>1. k = Outgrown(t, top, x, ~Good(x))
    BY DEF t
  <2> QED
    BY <1>1, <1>2, <2>1 DEF Outgrown, Caches
<1>5. Covers(k, top)'
  BY <1>3, <1>4, EditKeeps DEF Sound
<1>6. KnowsMade(k, top)'
  <2> SUFFICES ASSUME k.is = "filled", top \in k.list
               PROVE  /\ Present(top)' \/ top \in k.changed
                      /\ k.changed = {} => made' \cap Projects(top)' \subseteq k.list
    BY DEF KnowsMade
  <2>1. (Present(top) \/ top \in c.changed) /\ (c.changed = {} => made \cap Projects(top) \subseteq c.list)
    BY <1>4 DEF Sound, KnowsMade
  <2>2. Present(top)' \/ top \in k.changed
    BY <1>2, <1>4, <2>1 DEF Present, TypeOK
  <2>3. ASSUME k.changed = {} PROVE made' \cap Projects(top)' \subseteq k.list
    <3>1. c.changed = {}
      BY <1>2, <1>4, <2>3
    <3>2. CASE Good(x)
      <4>1. Projects(top)' \ {x} \subseteq Projects(top)
        BY <3>2, FewerProjects DEF Good, Broken
      <4> QED
        BY <1>4, <2>1, <3>1, <3>2, <4>1
    <3>3. CASE ~Good(x)
      BY <3>3
    <3> QED
      BY <3>2, <3>3
  <2> QED
    BY <2>2, <2>3
<1> QED
  BY <1>5, <1>6 DEF Sound

LEMMA InitKeeps ==
  ASSUME TypeOK, NEW top \in Dirs, NEW x \in Dirs, NEW s \in FileStates, ~Broken(x), ~Good(x),
         NEW c \in Caches, NEW k, k = Outgrown(Touched(c, x), top, x, TRUE),
         s.is = "good", file' = [file EXCEPT ![x] = s], ignored' = ignored,
         made' \subseteq made \ {x} \/ (made' = made \cup {x} /\ top \notin RootsAbove(x)),
         Sound(c, top)
  PROVE  Sound(k, top)'
<1>1. Touched(c, x) \in Caches /\ k \in Caches
  BY CacheTypes
<1>2. k.is = c.is /\ k.list = c.list /\ (c.outgrown => k.outgrown)
      /\ (~Good(x) /\ c.is = "filled" /\ top \in Above[x] => k.outgrown)
      /\ k.changed = IF x \in c.list THEN c.changed \cup {x} ELSE c.changed
  <2> DEFINE t == Touched(c, x)
  <2>1. t.is = c.is /\ t.list = c.list /\ t.outgrown = c.outgrown
        /\ t.changed = IF x \in c.list THEN c.changed \cup {x} ELSE c.changed
    BY TouchedFields
  <2>2. k = Outgrown(t, top, x, TRUE) /\ t \in Caches
    BY <1>1
  <2> HIDE DEF t
  <2> QED
    BY <2>1, <2>2 DEF Outgrown, Caches
<1>3. Covers(k, top)'
  BY <1>1, <1>2, EditKeeps DEF Sound
<1>4. KnowsMade(k, top)'
  <2> SUFFICES ASSUME k.is = "filled", top \in k.list
               PROVE  /\ Present(top)' \/ top \in k.changed
                      /\ k.changed = {} => made' \cap Projects(top)' \subseteq k.list
    BY DEF KnowsMade
  <2>1. (Present(top) \/ top \in c.changed) /\ (c.changed = {} => made \cap Projects(top) \subseteq c.list)
    BY <1>2 DEF Sound, KnowsMade
  <2>2. Present(top)' \/ top \in k.changed
    BY <1>2, <2>1 DEF Present, TypeOK
  <2>3. ASSUME k.changed = {} PROVE made' \cap Projects(top)' \subseteq k.list
    <3>1. c.changed = {} /\ Present(top)
      BY <1>2, <2>1, <2>3
    <3>2. Projects(top)' \ {x} \subseteq Projects(top)
      BY FewerProjects
    <3>3. ASSUME x \in made', x \in Projects(top)', made' = made \cup {x}, top \notin RootsAbove(x) PROVE x \in k.list
      BY <3>1, <3>3 DEF RootsAbove, Projects, Reached
    <3> QED
      BY <1>2, <2>1, <3>1, <3>2, <3>3
  <2> QED
    BY <2>2, <2>3
<1> QED
  BY <1>3, <1>4 DEF Sound

LEMMA CacheKept == TypeOK /\ CacheInv /\ [Next]_vars => CacheInv'
<1> SUFFICES ASSUME TypeOK, CacheInv, [Next]_vars PROVE CacheInv'
  OBVIOUS
<1> USE DEF Held
<1>0. NoCache.is # "filled" /\ Torn.is # "filled"
  BY DEF NoCache, Torn
<1>1. ASSUME NEW p \in Commands, Command(p) PROVE CacheInv'
  <2>0. root[p] \in Dirs /\ cache[root[p]] \in Caches /\ pending[p] \in Caches
    BY DEF TypeOK
  <2>1. CASE Start(p)
    <3>1. UNCHANGED <<file, ignored, made, cache, root>> /\ pc' = [pc EXCEPT ![p] = "root"]
          /\ pending' = [pending EXCEPT ![p] = NoCache]
      BY <2>1 DEF Start, Go, disk
    <3> QED
      BY <3>1, SoundSame DEF CacheInv, TypeOK
  <2>2. CASE FindRoot(p)
    <3>1. UNCHANGED <<file, ignored, made, cache, pending>>
      BY <2>2 DEF FindRoot, disk
    <3>2. \A q \in Commands \ {p} : root'[q] = root[q]
      BY <2>2 DEF FindRoot, TypeOK
    <3>3. pc'[p] \notin Held /\ \A q \in Commands \ {p} : pc'[q] = pc[q]
      BY <2>2 DEF FindRoot, Go, TypeOK
    <3> QED
      BY <3>1, <3>2, <3>3, SoundSame DEF CacheInv, TypeOK
  <2>3. CASE Load(p)
    <3>1. UNCHANGED <<file, ignored, made, root>>
      BY <2>3 DEF Load, disk
    <3>2. CASE pending' = [pending EXCEPT ![p] = cache[root[p]]] /\ cache' = cache /\ pc' = [pc EXCEPT ![p] = "restore"]
      BY <2>0, <3>1, <3>2, SoundSame DEF CacheInv, TypeOK
    <3>3. CASE pending' = pending /\ cache' = [cache EXCEPT ![root[p]] = NoCache] /\ pc' = [pc EXCEPT ![p] = "walk"]
      <4>1. \A d \in Dirs : Sound(NoCache, d)
        BY <1>0, UnusedIsSound
      <4> QED
        BY <3>1, <3>3, <4>1, SoundSame DEF CacheInv, TypeOK
    <3> QED
      BY <2>3, <3>2, <3>3 DEF Load, Go
  <2>4. CASE Restore(p)
    <3>1. UNCHANGED <<file, ignored, made, root, cache>> /\ \A q \in Commands \ {p} : pending'[q] = pending[q]
      BY <2>4 DEF Restore, disk, TypeOK
    <3>2. \E place \in {"select", "walk"} : pc' = [pc EXCEPT ![p] = place]
      BY <2>4 DEF Restore, Go
    <3> QED
      BY <3>1, <3>2, SoundSame DEF CacheInv, TypeOK
  <2>5. CASE Walk(p)
    <3>1. UNCHANGED <<file, ignored, made, root, cache>>
      BY <2>5 DEF Walk, disk
    <3>2. CASE pc' = [pc EXCEPT ![p] = "error"] /\ pending' = pending
      BY <3>1, <3>2, SoundSame DEF CacheInv, TypeOK
    <3>3. CASE /\ pc' = [pc EXCEPT ![p] = "truncate"]
               /\ pending' = [pending EXCEPT ![p] = Filled(Projects(root[p]), \E d \in Reached(root[p]) : Broken(d))]
      <4>1. Sound(Filled(Projects(root[p]), \E d \in Reached(root[p]) : Broken(d)), root[p])
        BY <2>0, WalkIsSound
      <4>2. pending'[p] = Filled(Projects(root[p]), \E d \in Reached(root[p]) : Broken(d))
        BY <3>3 DEF TypeOK
      <4>3. Sound(pending'[p], root[p])
        BY <4>1, <4>2
      <4>4. \A q \in Commands \ {p} : pending'[q] = pending[q] /\ pc'[q] = pc[q]
        BY <3>3 DEF TypeOK
      <4> QED
        BY <3>1, <4>3, <4>4, SoundSame DEF CacheInv, TypeOK
    <3> QED
      BY <2>5, <3>2, <3>3 DEF Walk, Go
  <2>6. CASE Truncate(p)
    <3>1. UNCHANGED <<file, ignored, made, root>>
      BY <2>6 DEF Truncate, disk
    <3>2. CASE cache' = [cache EXCEPT ![root[p]] = Torn] /\ pending' = pending /\ pc' = [pc EXCEPT ![p] = "write"]
      <4>1. \A d \in Dirs : Sound(Torn, d)
        BY <1>0, UnusedIsSound
      <4>2. pc[p] = "truncate"
        BY <2>6 DEF Truncate
      <4> QED
        BY <3>1, <3>2, <4>1, <4>2, SoundSame DEF CacheInv, TypeOK
    <3>3. CASE cache' = cache /\ pending' = [pending EXCEPT ![p] = NoCache] /\ pc' = [pc EXCEPT ![p] = "select"]
      BY <3>1, <3>3, SoundSame DEF CacheInv, TypeOK
    <3> QED
      BY <2>6, <3>2, <3>3 DEF Truncate, Go
  <2>7. CASE Write(p)
    <3>1. UNCHANGED <<file, ignored, made, root>> /\ pc[p] = "write" /\ cache' = [cache EXCEPT ![root[p]] = pending[p]]
          /\ pending' = [pending EXCEPT ![p] = NoCache] /\ pc' = [pc EXCEPT ![p] = "select"]
      BY <2>7 DEF Write, disk, Go
    <3> QED
      BY <3>1, SoundSame DEF CacheInv, TypeOK
  <2>8. CASE Select(p)
    <3>1. UNCHANGED <<file, ignored, made, root, cache, pending>>
      BY <2>8 DEF Select, disk
    <3>2. \E place \in {"done", "error"} : pc' = [pc EXCEPT ![p] = place]
      BY <2>8 DEF Select, Go
    <3> QED
      BY <3>1, <3>2, SoundSame DEF CacheInv, TypeOK
  <2>9. CASE Kill(p)
    <3>1. UNCHANGED <<file, ignored, made, root, cache>> /\ pc' = [pc EXCEPT ![p] = "error"]
          /\ pending' = [pending EXCEPT ![p] = NoCache]
      BY <2>9 DEF Kill, disk, Go
    <3> QED
      BY <3>1, SoundSame DEF CacheInv, TypeOK
  <2> QED
    BY <1>1, <2>1, <2>2, <2>3, <2>4, <2>5, <2>6, <2>7, <2>8, <2>9 DEF Command
<1>2. CASE UserEdits
  <2>1. PICK d \in Dirs, s \in FilesOf(Rewrites), told \in BOOLEAN :
          LET grows == ~Good(d)
              Change(c, top) == Outgrown(IF told THEN Touched(c, d) ELSE c, top, d, grows)
          IN /\ file' = [file EXCEPT ![d] = s]
             /\ told \/ (Present(d) /\ s.is # "none")
             /\ cache' = [e \in Dirs |-> Change(cache[e], e)]
             /\ pending' = [p \in Commands |-> Change(pending[p], root[p])]
             /\ made' = IF grows THEN {} ELSE made \ {d}
    BY <1>2 DEF UserEdits
  <2>2. s \in FileStates
    BY WorkspaceAssumption DEF FileStates, FilesOf
  <2>3. ignored' = ignored /\ pc' = pc /\ root' = root
    BY <1>2 DEF UserEdits, Changing
  <2>4. ASSUME NEW top \in Dirs, NEW c \in Caches, Sound(c, top), NEW k,
               k = Outgrown(IF told THEN Touched(c, d) ELSE c, top, d, ~Good(d))
        PROVE  Sound(k, top)'
    BY <2>1, <2>2, <2>3, <2>4, UserEditKeeps
  <2>5. \A e \in Dirs : Sound(cache[e], e)'
    BY <2>1, <2>4 DEF CacheInv, TypeOK
  <2>6. \A p \in Commands : pc[p] \in Held => Sound(pending[p], root[p])'
    BY <2>1, <2>3, <2>4 DEF CacheInv, TypeOK
  <2> QED
    BY <2>3, <2>5, <2>6 DEF CacheInv
<1>3. CASE UserIgnores
  <2>1. /\ cache' = [e \in Dirs |-> Outgrown(cache[e], e, e, TRUE)]
        /\ pending' = [p \in Commands |-> Outgrown(pending[p], root[p], root[p], TRUE)]
        /\ made' = {} /\ file' = file /\ pc' = pc /\ root' = root
    BY <1>3 DEF UserIgnores, Changing
  <2>2. ASSUME NEW top \in Dirs, NEW c \in Caches, Sound(c, top), NEW k, k = Outgrown(c, top, top, TRUE)
        PROVE  Sound(k, top)'
    <3>1. k.is = c.is /\ k.list = c.list /\ k.changed = c.changed /\ (k.is = "filled" => k.outgrown)
      BY <2>2, TreeAssumption DEF Outgrown, Caches
    <3> QED
      BY <2>1, <2>2, <3>1 DEF Sound, Covers, KnowsMade, Present
  <2>3. \A e \in Dirs : Sound(cache[e], e)'
    BY <2>1, <2>2 DEF CacheInv, TypeOK
  <2>4. \A p \in Commands : pc[p] \in Held => Sound(pending[p], root[p])'
    BY <2>1, <2>2 DEF CacheInv, TypeOK
  <2> QED
    BY <2>1, <2>3, <2>4 DEF CacheInv
<1>4. CASE TimePasses
  <2>1. /\ cache' = [d \in Dirs |-> [cache[d] EXCEPT !.old = @ \/ cache[d].is = "filled"]]
        /\ UNCHANGED <<file, ignored, made, pending, pc, root>>
    BY <1>4 DEF TimePasses, Changing
  <2>2. ASSUME NEW d \in Dirs
        PROVE  /\ cache'[d].is = cache[d].is /\ cache'[d].list = cache[d].list
               /\ cache'[d].changed = cache[d].changed /\ cache'[d].outgrown = cache[d].outgrown
    BY <2>1 DEF TypeOK, Caches
  <2>3. ASSUME NEW d \in Dirs PROVE Sound(cache'[d], d)
    BY <2>2 DEF CacheInv, Sound, Covers, KnowsMade
  <2> QED
    BY <2>1, <2>3, SoundSame DEF CacheInv
<1>5. CASE InitProject
  <2>1. PICK d \in Dirs, c \in Rewrites :
          LET Added(k, top) == IF Good(d) THEN k ELSE Outgrown(Touched(k, d), top, d, TRUE)
          IN /\ ~Broken(d)
             /\ file' = IF Good(d) THEN file ELSE [file EXCEPT ![d] = [is |-> "good", says |-> c]]
             /\ cache' = [e \in Dirs |-> IF e \in RootsAbove(d) THEN NoCache ELSE Added(cache[e], e)]
             /\ pending' = [p \in Commands |-> Added(pending[p], root[p])]
             /\ made' = IF Active = {} THEN made \cup {d} ELSE made \ {d}
    BY <1>5 DEF InitProject
  <2>2. ignored' = ignored /\ pc' = pc /\ root' = root
    BY <1>5 DEF InitProject, Changing
  <2>3. \A p \in Commands : pc[p] \in Held => made' = made \ {d}
    BY <2>1 DEF Active, Ended
  <2>4. CASE Good(d)
    <3>1. file' = file /\ pending' = pending
          /\ cache' = [e \in Dirs |-> IF e \in RootsAbove(d) THEN NoCache ELSE cache[e]]
      BY <2>1, <2>4 DEF TypeOK
    <3>2. ASSUME NEW top \in Dirs, NEW c2 \in Caches, Sound(c2, top), made' \subseteq made \/ top \notin RootsAbove(d)
          PROVE  Sound(c2, top)'
      <4>1. Covers(c2, top)'
        BY <2>2, <3>1, <3>2 DEF Sound, Covers, Free, Broken, Present
      <4>2. Projects(top)' = Projects(top) /\ (Present(top)' <=> Present(top))
        BY <2>2, <3>1 DEF Projects, Reached, Good, Broken, Present
      <4>3. made' \subseteq made \cup {d}
        BY <2>1
      <4>4. d \in Projects(top) /\ Present(top) /\ top \notin RootsAbove(d) => d = top
        BY TreeAssumption DEF RootsAbove, Projects, Reached
      <4>5. KnowsMade(c2, top)'
        BY <3>2, <4>2, <4>3, <4>4 DEF Sound, KnowsMade
      <4> QED
        BY <4>1, <4>5 DEF Sound
    <3>3. \A e \in Dirs : Sound(NoCache, e)'
      BY <1>0 DEF Sound, Covers, KnowsMade
    <3>4. \A e \in Dirs : Sound(cache[e], e)'
      BY <3>1, <3>2, <3>3 DEF CacheInv, TypeOK
    <3>5. \A p \in Commands : pc[p] \in Held => Sound(pending[p], root[p])'
      BY <2>2, <2>3, <3>1, <3>2 DEF CacheInv, TypeOK
    <3> QED
      BY <2>2, <3>4, <3>5 DEF CacheInv
  <2>5. CASE ~Good(d)
    <3>1. [is |-> "good", says |-> c] \in FileStates
      BY WorkspaceAssumption DEF FileStates, FilesOf
    <3>2. ASSUME NEW top \in Dirs, NEW c2 \in Caches, Sound(c2, top), NEW k, k = Outgrown(Touched(c2, d), top, d, TRUE),
                 made' = made \ {d} \/ top \notin RootsAbove(d)
          PROVE  Sound(k, top)'
      <4>1. made' \subseteq made \ {d} \/ (made' = made \cup {d} /\ top \notin RootsAbove(d))
        BY <2>1, <3>2
      <4>2. file' = [file EXCEPT ![d] = [is |-> "good", says |-> c]]
        BY <2>1, <2>5
      <4> QED
        BY <2>1, <2>2, <2>5, <3>1, <3>2, <4>1, <4>2, InitKeeps
    <3>3. \A e \in Dirs : Sound(NoCache, e)'
      BY <1>0 DEF Sound, Covers, KnowsMade
    <3>4. \A e \in Dirs : Sound(cache[e], e)'
      BY <2>1, <2>5, <3>2, <3>3 DEF CacheInv, TypeOK
    <3>5. \A p \in Commands : pc[p] \in Held => Sound(pending[p], root[p])'
      BY <2>1, <2>2, <2>3, <2>5, <3>2 DEF CacheInv, TypeOK
    <3> QED
      BY <2>2, <3>4, <3>5 DEF CacheInv
  <2> QED
    BY <2>4, <2>5
<1>6. CASE UNCHANGED vars
  BY <1>6, SoundSame DEF vars, CacheInv
<1> QED
  BY <1>1, <1>2, <1>3, <1>4, <1>5, <1>6 DEF Next

-----------------------------------------------------------------------------
(***************************************************************************)
(* What a command has found.                                               *)
(***************************************************************************)
LEMMA DiskSame ==
  ASSUME UNCHANGED <<file, ignored>>, NEW top, NEW r
  PROVE  /\ Projects(top)' = Projects(top) /\ WalkOf(top)' = WalkOf(top) /\ Nearest(top)' = Nearest(top)
         /\ Fails(top, r)' <=> Fails(top, r)
<1>1. \A d : (Good(d)' <=> Good(d)) /\ (Broken(d)' <=> Broken(d)) /\ (Present(d)' <=> Present(d))
  BY DEF Good, Broken, Present
<1>2. Reached(top)' = Reached(top)
  BY <1>1 DEF Reached
<1>3. Projects(top)' = Projects(top)
  BY <1>1, <1>2 DEF Projects
<1>4. Fails(top, r)' <=> Fails(top, r)
  BY <1>1, <1>2 DEF Fails
<1>5. Nearest(top)' = Nearest(top)
  BY <1>1 DEF Nearest
<1> QED
  BY <1>3, <1>4, <1>5 DEF WalkOf

LEMMA StepSame ==
  ASSUME UNCHANGED <<file, ignored, made>>, NEW q \in Commands, StepOf(q),
         pc'[q] = pc[q], cwd'[q] = cwd[q], request'[q] = request[q], root'[q] = root[q],
         found'[q] = found[q], pending'[q] = pending[q], calm'[q] = calm[q]
  PROVE  StepOf(q)'
<1>1. AsWalked(q)' <=> AsWalked(q)
  BY DiskSame DEF AsWalked
<1>2. Seen(q)' <=> Seen(q)
  BY DiskSame DEF Seen
<1> QED
  BY <1>1, <1>2, DiskSame DEF StepOf

LEMMA CoveredWalk ==
  ASSUME TypeOK, NEW top \in Dirs, NEW c \in Caches, Covers(c, top), c.is = "filled", ~c.outgrown,
         \A d \in c.list : Good(d)
  PROVE  c.list = Projects(top) /\ \A d \in Reached(top) : ~Broken(d)
<1>1. \A d \in Dirs : Good(d) => Present(d) /\ ~Broken(d)
  BY DEF Good, Present, Broken
<1>2. \A d \in Dirs : Broken(d) => Present(d)
  BY DEF Broken, Present
<1>3. \A d \in Dirs : Free(top, c.list, d) /\ Present(d) => d \in c.list
  BY DEF Covers
<1>4. \A d \in c.list : d \in Dirs /\ Free(top, c.list, d)
  BY DEF Covers
<1>5. \A d \in Dirs : Above[d] \subseteq Dirs
  BY TreeAssumption
<1>6. \A d \in Reached(top) : d \in Dirs /\ Free(top, c.list, d)
  BY DEF Reached, Free
<1>7. \A d \in Reached(top) : ~Broken(d)
  BY <1>1, <1>2, <1>3, <1>6
<1>8. \A d \in c.list : d \in Reached(top)
  BY <1>1, <1>4, <1>5 DEF Free, Reached
<1>9. \A d \in Projects(top) : d \in c.list
  BY <1>1, <1>3, <1>6 DEF Projects
<1> QED
  BY <1>7, <1>8, <1>9 DEF Projects

LEMMA StepKept == TypeOK /\ CacheInv /\ StepInv /\ [Next]_vars => StepInv'
<1> SUFFICES ASSUME TypeOK, CacheInv, StepInv, [Next]_vars PROVE StepInv'
  OBVIOUS
<1> USE DEF Held
<1>1. ASSUME NEW p \in Commands, Command(p) PROVE StepInv'
  <2>0. root[p] \in Dirs /\ cache[root[p]] \in Caches /\ pending[p] \in Caches /\ StepOf(p)
    BY DEF TypeOK, StepInv
  <2>1. UNCHANGED <<file, ignored, made>>
    BY <1>1 DEF Command, Start, FindRoot, Load, Restore, Walk, Truncate, Write, Select, Kill, disk
  <2>2. ASSUME NEW q \in Commands \ {p} PROVE StepOf(q)'
    <3>1. pc'[q] = pc[q]
      BY <1>1 DEF Command, Start, FindRoot, Load, Restore, Walk, Truncate, Write, Select, Kill, Go, TypeOK
    <3>2. cwd'[q] = cwd[q] /\ request'[q] = request[q]
      BY <1>1 DEF Command, Start, FindRoot, Load, Restore, Walk, Truncate, Write, Select, Kill, asked, TypeOK
    <3>3. root'[q] = root[q] /\ calm'[q] = calm[q]
      BY <1>1 DEF Command, Start, FindRoot, Load, Restore, Walk, Truncate, Write, Select, Kill, TypeOK
    <3>4. found'[q] = found[q] /\ pending'[q] = pending[q]
      BY <1>1 DEF Command, Start, FindRoot, Load, Restore, Walk, Truncate, Write, Select, Kill, TypeOK
    <3> QED
      BY <2>1, <3>1, <3>2, <3>3, <3>4, StepSame DEF StepInv
  <2>3. StepOf(p)'
    <3>1. CASE Start(p)
      <4>1. pc'[p] = "root" /\ found'[p] = NoProjects /\ pending'[p] = NoCache
        BY <3>1 DEF Start, Go, TypeOK
      <4> QED
        BY <4>1 DEF StepOf
    <3>2. CASE FindRoot(p)
      <4>1. UNCHANGED <<cwd, request, found, pending, calm>> /\ pc[p] = "root"
        BY <3>2 DEF FindRoot, asked
      <4>2. CASE Nearest(cwd[p]) = {}
        <5>1. pc'[p] = "error" /\ Nearest(cwd[p])' = {}
          BY <2>1, <3>2, <4>1, <4>2, DiskSame DEF FindRoot, Go, TypeOK
        <5> QED
          BY <5>1 DEF StepOf
      <4>3. CASE Nearest(cwd[p]) # {}
        <5>1. root'[p] \in Nearest(cwd[p]) /\ pc'[p] \in {"walk", "load"}
          BY <3>2, <4>3 DEF FindRoot, Go, TypeOK
        <5>2. root'[p] \in Nearest(cwd[p])'
          BY <2>1, <4>1, <5>1, DiskSame
        <5> QED
          BY <2>0, <4>1, <5>1, <5>2 DEF StepOf
      <4> QED
        BY <4>2, <4>3
    <3>3. CASE Load(p)
      <4>1. UNCHANGED <<cwd, request, root, found, calm>> /\ pc[p] = "load"
        BY <3>3 DEF Load, asked
      <4>2. Nearest(cwd[p])' = Nearest(cwd[p])
        BY <2>1, <4>1, DiskSame
      <4>3. \/ /\ pc'[p] = "restore" /\ pending'[p].is = "filled" /\ pending'[p].changed = {}
            \/ pc'[p] = "walk" /\ pending' = pending
        BY <3>3 DEF Load, Go, TypeOK, Valid
      <4> QED
        BY <2>0, <4>1, <4>2, <4>3 DEF StepOf
    <3>4. CASE Restore(p)
      <4>1. UNCHANGED <<cwd, request, root, calm>> /\ pc[p] = "restore"
        BY <3>4 DEF Restore, asked
      <4>2. Nearest(cwd[p])' = Nearest(cwd[p])
        BY <2>1, <4>1, DiskSame
      <4>3. CASE ~\A d \in pending[p].list : Good(d)
        <5>1. pc'[p] = "walk" /\ pending'[p] = NoCache /\ found' = found
          BY <3>4, <4>3 DEF Restore, Go, TypeOK
        <5> QED
          BY <2>0, <4>1, <4>2, <5>1 DEF StepOf
      <4>4. CASE \A d \in pending[p].list : Good(d)
        <5>1. pc'[p] = "select" /\ pending' = pending /\ found'[p] = [d \in pending[p].list |-> file[d].says]
          BY <3>4, <4>4 DEF Restore, Go, TypeOK
        <5>2. pending[p].is = "filled" /\ Covers(pending[p], root[p]) /\ KnowsMade(pending[p], root[p])
          BY <2>0, <4>1 DEF StepOf, CacheInv, Sound
        <5>3. ASSUME ~pending[p].outgrown PROVE AsWalked(p)'
          <6>1. pending[p].list = Projects(root[p]) /\ \A d \in Reached(root[p]) : ~Broken(d)
            BY <2>0, <4>4, <5>2, <5>3, CoveredWalk
          <6>2. ~Fails(root[p], request[p]) /\ found'[p] = WalkOf(root[p])
            BY <5>1, <6>1 DEF Fails, WalkOf
          <6> QED
            BY <2>1, <4>1, <6>2, DiskSame DEF AsWalked
        <5>4. ASSUME calm[p] PROVE Seen(p)'
          <6>1. pending[p].changed = {} /\ DOMAIN found'[p] = pending[p].list
            BY <2>0, <4>1, <5>1, <5>4 DEF StepOf
          <6>2. root[p] \in DOMAIN found'[p] => made \cap Projects(root[p]) \subseteq DOMAIN found'[p]
            BY <5>2, <6>1 DEF KnowsMade
          <6> QED
            BY <2>1, <4>1, <6>2, DiskSame DEF Seen
        <5> QED
          BY <2>0, <4>1, <4>2, <5>1, <5>3, <5>4 DEF StepOf
      <4> QED
        BY <4>3, <4>4
    <3>5. CASE Walk(p)
      <4>1. UNCHANGED <<cwd, request, root, calm>> /\ pc[p] = "walk"
        BY <3>5 DEF Walk, asked
      <4>2. Nearest(cwd[p])' = Nearest(cwd[p]) /\ Projects(root[p])' = Projects(root[p]) /\ WalkOf(root[p])' = WalkOf(root[p])
            /\ (Fails(root[p], request[p])' <=> Fails(root[p], request[p]))
        BY <2>1, <4>1, DiskSame
      <4>3. CASE Fails(root[p], request[p]) \/ Projects(root[p]) = {}
        <5>1. pc'[p] = "error" /\ UNCHANGED <<found, pending>>
          BY <3>5, <4>3 DEF Walk, Go, TypeOK
        <5>2. Projects(root[p]) = {} => found[p] = WalkOf(root[p])
          BY <2>0, <4>1 DEF StepOf, WalkOf, NoProjects
        <5> QED
          BY <2>0, <4>1, <4>2, <4>3, <5>1, <5>2 DEF StepOf
      <4>4. CASE ~(Fails(root[p], request[p]) \/ Projects(root[p]) = {})
        <5>1. pc'[p] = "truncate" /\ found'[p] = WalkOf(root[p])
          BY <3>5, <4>4 DEF Walk, Go, TypeOK, WalkOf
        <5>2. AsWalked(p)'
          BY <4>1, <4>2, <4>4, <5>1 DEF AsWalked
        <5> QED
          BY <2>0, <4>1, <4>2, <5>1, <5>2 DEF StepOf
      <4> QED
        BY <4>3, <4>4
    <3>6. CASE Truncate(p) \/ Write(p) \/ Select(p)
      <4>1. UNCHANGED <<cwd, request, root, calm, found>>
        BY <3>6 DEF Truncate, Write, Select, asked
      <4>2. Nearest(cwd[p])' = Nearest(cwd[p]) /\ Projects(root[p])' = Projects(root[p]) /\ WalkOf(root[p])' = WalkOf(root[p])
            /\ (Fails(root[p], request[p])' <=> Fails(root[p], request[p]))
            /\ (AsWalked(p)' <=> AsWalked(p)) /\ (Seen(p)' <=> Seen(p))
        BY <2>1, <4>1, DiskSame DEF AsWalked, Seen
      <4>3. AsWalked(p) => Seen(p) /\ DOMAIN found[p] = Projects(root[p])
        BY DEF AsWalked, Seen, WalkOf
      <4>4. CASE Truncate(p)
        <5>1. pc[p] = "truncate" /\ pc'[p] \in {"write", "select"}
          BY <4>4 DEF Truncate, Go, TypeOK
        <5> QED
          BY <2>0, <4>1, <4>2, <4>3, <5>1 DEF StepOf
      <4>5. CASE Write(p)
        <5>1. pc[p] = "write" /\ pc'[p] = "select"
          BY <4>5 DEF Write, Go, TypeOK
        <5> QED
          BY <2>0, <4>1, <4>2, <4>3, <5>1 DEF StepOf
      <4>6. CASE Select(p)
        <5>1. pc[p] = "select" /\ pending' = pending
              /\ (pc'[p] = "done" \/ (pc'[p] = "error" /\ \A d \in DOMAIN found[p] : ~MatchesPath(request[p], d)))
          BY <4>6 DEF Select, Go, TypeOK
        <5>2. AsWalked(p) /\ pc'[p] = "error" =>
                found[p] = WalkOf(root[p]) /\ \A d \in Projects(root[p]) : ~MatchesPath(request[p], d)
          BY <4>3, <5>1 DEF AsWalked
        <5> QED
          BY <2>0, <4>1, <4>2, <5>1, <5>2 DEF StepOf
      <4> QED
        BY <3>6, <4>4, <4>5, <4>6
    <3>7. CASE Kill(p)
      <4>1. pc'[p] = "error" /\ ~calm'[p]
        BY <3>7 DEF Kill, Go, TypeOK
      <4> QED
        BY <4>1 DEF StepOf
    <3> QED
      BY <1>1, <3>1, <3>2, <3>3, <3>4, <3>5, <3>6, <3>7 DEF Command
  <2> QED
    BY <2>2, <2>3 DEF StepInv
<1>2. ASSUME Changing, NEW q \in Commands,
             pending'[q].is = pending[q].is, pending[q] = NoCache => pending'[q] = NoCache
      PROVE  StepOf(q)'
  <2>1. pc'[q] = pc[q] /\ found'[q] = found[q] /\ ~calm'[q] /\ StepOf(q)
    BY <1>2 DEF Changing, StepInv
  <2> QED
    BY <1>2, <2>1 DEF StepOf
<1>3. ASSUME NEW c \in Caches, NEW top, NEW d, NEW grows
      PROVE  /\ Outgrown(c, top, d, grows).is = c.is /\ (c = NoCache => Outgrown(c, top, d, grows) = NoCache)
             /\ Touched(c, d).is = c.is /\ (c = NoCache => Touched(c, d) = NoCache) /\ Touched(c, d) \in Caches
  BY CacheTypes DEF Outgrown, Touched, Caches, NoCache
<1>4. CASE UserEdits
  <2>1. PICK d \in Dirs, told \in BOOLEAN :
          pending' = [p \in Commands |-> Outgrown(IF told THEN Touched(pending[p], d) ELSE pending[p], root[p], d, ~Good(d))]
    BY <1>4 DEF UserEdits
  <2>2. ASSUME NEW q \in Commands
        PROVE  pending'[q].is = pending[q].is /\ (pending[q] = NoCache => pending'[q] = NoCache)
    <3>1. pending'[q] = Outgrown(IF told THEN Touched(pending[q], d) ELSE pending[q], root[q], d, ~Good(d))
      BY <2>1
    <3>2. pending[q] \in Caches
      BY DEF TypeOK
    <3> QED
      BY <1>3, <3>1, <3>2
  <2> QED
    BY <1>2, <1>4, <2>2 DEF UserEdits, StepInv
<1>5. CASE UserIgnores
  <2>1. ASSUME NEW q \in Commands
        PROVE  pending'[q].is = pending[q].is /\ (pending[q] = NoCache => pending'[q] = NoCache)
    <3>1. pending'[q] = Outgrown(pending[q], root[q], root[q], TRUE) /\ pending[q] \in Caches
      BY <1>5 DEF UserIgnores, TypeOK
    <3> QED
      BY <3>1 DEF Outgrown, Caches, NoCache
  <2> QED
    BY <1>2, <1>5, <2>1 DEF UserIgnores, StepInv
<1>6. CASE TimePasses
  BY <1>2, <1>6 DEF TimePasses, StepInv
<1>7. CASE InitProject
  <2>1. PICK d \in Dirs :
          pending' = [p \in Commands |-> IF Good(d) THEN pending[p] ELSE Outgrown(Touched(pending[p], d), root[p], d, TRUE)]
    BY <1>7 DEF InitProject
  <2>2. ASSUME NEW q \in Commands
        PROVE  pending'[q].is = pending[q].is /\ (pending[q] = NoCache => pending'[q] = NoCache)
    <3>1. pending'[q] = (IF Good(d) THEN pending[q] ELSE Outgrown(Touched(pending[q], d), root[q], d, TRUE))
      BY <2>1
    <3>2. pending[q] \in Caches
      BY DEF TypeOK
    <3>3. Touched(pending[q], d) \in Caches
      BY <1>3, <3>2
    <3>4. ASSUME NEW c \in Caches, NEW top
          PROVE  Outgrown(c, top, d, TRUE).is = c.is /\ (c.is = "none" => Outgrown(c, top, d, TRUE) = c)
      BY DEF Outgrown, Caches
    <3>5. NoCache.is = "none"
      BY DEF NoCache
    <3>6. CASE ~Good(d)
      <4>1. Touched(pending[q], d).is = pending[q].is /\ (pending[q] = NoCache => Touched(pending[q], d) = NoCache)
        BY <1>3, <3>2
      <4> HIDE DEF NoCache
      <4>2. pending'[q] = Outgrown(Touched(pending[q], d), root[q], d, TRUE)
        BY <3>1, <3>6
      <4>3. pending'[q].is = Touched(pending[q], d).is
        BY <3>3, <3>4, <4>2
      <4>4. Touched(pending[q], d) = NoCache => pending'[q] = NoCache
        BY <3>3, <3>4, <3>5, <4>2
      <4> QED
        BY <4>1, <4>3, <4>4
    <3> QED
      BY <3>1, <3>6
  <2> QED
    BY <1>2, <1>7, <2>2 DEF InitProject, StepInv
<1>8. CASE UNCHANGED vars
  BY <1>8, StepSame DEF vars, StepInv
<1> QED
  BY <1>1, <1>4, <1>5, <1>6, <1>7, <1>8 DEF Next

LEMMA WorkspaceAlways == Spec => []WorkspaceInv
<1>1. Init => WorkspaceInv
  <2> SUFFICES ASSUME Init PROVE WorkspaceInv
    OBVIOUS
  <2>1. NoCache.is # "filled"
    BY DEF NoCache
  <2>2. CacheInv
    BY <2>1, UnusedIsSound DEF Init, CacheInv, Held
  <2>3. StepInv
    BY DEF Init, StepInv, StepOf
  <2> QED
    BY <2>2, <2>3, TypesStart DEF WorkspaceInv
<1>2. WorkspaceInv /\ [Next]_vars => WorkspaceInv'
  BY TypesKept, CacheKept, StepKept DEF WorkspaceInv
<1> QED
  BY <1>1, <1>2, PTL DEF Spec

(***************************************************************************)
(* Every variable has its type, whatever is edited, ignored or killed.     *)
(***************************************************************************)
THEOREM WorkspaceTyping == Spec => []TypeOK
<1>1. WorkspaceInv => TypeOK
  BY DEF WorkspaceInv
<1> QED
  BY <1>1, WorkspaceAlways, PTL

(***************************************************************************)
(* The cache never shows (WorkspaceCache, discover): a command that nobody *)
(* disturbed finds what a walk finds and fails where a walk fails,         *)
(* whichever command wrote the cache and whatever was changed since, and   *)
(* it finds what `prek init` has added.                                    *)
(***************************************************************************)
THEOREM CacheNeverShows == Spec => []CacheIsTransparent
<1>1. WorkspaceInv => CacheIsTransparent
  <2> SUFFICES ASSUME WorkspaceInv, NEW p \in Commands, calm[p], pc[p] \in {"done", "error"}
               PROVE  /\ Nearest(cwd[p]) # {} /\ ~pending[p].outgrown =>
                           IF Fails(root[p], request[p]) THEN pc[p] = "error"
                           ELSE /\ found[p] = WalkOf(root[p])
                                /\ pc[p] = "error" => \A d \in Projects(root[p]) : ~MatchesPath(request[p], d)
                      /\ pc[p] = "done" => Seen(p)
    BY DEF CacheIsTransparent, AsAWalk, InitIsSeen, Seen, WalkOf
  <2>1. StepOf(p)
    BY DEF WorkspaceInv, StepInv
  <2> QED
    BY <2>1 DEF StepOf, AsWalked
<1> QED
  BY <1>1, WorkspaceAlways, PTL

-----------------------------------------------------------------------------
(***************************************************************************)
(* Which hooks run.                                                        *)
(***************************************************************************)
HasSelectors(r) == \A s \in r.includes \cup r.skips : s.kind \in {"hook", "prefix", "both"}

\* What is known before a repository is cloned stays known.
LEMMA NamesGrow ==
  ASSUME NEW s, s.kind \in {"hook", "prefix", "both"}, NEW d, NEW h, Matches(s, d, ConfiguredNames(h))
  PROVE  Matches(s, d, Names(h))
<1>1. ConfiguredNames(h) \subseteq Names(h)
  BY DEF ConfiguredNames, Names
<1> QED
  BY <1>1 DEF Matches

LEMMA HooksAre ==
  ASSUME NEW w, NEW b \in AllHooks(w)
  PROVE  b.dir \in DOMAIN w /\ \E repo \in w[b.dir].repos : b.hook \in repo.hooks /\ b = [dir |-> b.dir, hook |-> b.hook]
<1>1. PICK d \in DOMAIN w : b \in {[dir |-> d, hook |-> h] : h \in UNION {repo.hooks : repo \in w[d].repos}}
  BY DEF AllHooks
<1>2. PICK h \in UNION {repo.hooks : repo \in w[d].repos} : b = [dir |-> d, hook |-> h]
  BY <1>1
<1> QED
  BY <1>2

LEMMA BuiltAre ==
  ASSUME NEW w, NEW r, NEW d \in DOMAIN w, MatchesPath(r, d), NEW repo \in Planned(w, r, d), NEW h \in repo.hooks
  PROVE  [dir |-> d, hook |-> h] \in Built(w, r)
<1>1. h \in UNION {x.hooks : x \in Planned(w, r, d)}
  OBVIOUS
<1> QED
  BY <1>1 DEF Built

LEMMA BuiltExist ==
  ASSUME NEW w, NEW r
  PROVE  Built(w, r) \subseteq AllHooks(w)
<1> SUFFICES ASSUME NEW b \in Built(w, r) PROVE b \in AllHooks(w)
  OBVIOUS
<1>1. PICK d \in DOMAIN w : b \in {[dir |-> d, hook |-> h] : h \in UNION {repo.hooks : repo \in Planned(w, r, d)}}
  BY DEF Built
<1>2. PICK h \in UNION {repo.hooks : repo \in Planned(w, r, d)} : b = [dir |-> d, hook |-> h]
  BY <1>1
<1>3. h \in UNION {repo.hooks : repo \in w[d].repos}
  BY <1>2 DEF Planned
<1> QED
  BY <1>2, <1>3 DEF AllHooks

LEMMA SelectedPath ==
  ASSUME NEW r, HasSelectors(r), NEW d, NEW names, Included(r, d, names), ~SkippedPath(r, d)
  PROVE  MatchesPath(r, d)
<1>1. ASSUME NEW s \in r.includes, Matches(s, d, names)
      PROVE  s.kind = "hook" \/ (s.kind = "prefix" /\ s.path \in Above[d]) \/ (s.kind = "both" /\ s.path = d)
  BY <1>1 DEF HasSelectors, Matches
<1> QED
  BY <1>1 DEF Included, MatchesPath

LEMMA SkippedPathSkips ==
  ASSUME NEW r, NEW d, SkippedPath(r, d), NEW names
  PROVE  Skipped(r, d, names)
BY DEF SkippedPath, Skipped, Matches

LEMMA RunIsWanted ==
  ASSUME NEW w, NEW r, HasSelectors(r)
  PROVE  Run(w, r) = Wanted(w, r)
<1>1. Run(w, r) \subseteq Wanted(w, r)
  BY BuiltExist DEF Run, Wanted
<1>2. ASSUME NEW b \in Wanted(w, r) PROVE b \in Built(w, r)
  <2> DEFINE d == b.dir
             h == b.hook
  <2>1. b \in AllHooks(w) /\ Included(r, d, Names(h)) /\ ~Skipped(r, d, Names(h)) /\ MatchesGroups(r, h)
    BY DEF Wanted
  <2>2. PICK repo \in w[d].repos : h \in repo.hooks
    BY <2>1, HooksAre
  <2>3. MatchesPath(r, d)
    BY <2>1, SelectedPath, SkippedPathSkips
  <2>4. ~Skipped(r, d, ConfiguredNames(h))
    BY <2>1, NamesGrow DEF Skipped, HasSelectors
  <2>5. repo \in Planned(w, r, d)
    BY <2>1, <2>2, <2>4 DEF Planned, KeepsConfigured
  <2> HIDE DEF d, h
  <2>6. d \in DOMAIN w /\ b = [dir |-> d, hook |-> h]
    BY <2>1, HooksAre DEF d, h
  <2> QED
    BY <2>2, <2>3, <2>5, <2>6, BuiltAre
<1> QED
  BY <1>1, <1>2 DEF Run, Wanted

LEMMA UnusedIsLeftOut ==
  ASSUME NEW w, NEW r, HasSelectors(r), NEW s, HasSelectors(s),
         s.includes = r.includes \cap Used(w, r), s.skips = r.skips \cap Used(w, r),
         s.any = r.any, s.all = r.all, s.none = r.none, (r.includes = {}) <=> (s.includes = {})
  PROVE  Run(w, s) = Run(w, r)
<1>1. Run(w, s) = Wanted(w, s) /\ Run(w, r) = Wanted(w, r)
  BY RunIsWanted
<1>2. \A h : MatchesGroups(s, h) <=> MatchesGroups(r, h)
  BY DEF MatchesGroups
<1>3. ASSUME NEW b \in Run(w, r) PROVE b \in Wanted(w, s)
  <2>1. b \in Built(w, r) /\ b \in AllHooks(w) /\ Included(r, b.dir, Names(b.hook))
        /\ ~Skipped(r, b.dir, Names(b.hook)) /\ MatchesGroups(r, b.hook)
    BY <1>1, <1>3 DEF Run, Wanted
  <2>2. ~Skipped(s, b.dir, Names(b.hook))
    BY <2>1 DEF Skipped
  <2>3. \A t \in r.includes : Matches(t, b.dir, Names(b.hook)) => t \in s.includes
    BY <2>1 DEF Used, UsedByHooks
  <2>4. Included(s, b.dir, Names(b.hook))
    BY <2>1, <2>3 DEF Included
  <2> QED
    BY <1>2, <2>1, <2>2, <2>4 DEF Wanted
<1>4. ASSUME NEW b \in Wanted(w, s) PROVE b \in Wanted(w, r)
  <2> DEFINE d == b.dir
             h == b.hook
  <2>1. b \in AllHooks(w) /\ Included(s, d, Names(h)) /\ ~Skipped(s, d, Names(h)) /\ MatchesGroups(r, h)
    BY <1>2 DEF Wanted
  <2>2. d \in DOMAIN w /\ b = [dir |-> d, hook |-> h] /\ \E x \in w[d].repos : h \in x.hooks
    BY <2>1, HooksAre
  <2>3. PICK repo \in w[d].repos : h \in repo.hooks
    BY <2>2
  <2>4. Included(r, d, Names(h))
    BY <2>1 DEF Included
  <2>5. \A t \in r.skips : t \in Used(w, r) => ~Matches(t, d, Names(h))
    BY <2>1 DEF Skipped
  <2>6. \A t \in r.skips : t.kind = "prefix" => t.path \notin Above[d]
    BY <2>2, <2>5 DEF Used, UsedByPaths, Matches
  <2>7. MatchesPath(r, d)
    BY <2>4, <2>6, SelectedPath DEF SkippedPath
  <2>8. ASSUME NEW t \in r.skips, Matches(t, d, Names(h)) PROVE FALSE
    <3>1. CASE repo \in Planned(w, r, d)
      <4>1. [dir |-> d, hook |-> h] \in Built(w, r)
        BY <2>2, <2>3, <2>7, <3>1, BuiltAre
      <4>2. t \in UsedByHooks(w, r)
        BY <2>2, <2>8, <4>1 DEF UsedByHooks
      <4> QED
        BY <2>5, <2>8, <4>2 DEF Used
    <3>2. CASE repo \notin Planned(w, r, d)
      <4>1. ~KeepsConfigured(r, d, h)
        BY <2>3, <3>2 DEF Planned
      <4>2. PICK u \in r.skips : Matches(u, d, ConfiguredNames(h))
        BY <2>1, <4>1 DEF KeepsConfigured, Skipped
      <4>3. u \in UsedUncloned(w, r)
        BY <2>2, <2>3, <2>7, <3>2, <4>2 DEF UsedUncloned
      <4>4. Matches(u, d, Names(h))
        BY <4>2, NamesGrow DEF HasSelectors
      <4> QED
        BY <2>5, <4>3, <4>4 DEF Used
    <3> QED
      BY <3>1, <3>2
  <2>9. ~Skipped(r, d, Names(h))
    BY <2>8 DEF Skipped
  <2> QED
    BY <2>1, <2>4, <2>9 DEF Wanted
<1>5. Run(w, r) \subseteq Run(w, s)
  BY <1>1, <1>3
<1>6. Run(w, s) \subseteq Run(w, r)
  BY <1>1, <1>4
<1> QED
  BY <1>5, <1>6

LEMMA NoMessageHook ==
  ASSUME NEW w, NEW r, ~GetsMessage(w, r), NEW b \in Running(w, r)
  PROVE  b.hook.stages = {} \/ ~(b.hook.stages \subseteq MessageStages)
BY DEF GetsMessage, Running, Retain

(***************************************************************************)
(* The hooks that run are the documented ones, though projects and         *)
(* repositories are dropped before their hooks are known; hooks for        *)
(* messages are not run on files; and a selector that prek reports as      *)
(* unused has no part in it (selector.rs, keeps_configured_hook).          *)
(***************************************************************************)
THEOREM SelectionsAgree == Spec => []SelectionIsExact
<1>1. TypeOK => SelectionIsExact
  <2> SUFFICES ASSUME TypeOK, NEW p \in Commands
               PROVE  /\ Run(found[p], request[p]) = Wanted(found[p], request[p])
                      /\ ~GetsMessage(found[p], request[p]) =>
                           \A b \in Running(found[p], request[p]) :
                             b.hook.stages = {} \/ ~(b.hook.stages \subseteq MessageStages)
                      /\ LET w == found[p]
                             r == request[p]
                             s == WithSelectors(r, Used(w, r))
                         IN (r.includes = {}) = (s.includes = {}) => Run(w, s) = Run(w, r)
    BY DEF SelectionIsExact, MessagesOnly, UnusedHasNoEffect
  <2> DEFINE w == found[p]
             r == request[p]
             s == WithSelectors(r, Used(w, r))
  <2>1. r \in Requests
    BY DEF TypeOK
  <2>2. HasSelectors(r) /\ DOMAIN r = {"includes", "skips", "any", "all", "none", "stage", "input"}
    BY <2>1, WorkspaceAssumption DEF HasSelectors
  <2> HIDE DEF r, w
  <2>3. /\ s.includes = r.includes \cap Used(w, r) /\ s.skips = r.skips \cap Used(w, r)
        /\ s.any = r.any /\ s.all = r.all /\ s.none = r.none
    BY <2>2 DEF WithSelectors
  <2>4. HasSelectors(s)
    BY <2>2, <2>3 DEF HasSelectors
  <2> HIDE DEF s
  <2>5. (r.includes = {}) = (s.includes = {}) => Run(w, s) = Run(w, r)
    BY <2>2, <2>3, <2>4, UnusedIsLeftOut
  <2>6. Run(w, r) = Wanted(w, r)
    BY <2>2, RunIsWanted
  <2> QED
    BY <2>5, <2>6, NoMessageHook DEF w, r, s
<1> QED
  BY <1>1, WorkspaceTyping, PTL

-----------------------------------------------------------------------------
(***************************************************************************)
(* Which files a project gets.                                             *)
(***************************************************************************)
LEMMA Smallest ==
  ASSUME NEW some \in SUBSET Nat, some # {}
  PROVE  \E x \in some : \A y \in some : x <= y
<1>1. PICK x \in some : \A y \in some : ~(<<y, x>> \in OpToRel(<, Nat))
  BY NatLessThanWellFounded, WFMin
<1>2. ASSUME NEW y \in some PROVE x <= y
  <2>1. x \in Nat /\ y \in Nat
    OBVIOUS
  <2>2. y < x => <<y, x>> \in OpToRel(<, Nat)
    BY <2>1 DEF OpToRel
  <2>3. ~(y < x)
    BY <1>1, <2>2, Zenon
  <2> QED
    BY <2>1, <2>3
<1> QED
  BY <1>2
LEMMA Depths ==
  ASSUME NEW leaf \in Dirs, NEW d \in Above[leaf]
  PROVE  Depth(leaf) \in Nat /\ Depth(d) \in Nat /\ 1 <= Depth(d) /\ Depth(d) <= Depth(leaf)
<1>1. d \in Dirs /\ IsFiniteSet(Above[leaf]) /\ IsFiniteSet(Above[d]) /\ Above[d] \subseteq Above[leaf] /\ d \in Above[d]
  BY TreeAssumption
<1>2. Depth(leaf) \in Nat /\ Depth(d) \in Nat
  BY <1>1, FS_CardinalityType DEF Depth
<1>3. Depth(d) <= Depth(leaf)
  BY <1>1, FS_Subset DEF Depth
<1>4. Depth(d) # 0
  BY <1>1, FS_EmptySet DEF Depth
<1> QED
  BY <1>2, <1>3, <1>4

\* What the projects of depth at most n leave.
Taken(w, f, n) ==
  {d \in DOMAIN w :
     /\ d \in Above[DirOf[f]] /\ Depth(d) <= n /\ f \in Filter(w, d)
     /\ \A e \in DOMAIN w : e \in Above[DirOf[f]] /\ Depth(e) > Depth(d) /\ Depth(e) <= n => ~w[e].orphan}

LEMMA TakenSteps ==
  ASSUME NEW w, DOMAIN w \subseteq Dirs, NEW f \in Files
  PROVE  /\ Taken(w, f, 0) = {}
         /\ \A n \in Nat \ {0} : Taken(w, f, n) = Take(w, f, ProjectAt(w, f, n), Taken(w, f, n - 1))
         /\ Taken(w, f, Depth(DirOf[f])) = Eligible(w, f)
<1>1. \A d \in Above[DirOf[f]] : Depth(d) \in Nat /\ 1 <= Depth(d) /\ Depth(d) <= Depth(DirOf[f])
  BY Depths, TreeAssumption
<1>2. Taken(w, f, 0) = {}
  BY <1>1 DEF Taken
<1>3. ASSUME NEW n \in Nat \ {0} PROVE Taken(w, f, n) = Take(w, f, ProjectAt(w, f, n), Taken(w, f, n - 1))
  <2>1. ASSUME NEW d \in DOMAIN w, d \in Above[DirOf[f]], Depth(d) = n
        PROVE  d \in Taken(w, f, n) <=> f \in Filter(w, d)
    BY <1>1, <2>1 DEF Taken
  <2>2. ASSUME NEW d \in DOMAIN w, d \in Above[DirOf[f]], Depth(d) # n
        PROVE  d \in Taken(w, f, n) <=> d \in Taken(w, f, n - 1) /\ \A e \in ProjectAt(w, f, n) : ~w[e].orphan
    <3>1. Depth(d) \in Nat /\ (Depth(d) <= n <=> Depth(d) <= n - 1)
      BY <1>1, <2>2
    <3>2. ASSUME NEW e \in Above[DirOf[f]] PROVE Depth(e) <= n <=> Depth(e) <= n - 1 \/ Depth(e) = n
      BY <1>1
    <3>3. Depth(d) <= n => n > Depth(d)
      BY <2>2, <3>1
    <3> QED
      BY <2>2, <3>1, <3>2, <3>3 DEF Taken, ProjectAt
  <2>3. \A d \in Taken(w, f, n - 1) : d \in DOMAIN w /\ d \in Above[DirOf[f]] /\ Depth(d) # n
    BY <1>1 DEF Taken
  <2>4. \A d \in Taken(w, f, n) : d \in DOMAIN w /\ d \in Above[DirOf[f]]
    BY DEF Taken
  <2> QED
    BY <2>1, <2>2, <2>3, <2>4 DEF Take, ProjectAt
<1>4. Taken(w, f, Depth(DirOf[f])) = Eligible(w, f)
  BY <1>1 DEF Taken, Eligible, Filter
<1> QED
  BY <1>2, <1>3, <1>4

LEMMA OwnersAreEligible ==
  ASSUME NEW w, DOMAIN w \subseteq Dirs, NEW f \in Files
  PROVE  Owners(w, f) = Eligible(w, f)
<1> DEFINE N == Depth(DirOf[f])
           Step(g) == [n \in 0..N |-> IF n = 0 THEN {} ELSE Take(w, f, ProjectAt(w, f, n), g[n - 1])]
           from == CHOOSE g : g = Step(g)
           taken == [n \in 0..N |-> Taken(w, f, n)]
<1>1. DirOf[f] \in Dirs /\ DirOf[f] \in Above[DirOf[f]] /\ N \in Nat
  BY Depths, TreeAssumption
<1>2. Owners(w, f) = from[N]
  BY DEF Owners
<1> HIDE DEF N
<1>3. taken = Step(taken)
  <2>1. ASSUME NEW n \in 0..N, n # 0
        PROVE  Taken(w, f, n) = Take(w, f, ProjectAt(w, f, n), taken[n - 1])
    <3>1. n \in Nat \ {0} /\ n - 1 \in 0..N
      BY <1>1, <2>1
    <3> QED
      BY <3>1, TakenSteps
  <2>2. \A n \in 0..N : taken[n] = IF n = 0 THEN {} ELSE Take(w, f, ProjectAt(w, f, n), taken[n - 1])
    BY <2>1, TakenSteps
  <2> QED
    BY <2>2
<1>4. from = Step(from)
  <2> HIDE DEF taken, Step
  <2> QED
    BY <1>3
<1> HIDE DEF from
<1>5. \A n \in 0..N : from[n] = IF n = 0 THEN {} ELSE Take(w, f, ProjectAt(w, f, n), from[n - 1])
  BY <1>4
<1>6. ASSUME NEW x \in 0..N, from[x] # Taken(w, f, x) PROVE FALSE
  <2> DEFINE wrong == {n \in 0..N : from[n] # Taken(w, f, n)}
  <2>1. wrong \in SUBSET Nat /\ wrong # {}
    BY <1>1, <1>6
  <2>2. PICK n \in wrong : \A y \in wrong : n <= y
    BY <2>1, Smallest
  <2>3. n \in 0..N /\ from[n] # Taken(w, f, n)
    BY <2>2
  <2>4. n # 0
    BY <1>5, <2>3, TakenSteps
  <2>5. n - 1 \in 0..N /\ ~(n <= n - 1) /\ n \in Nat \ {0}
    BY <1>1, <2>3, <2>4
  <2>6. from[n - 1] = Taken(w, f, n - 1)
    BY <2>2, <2>5
  <2> QED
    BY <1>5, <2>3, <2>4, <2>5, <2>6, TakenSteps
<1>7. from[N] = Taken(w, f, N)
  BY <1>1, <1>6
<1> QED
  BY <1>2, <1>7, TakenSteps DEF N

LEMMA CollectedAre ==
  ASSUME NEW w, NEW r, NEW top, IsInput(r.input), NEW mode, NEW e \in Collected(w, top, r, mode)
  PROVE  mode = "files" /\ (e.deleted => e.file \in r.input.deleted)
<1>1. mode = "files" /\ e \in CollectFiles(top, r.input, \E b \in Running(w, r) : b.hook.deletes)
  BY DEF Collected
<1>2. \A files : \A x \in Existing(files) : ~x.deleted
  BY DEF Existing
<1>3. \A files : \A x \in Deleted(files) : x.file \in files
  BY DEF Deleted
<1> QED
  BY <1>1, <1>2, <1>3 DEF CollectFiles, IsInput

LEMMA InputsAlike ==
  ASSUME NEW w, NEW r, NEW top, IsInput(r.input)
  PROVE  InputsAgree(w, r, top)
<1> DEFINE i == r.input
           hooks == Running(w, r)
           mode == Shortcut(w, r)
           files == Collected(w, top, r, mode)
           all == Collected(w, top, r, InputMode(w, r))
<1>1. RunnableEnvHooks(w, i, mode, files, hooks) = {b \in Executed(w, i, mode, files, hooks) : b.hook.env}
  <2> HIDE DEF i, hooks, mode, files
  <2>1. ASSUME NEW b
        PROVE  RunInput(w, i, mode, files, b).matched \/ b.hook.always <=>
                 \/ b.hook.always
                 \/ IF mode = "message" THEN MatchesMessage(b.hook) ELSE Matching(w, i, files, b) # {}
    <3>1. CASE mode = "message"
      <4>1. RunInput(w, i, mode, files, b).matched = MatchesMessage(b.hook)
        BY <3>1 DEF RunInput, MatchesMessage
      <4> QED
        BY <3>1, <4>1
    <3>2. CASE mode # "message" /\ ~b.hook.names
      <4>1. RunInput(w, i, mode, files, b).matched = (b.hook.always \/ Matching(w, i, files, b) # {})
        BY <3>2 DEF RunInput
      <4> QED
        BY <3>2, <4>1
    <3>3. CASE mode # "message" /\ b.hook.names
      <4>1. RunInput(w, i, mode, files, b).matched = (Matching(w, i, files, b) # {})
        BY <3>3 DEF RunInput
      <4> QED
        BY <3>3, <4>1
    <3> QED
      BY <3>1, <3>2, <3>3
  <2> QED
    BY <2>1 DEF RunnableEnvHooks, Executed
<1>2. ASSUME NEW b \in hooks PROVE RunInput(w, i, mode, files, b) = RunInput(w, i, InputMode(w, r), all, b)
  <2>1. CASE mode = InputMode(w, r)
    BY <2>1
  <2>2. CASE mode # InputMode(w, r)
    <3>1. mode = "none" /\ InputMode(w, r) = "files" /\ b.hook.always /\ ~b.hook.names
      BY <2>2 DEF Shortcut
    <3> HIDE DEF i, hooks, mode, files, all
    <3>2. RunInput(w, i, mode, files, b) = [matched |-> b.hook.always \/ Matching(w, i, files, b) # {}, names |-> {}]
      BY <3>1 DEF RunInput
    <3>3. RunInput(w, i, InputMode(w, r), all, b) = [matched |-> b.hook.always \/ Matching(w, i, all, b) # {}, names |-> {}]
      BY <3>1 DEF RunInput
    <3> QED
      BY <3>1, <3>2, <3>3
  <2> QED
    BY <2>1, <2>2
<1>3. ASSUME NEW b \in hooks, NEW e \in RunInput(w, i, mode, files, b).names
      PROVE  e.file \in i.present \cup {Message} \/ (b.hook.deletes /\ e.file \in i.deleted)
  <2>1. \A x \in files : mode = "files" /\ (x.deleted => x.file \in i.deleted)
    BY CollectedAre
  <2> HIDE DEF i, hooks, mode, files, all
  <2>2. CASE mode = "message"
    <3>1. e \in Existing({Message})
      BY <1>3, <2>2 DEF RunInput
    <3> QED
      BY <3>1 DEF Existing
  <2>3. CASE mode # "message"
    <3>1. e \in Matching(w, i, files, b)
      BY <1>3, <2>3 DEF RunInput
    <3>2. e \in files /\ Passes(b.hook, i, e)
      BY <3>1 DEF Matching, ProjectFiles
    <3> QED
      BY <2>1, <3>2 DEF Passes, Identified
  <2> QED
    BY <2>2, <2>3
<1> QED
  BY <1>1, <1>2, <1>3 DEF InputsAgree

LEMMA MetaHooksAlike ==
  ASSUME NEW w \in Workspaces, NEW r, NEW top, IsInput(r.input)
  PROVE  MetaHooksAgree(w, r, top)
<1> DEFINE i == r.input
           files == Existing(i.tracked \cap FilesBelow(top))
<1> SUFFICES ASSUME NEW d \in DOMAIN w
             PROVE  /\ \A h \in CheckHooksApply(w, i, d) : Matching(w, i, files, [dir |-> d, hook |-> h]) = {}
                    /\ \A h \in UselessExcludes(w, i, d) :
                         Matching(w, i, files, [dir |-> d, hook |-> [h EXCEPT !.exclude = {}]])
                           = Matching(w, i, files, [dir |-> d, hook |-> h])
                    /\ UselessGlobalExclude(w, i, d) =>
                         \A f \in i.tracked : Owners([w EXCEPT ![d].exclude = {}], f) = Owners(w, f)
  BY DEF MetaHooksAgree
<1>1. DOMAIN w \subseteq Dirs /\ IsConfig(w[d]) /\ i.tracked \subseteq Files
  BY WorkspaceAssumption DEF Workspaces, IsInput
<1>2. \A e \in files : e.file \in i.tracked /\ ~e.deleted
  BY DEF Existing
<1> HIDE DEF i, files
<1>3. \A e \in ProjectFiles(w, files, d) : ~e.deleted /\ e.file \in VisitForProject(w, i, d)
  BY <1>1, <1>2, OwnersAreEligible DEF ProjectFiles, Eligible, VisitForProject, Filter, FilesBelow
<1>4. ASSUME NEW h, NEW e \in ProjectFiles(w, files, d)
      PROVE  Passes(h, i, e) <=> e.file \in h.matches \ h.exclude /\ Fits(h, i, e.file)
  BY <1>3, <1>4 DEF Passes, Identified, TagsOf, Fits
<1>5. ASSUME NEW h \in CheckHooksApply(w, i, d) PROVE Matching(w, i, files, [dir |-> d, hook |-> h]) = {}
  BY <1>3, <1>4 DEF CheckHooksApply, Matching
<1>6. ASSUME NEW h \in UselessExcludes(w, i, d)
      PROVE  Matching(w, i, files, [dir |-> d, hook |-> [h EXCEPT !.exclude = {}]])
               = Matching(w, i, files, [dir |-> d, hook |-> h])
  <2> DEFINE k == [h EXCEPT !.exclude = {}]
  <2>1. IsHook(h)
    BY <1>1 DEF UselessExcludes, HooksOf, IsConfig
  <2>2. k.exclude = {} /\ k.matches = h.matches /\ k.types = h.types
    BY <2>1 DEF IsHook
  <2> HIDE DEF k
  <2>3. \A e \in ProjectFiles(w, files, d) : Passes(k, i, e) <=> Passes(h, i, e)
    <3>1. \A f : Fits(k, i, f) <=> Fits(h, i, f)
      BY <2>2 DEF Fits
    <3>2. \A f \in VisitForProject(w, i, d) : f \notin h.matches \cap h.exclude \/ ~Fits(h, i, f)
      BY DEF UselessExcludes
    <3> QED
      BY <1>3, <1>4, <2>2, <3>1, <3>2
  <2> QED
    BY <2>3 DEF Matching, k
<1>7. ASSUME UselessGlobalExclude(w, i, d), NEW f \in i.tracked
      PROVE  Owners([w EXCEPT ![d].exclude = {}], f) = Owners(w, f)
  <2> DEFINE v == [w EXCEPT ![d].exclude = {}]
  <2>1. /\ DOMAIN v = DOMAIN w
        /\ \A e \in DOMAIN w : e # d => v[e] = w[e]
        /\ v[d].exclude = {} /\ v[d].matches = w[d].matches /\ v[d].orphan = w[d].orphan
    BY <1>1 DEF IsConfig
  <2> HIDE DEF v
  <2>2. d \in Above[DirOf[f]] => f \notin w[d].exclude
    BY <1>1, <1>7 DEF UselessGlobalExclude, FilesBelow
  <2>3. Eligible(v, f) = Eligible(w, f)
    BY <2>1, <2>2 DEF Eligible
  <2> QED
    BY <1>1, <2>1, <2>3, OwnersAreEligible DEF v
<1> QED
  BY <1>5, <1>6, <1>7

(***************************************************************************)
(* Every project gets the documented files (RunFileIndex); environments    *)
(* are installed for the hooks that run, whatever is left uncollected, and *)
(* a file that is not there goes to a hook for deleted ones only; and the  *)
(* meta hooks judge a configuration as a run does.                         *)
(***************************************************************************)
THEOREM OwnersAgree == Spec => []FilesByOwnership
<1>1. TypeOK => FilesByOwnership
  <2> SUFFICES ASSUME TypeOK, NEW p \in Commands
               PROVE  /\ \A f \in Files : Owners(found[p], f) = Eligible(found[p], f)
                      /\ InputsAgree(found[p], request[p], root[p])
                      /\ MetaHooksAgree(found[p], request[p], root[p])
    BY DEF FilesByOwnership
  <2>1. found[p] \in Workspaces /\ request[p] \in Requests
    BY DEF TypeOK
  <2>2. DOMAIN found[p] \subseteq Dirs
    BY <2>1 DEF Workspaces
  <2>3. IsInput(request[p].input)
    BY <2>1, WorkspaceAssumption
  <2> QED
    BY <2>1, <2>2, <2>3, OwnersAreEligible, InputsAlike, MetaHooksAlike
<1> QED
  BY <1>1, WorkspaceTyping, PTL
=============================================================================
